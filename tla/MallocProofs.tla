---------------------------- MODULE MallocProofs ----------------------------
(***************************************************************************)
(* Proofs about the memory allocator, for every number, place and size of  *)
(* the heaps.                                                              *)
(***************************************************************************)
EXTENDS Malloc, TLAPS

\* r numbers the members of each free chain from its head (0) backwards:
\* next_free goes from a member to the one with the next lower number.
FreeOrder(r) ==
  /\ \A a \in Heads : r[a] = 0
  /\ \A a \in OnFreeChain \ Heads :
       /\ r[a] > 0 /\ r[next_free[a]] < r[a]
       /\ r[a] <= r[next_free[Head(heap[a])]]
  /\ \A a, b \in OnFreeChain \ Heads :
       heap[a] = heap[b] =>
         /\ r[b] < r[a] => r[b] <= r[next_free[a]]
         /\ r[a] = r[b] => a = b

\* The search has found every block that it has passed too small.
PassedTooSmall(r) ==
  pc = "scan" =>
    \A b \in OnFreeChain \ Heads : heap[b] = req.heap /\ r[b] > r[fp] => size[b] < req.size

\* Each free chain is one ring: it has an order, and the search follows it.
\* The links being inverse to each other would also allow a ring of free
\* blocks that misses the head.
SearchOrder == \E r \in [OnFreeChain -> Nat] : FreeOrder(r) /\ PassedTooSmall(r)

\* The strengthened invariant: the arena, the cursors of the running loop and
\* the progress of the search and of the sweep depend on each other.
IInv ==
  TypeOK /\ ArenaInv /\ Coalesced /\ CursorInv /\ SweepMissesNothing /\ SearchOrder

-----------------------------------------------------------------------------
(* Facts about addresses *)

\* List heads are distinct negative addresses, one for each heap.
LEMMA HeadFacts ==
  /\ \A h \in Heap : h \in Int /\ Head(h) \in Heads /\ Head(h) < 0 /\ Head(h) \in Int
  /\ \A a \in Heads : a \in Int /\ a < 0 /\ \E h \in Heap : a = Head(h)
  /\ \A g, h \in Heap : Head(g) = Head(h) => g = h
BY HeapAssumption DEF Heap, Head, Heads

\* Heap units are natural numbers, and a unit belongs to one heap.
LEMMA UnitFacts ==
  /\ \A h \in Heap : Base[h] \in Nat /\ End[h] \in Nat /\ Base[h] \in Units(h)
  /\ \A h \in Heap : \A a \in Units(h) : a \in Nat /\ Base[h] <= a /\ a < End[h]
  /\ \A g, h \in Heap : \A a \in Units(g) : a \in Units(h) => g = h
  /\ \A h \in Heap : \A a \in Nat : Base[h] <= a /\ a < End[h] => a \in Units(h)
<1> USE HeapAssumption
<1>1. \A h \in Heap : Base[h] \in Nat /\ End[h] \in Nat /\ Base[h] + 2 <= End[h]
  OBVIOUS
<1>2. \A h \in Heap : Base[h] \in Units(h)
  BY <1>1 DEF Units
<1>3. \A h \in Heap : \A a \in Units(h) : a \in Nat /\ Base[h] <= a /\ a < End[h]
  BY <1>1 DEF Units
<1>4. \A g, h \in Heap : \A a \in Units(g) : a \in Units(h) => g = h
  BY <1>1, <1>3
<1>5. \A h \in Heap : \A a \in Nat : Base[h] <= a /\ a < End[h] => a \in Units(h)
  BY <1>1 DEF Units
<1>6. QED
  BY <1>1, <1>2, <1>3, <1>4, <1>5

\* HeapOf is well defined on the headers that mem_init creates.
LEMMA HeapOfFacts ==
  ASSUME NEW h \in Heap
  PROVE  HeapOf(Head(h)) = h /\ HeapOf(Base[h]) = h
<1>1. Base[h] \in Nat /\ Head(h) < 0 /\ Head(h) \in Int
  BY HeadFacts, UnitFacts
<1>2. \A g \in Heap : Base[g] = Base[h] => g = h
  BY UnitFacts
<1>3. \A g \in Heap : Base[g] \in Nat /\ Head(g) < 0 /\ Head(g) \in Int
  BY HeadFacts, UnitFacts
<1>4. \A g \in Heap : (Head(h) = Head(g) \/ Head(h) = Base[g]) <=> g = h
  BY <1>1, <1>3, HeadFacts
<1>5. \A g \in Heap : (Base[h] = Head(g) \/ Base[h] = Base[g]) <=> g = h
  BY <1>1, <1>2, <1>3
<1>6. QED
  BY <1>4, <1>5 DEF HeapOf

-----------------------------------------------------------------------------
(* mem_init *)

LEMMA InitInv == Init => IInv
<1> SUFFICES ASSUME Init PROVE IInv
  OBVIOUS
<1>1. live = {Base[h] : h \in Heap} /\ \A b \in live : b \in Nat /\ b \notin Heads
  BY HeadFacts, UnitFacts DEF Init
<1>2. \A a \in Chained : \E h \in Heap : HeapOf(a) = h /\ (a = Head(h) \/ a = Base[h])
  BY HeadFacts, HeapOfFacts, <1>1 DEF Chained
<1>3. \A h \in Heap : /\ Head(h) \in Chained /\ Base[h] \in Chained
                      /\ InitialRing[Head(h)] = Base[h] /\ InitialRing[Base[h]] = Head(h)
  BY HeadFacts, HeapOfFacts, <1>1 DEF InitialRing, Chained
<1>4. InitialRing \in [Chained -> Chained]
  BY <1>2, <1>1, HeadFacts DEF InitialRing, Chained
<1>5. /\ OnFreeChain = Chained
      /\ next = InitialRing /\ prev = InitialRing
      /\ next_free = InitialRing /\ prev_free = InitialRing
  BY <1>1 DEF OnFreeChain, Init, Chained
<1>6. 0 \in Heap
  BY HeapAssumption DEF Heap
<1>7. TypeOK
  <2>1. live \in SUBSET UNION {Units(h) : h \in Heap}
    BY UnitFacts DEF Init
  <2>2. size \in [Chained -> Nat]
    BY <1>2, HeapAssumption DEF Init
  <2>3. type \in [Chained -> Types] /\ tag \in [Chained -> Tags]
    BY DEF Types, Tags, Init
  <2>4. heap \in [Chained -> Heap]
    BY <1>2 DEF Init
  <2>5. fp \in Chained /\ req \in [heap : Heap, size : Nat, tag : Tags]
    BY HeadFacts, <1>6 DEF NoReq, Tags, Init, Chained
  <2>6. pc = "idle" /\ ret = "idle"
    BY DEF Init
  <2>7. QED
    BY <1>4, <1>5, <2>1, <2>2, <2>3, <2>4, <2>5, <2>6 DEF TypeOK
<1>8. ArenaInv
  <2>1. \A h \in Heap : /\ heap[Base[h]] = h /\ size[Base[h]] = End[h] - Base[h]
                        /\ type[Base[h]] = "free" /\ tag[Base[h]] = "FREE"
    BY <1>1, <1>3, HeapOfFacts DEF Init
  <2>2. \A h \in Heap : heap[Head(h)] = h /\ type[Head(h)] = "head"
    BY <1>3, HeapOfFacts, HeadFacts DEF Init
  <2>3. BlocksFit
    <3>1. \A h \in Heap : /\ Base[h] \in Units(heap[Base[h]]) /\ size[Base[h]] >= 2
                          /\ Base[h] + size[Base[h]] = End[heap[Base[h]]]
      BY <2>1, UnitFacts, HeapAssumption
    <3>2. QED
      BY <1>1, <2>1, <3>1, HeapAssumption DEF BlocksFit
  <2>4. Tiles
    <3>1. \A h \in Heap : Base[h] + size[Base[h]] = End[heap[Base[h]]]
      BY <2>1, UnitFacts, HeapAssumption
    <3>2. \A g, h \in Heap : Base[g] < Base[h] => Base[g] + size[Base[g]] <= Base[h]
      BY <2>1, UnitFacts, HeapAssumption
    <3>3. QED
      BY <1>1, <1>3, <1>5, <2>1, <3>1, <3>2 DEF Tiles
  <2>5. ChainLinked
    BY <2>2, <1>2, <1>3, <1>5 DEF ChainLinked
  <2>6. FreeChainLinked
    BY <2>1, <2>2, <1>2, <1>3, <1>5 DEF FreeChainLinked
  <2>7. QED
    BY <2>3, <2>4, <2>5, <2>6 DEF ArenaInv
<1>9. Coalesced
  BY <1>1, <1>3, <1>5, HeadFacts DEF Coalesced, Init
<1>10. SearchOrder
  <2> DEFINE r == [a \in OnFreeChain |-> IF a \in Heads THEN 0 ELSE 1]
  <2>1. r \in [OnFreeChain -> Nat]
    OBVIOUS
  <2>2. \A a \in OnFreeChain : a \notin Heads =>
          \E h \in Heap : a = Base[h] /\ heap[a] = h /\ next_free[a] = Head(h)
                         /\ next_free[Head(h)] = a /\ Head(h) \in Heads
    BY <1>1, <1>2, <1>3, <1>5, HeadFacts DEF Init
  <2>3. Heads \subseteq OnFreeChain
    BY <1>5 DEF Chained
  <2>4. FreeOrder(r)
    BY <2>2, <2>3 DEF FreeOrder
  <2>5. PassedTooSmall(r)
    BY DEF PassedTooSmall, Init
  <2>6. QED
    BY <2>1, <2>4, <2>5 DEF SearchOrder
<1>11. QED
  BY <1>7, <1>8, <1>9, <1>10 DEF IInv, CursorInv, SweepMissesNothing, Init

-----------------------------------------------------------------------------
(* Consequences of the invariant *)

\* What the provers need to know of a well-formed arena.
LEMMA ArenaFacts ==
  ASSUME IInv
  PROVE  /\ \A b \in live : /\ b \in Nat /\ b \notin Heads /\ b \in Chained
                            /\ heap[b] \in Heap /\ size[b] \in Nat
         /\ \A h \in Heap : Head(h) \in Chained /\ Head(h) \in OnFreeChain
         /\ \A a \in Chained : /\ a \in Int /\ heap[a] \in Heap
                               /\ next[a] \in Chained /\ prev[a] \in Chained
                               /\ a \in Heads => a = Head(heap[a])
                               /\ a \notin Heads => a \in live
         /\ \A a \in Chained : heap[next[a]] = heap[a]
         /\ \A a \in Chained : heap[prev[a]] = heap[a]
         /\ \A b \in live : next[b] \in live => next[b] = b + size[b]
         /\ \A b \in live : next[b] \notin live =>
              next[b] = Head(heap[b]) /\ b + size[b] = End[heap[b]]
<1> USE DEF IInv
<1>1. \A b \in live : b \in Nat /\ b \notin Heads
  <2>1. \A b \in live : \E h \in Heap : b \in Units(h)
    BY DEF TypeOK
  <2>2. QED
    BY <2>1, UnitFacts, HeadFacts
<1>2. \A b \in live : heap[b] \in Heap /\ size[b] \in Nat /\ b \in Chained
  BY DEF TypeOK, Chained
<1>3. \A h \in Heap : Head(h) \in Chained /\ Head(h) \in OnFreeChain
  BY HeadFacts DEF Chained, OnFreeChain
<1>4. \A a \in Chained : a \in Heads => a = Head(heap[a])
  BY HeadFacts DEF ArenaInv, ChainLinked
<1>5. \A a \in Chained : /\ a \in Int /\ heap[a] \in Heap
                         /\ next[a] \in Chained /\ prev[a] \in Chained
                         /\ a \notin Heads => a \in live
  BY <1>1, HeadFacts DEF TypeOK, Chained
<1>6. \A b \in live : next[b] \in live => next[b] = b + size[b]
  BY <1>1, <1>2, HeadFacts DEF ArenaInv, Tiles
<1>7. \A b \in live : next[b] \notin live =>
        next[b] = Head(heap[b]) /\ b + size[b] = End[heap[b]]
  BY DEF ArenaInv, Tiles
<1>8. \A a \in Chained : heap[next[a]] = heap[a]
  <2>1. \A h \in Heap : heap[next[Head(h)]] = heap[Head(h)]
    <3>1. \A h \in Heap : next[Head(h)] = Base[h] /\ Base[h] \in live /\ heap[Head(h)] = h
      BY DEF ArenaInv, Tiles, ChainLinked
    <3>2. \A h \in Heap : Base[h] \in Units(heap[Base[h]]) /\ heap[Base[h]] \in Heap
      BY <3>1, <1>2 DEF ArenaInv, BlocksFit
    <3>3. \A h \in Heap : heap[Base[h]] = h
      BY <3>2, UnitFacts
    <3>4. QED
      BY <3>1, <3>3
  <2>2. \A b \in live : heap[next[b]] = heap[b]
    <3>1. \A b \in live : next[b] = Head(heap[b]) => heap[next[b]] = heap[b]
      BY <1>2 DEF ArenaInv, ChainLinked
    <3>2. QED
      BY <3>1 DEF ArenaInv, Tiles
  <2>3. QED
    BY <2>1, <2>2, <1>4, <1>5
<1>9. \A a \in Chained : heap[prev[a]] = heap[a]
  <2>1. \A a \in Chained : prev[a] \in Chained /\ next[prev[a]] = a
    BY <1>5 DEF ArenaInv, ChainLinked
  <2>2. QED
    BY <2>1, <1>8
<1>10. QED
  BY <1>1, <1>2, <1>3, <1>4, <1>5, <1>6, <1>7, <1>8, <1>9

\* A used block lies at or after any block that does not start after it.
LEMMA NoOverlap ==
  ASSUME IInv, NEW b \in live, NEW c \in live, b < c
  PROVE  b + size[b] <= c
BY DEF IInv, ArenaInv, Tiles

-----------------------------------------------------------------------------
(* Steps that move only the cursor *)

\* A step that leaves the arena alone preserves its invariants.
LEMMA QuietStep ==
  ASSUME IInv, UNCHANGED <<links, attrs, live>>
  PROVE  ArenaInv' /\ Chained' = Chained /\ OnFreeChain' = OnFreeChain /\ Used' = Used
BY DEF IInv, links, attrs, ArenaInv, BlocksFit, Tiles, ChainLinked, FreeChainLinked,
       Chained, OnFreeChain, Used

\* A step that leaves the arena alone and starts no search keeps the order.
LEMMA QuietOrder ==
  ASSUME IInv, UNCHANGED <<links, attrs, live>>, pc' # "scan"
  PROVE  SearchOrder'
<1>1. PICK r \in [OnFreeChain -> Nat] : FreeOrder(r)
  BY DEF IInv, SearchOrder
<1>2. OnFreeChain' = OnFreeChain
  BY QuietStep
<1>3. FreeOrder(r)' /\ PassedTooSmall(r)'
  BY <1>1, <1>2 DEF FreeOrder, PassedTooSmall, links, attrs
<1>4. QED
  BY <1>1, <1>2, <1>3 DEF SearchOrder

\* Starting _malloc keeps the invariant.
LEMMA MallocInv ==
  ASSUME IInv, NEW h \in Heap, NEW n \in Nat \ {0}, NEW t \in {"CORE", "MODULE"}, Malloc(h, n, t)
  PROVE  IInv'
<1> USE DEF Malloc
<1>1. ArenaInv' /\ Chained' = Chained /\ OnFreeChain' = OnFreeChain /\ Used' = Used
  BY QuietStep
<1>2. fp' \in OnFreeChain /\ heap[fp'] = h /\ fp' \in Chained
  <2>1. Head(h) \in OnFreeChain /\ heap[Head(h)] = h
    BY ArenaFacts DEF IInv, ArenaInv, ChainLinked
  <2>2. next_free[Head(h)] \in OnFreeChain /\ heap[next_free[Head(h)]] = h
    BY <2>1 DEF IInv, TypeOK, ArenaInv, FreeChainLinked
  <2>3. QED
    BY <2>2 DEF OnFreeChain
<1>3. TypeOK'
  BY <1>1, <1>2 DEF IInv, TypeOK, links, attrs, Tags
<1>4. Coalesced'
  BY DEF IInv, Coalesced, links, attrs
<1>5. CursorInv'
  BY <1>1, <1>2 DEF CursorInv, attrs
<1>6. SearchOrder'
  <2>1. PICK r \in [OnFreeChain -> Nat] : FreeOrder(r)
    BY DEF IInv, SearchOrder
  <2>2. FreeOrder(r)'
    BY <1>1, <2>1 DEF FreeOrder, links, attrs
  <2>3. \A b \in OnFreeChain \ Heads : heap[b] = h => ~ (r[b] > r[fp'])
    <3>1. \A b \in OnFreeChain \ Heads : heap[b] = h => r[b] <= r[fp'] /\ r[b] \in Nat
      BY <2>1 DEF FreeOrder
    <3>2. r[fp'] \in Nat
      BY <1>2
    <3>3. QED
      BY <3>1, <3>2
  <2>4. PassedTooSmall(r)'
    BY <1>1, <2>3 DEF PassedTooSmall, attrs
  <2>5. QED
    BY <1>1, <2>1, <2>2, <2>4 DEF SearchOrder
<1>7. QED
  BY <1>1, <1>3, <1>4, <1>5, <1>6 DEF IInv, SweepMissesNothing

\* Advancing or failing the first-fit search keeps the invariant.
LEMMA ScanInv ==
  ASSUME IInv, ScanNext \/ ScanFail
  PROVE  IInv'
<1>1. ArenaInv' /\ Chained' = Chained /\ OnFreeChain' = OnFreeChain /\ Used' = Used
  BY QuietStep DEF ScanNext, ScanFail
<1>2. Coalesced'
  BY DEF IInv, Coalesced, ScanNext, ScanFail, BackToCaller, links, attrs
<1>3. CASE ScanNext
  <2>1. fp' \in OnFreeChain /\ heap[fp'] = req.heap /\ fp' \in Chained
    <3>1. fp \in OnFreeChain /\ heap[fp] = req.heap
      BY <1>3 DEF ScanNext, IInv, CursorInv
    <3>2. next_free[fp] \in OnFreeChain /\ heap[next_free[fp]] = req.heap
      BY <3>1 DEF IInv, TypeOK, ArenaInv, FreeChainLinked
    <3>3. QED
      BY <3>2, <1>3 DEF ScanNext, OnFreeChain
  <2>2. TypeOK'
    BY <1>1, <1>3, <2>1 DEF IInv, TypeOK, ScanNext, links, attrs
  <2>3. CursorInv'
    BY <1>1, <1>3, <2>1 DEF IInv, CursorInv, ScanNext, attrs
  <2>4. SearchOrder'
    <3>1. PICK r \in [OnFreeChain -> Nat] : FreeOrder(r) /\ PassedTooSmall(r)
      BY DEF IInv, SearchOrder
    <3>2. FreeOrder(r)'
      BY <1>1, <1>3, <3>1 DEF FreeOrder, ScanNext, links, attrs
    <3>3. fp \in OnFreeChain \ Heads /\ heap[fp] = req.heap
      BY <1>3, ArenaFacts DEF ScanNext, IInv, CursorInv, OnFreeChain
    <3>4. ASSUME NEW b \in OnFreeChain \ Heads, heap[b] = req.heap, r[b] > r[next_free[fp]]
          PROVE  size[b] < req.size
      <4>1. r[b] \in Nat /\ r[fp] \in Nat /\ r[next_free[fp]] \in Nat
        BY <3>3 DEF IInv, TypeOK
      <4>2. r[b] < r[fp] => r[b] <= r[next_free[fp]]
        BY <3>1, <3>3, <3>4 DEF FreeOrder
      <4>3. r[b] > r[fp] \/ r[b] = r[fp]
        BY <4>1, <4>2, <3>4
      <4>4. CASE r[b] > r[fp]
        BY <4>4, <3>1, <3>4, <1>3 DEF PassedTooSmall, ScanNext
      <4>5. CASE r[b] = r[fp]
        BY <4>5, <3>1, <3>3, <3>4, <1>3 DEF FreeOrder, ScanNext
      <4>6. QED
        BY <4>3, <4>4, <4>5
    <3>5. PassedTooSmall(r)'
      BY <1>1, <1>3, <3>4 DEF PassedTooSmall, ScanNext, attrs
    <3>6. QED
      BY <1>1, <3>1, <3>2, <3>5 DEF SearchOrder
  <2>5. QED
    BY <1>1, <1>2, <1>3, <2>2, <2>3, <2>4 DEF IInv, SweepMissesNothing, ScanNext
<1>4. CASE ScanFail
  <2>1. fp' \in Chained /\ req' \in [heap : Heap, size : Nat, tag : Tags]
    BY <1>4, HeadFacts, HeapAssumption DEF ScanFail, BackToCaller, NoReq, Tags, Chained, Heap
  <2>2. TypeOK'
    BY <1>1, <1>4, <2>1 DEF IInv, TypeOK, ScanFail, BackToCaller, links, attrs
  <2>3. SearchOrder'
    BY <1>4, QuietOrder DEF ScanFail, BackToCaller
  <2>4. QED
    BY <1>1, <1>2, <1>4, <2>2, <2>3 DEF IInv, CursorInv, SweepMissesNothing, ScanFail, BackToCaller
<1>5. QED
  BY <1>3, <1>4

\* Where the sweep goes on after block b: every later block is still ahead.
LEMMA SuccessorIsNext ==
  ASSUME IInv, NEW b \in live, NEW c \in live, heap[c] = heap[b], c > b
  PROVE  next[b] \in live /\ c >= next[b]
<1>1. b \in Nat /\ c \in Nat /\ size[b] \in Nat /\ heap[b] \in Heap /\ size[c] \in Nat
  BY ArenaFacts
<1>2. b + size[b] <= c
  BY <1>1, NoOverlap
<1>3. c < End[heap[b]] /\ End[heap[b]] \in Nat
  BY <1>1, UnitFacts DEF IInv, ArenaInv, BlocksFit
<1>4. b + size[b] # End[heap[b]]
  BY <1>1, <1>2, <1>3
<1>5. next[b] \in live
  BY <1>4, ArenaFacts
<1>6. QED
  BY <1>2, <1>5, ArenaFacts

\* Every step of the sweep that frees nothing keeps the invariant.
LEMMA SweepQuietInv ==
  ASSUME IInv, CleanupLowmem \/ SweepSkip \/ SweepNextHeap \/ SweepDone
  PROVE  IInv'
<1>1. ArenaInv' /\ Chained' = Chained /\ OnFreeChain' = OnFreeChain /\ Used' = Used
  BY QuietStep DEF CleanupLowmem, SweepSkip, SweepNextHeap, SweepDone
<1>2. Coalesced'
  BY DEF IInv, Coalesced, CleanupLowmem, SweepSkip, SweepNextHeap, SweepDone,
         BackToCaller, links, attrs
<1>10. SearchOrder'
  BY QuietOrder DEF CleanupLowmem, SweepSkip, SweepNextHeap, SweepDone, BackToCaller
<1>3. \A h \in Heap : next[Head(h)] \in Chained /\ heap[next[Head(h)]] = h /\ next[Head(h)] \in live
                      /\ next[Head(h)] = Base[h] /\ next[Head(h)] \notin Heads
  BY ArenaFacts DEF IInv, ArenaInv, Tiles, ChainLinked
<1>4. \A b \in live : heap[b] \in Heap /\ b >= Base[heap[b]] /\ b \in Nat
  BY ArenaFacts, UnitFacts DEF IInv, ArenaInv, BlocksFit
<1>5. CASE CleanupLowmem
  <2>1. 0 \in Heap
    BY HeapAssumption DEF Heap
  <2>2. fp' \in Chained /\ heap[fp'] = 0 /\ req'.heap = 0
        /\ req' \in [heap : Heap, size : Nat, tag : Tags]
    BY <1>5, <1>3, <2>1 DEF CleanupLowmem, IInv, TypeOK
  <2>3. TypeOK'
    BY <1>1, <1>5, <2>2 DEF IInv, TypeOK, CleanupLowmem, links, attrs
  <2>4. CursorInv'
    BY <1>1, <1>5, <2>2 DEF CursorInv, CleanupLowmem, attrs
  <2>5. \A b \in Used : AheadOfSweep(b)'
    <3>1. fp' = Base[0] /\ fp' \notin Heads
      BY <1>5, <1>3, <2>1 DEF CleanupLowmem
    <3>2. \A b \in Used : b \in live /\ heap[b] \in Heap /\ (heap[b] = 0 => b >= fp')
      BY <1>4, <3>1 DEF Used
    <3>3. \A b \in Used : heap[b] = 0 \/ heap[b] > 0
      BY <3>2, HeapAssumption DEF Heap
    <3>4. QED
      BY <3>1, <3>2, <3>3, <2>2, <1>5 DEF AheadOfSweep, CleanupLowmem, attrs
  <2>6. QED
    BY <1>1, <1>2, <2>3, <2>4, <2>5, <1>10 DEF IInv, SweepMissesNothing
<1>6. CASE SweepSkip
  <2>1. fp \in live /\ heap[fp] = req.heap
    BY <1>6, ArenaFacts DEF SweepSkip, IInv, CursorInv
  <2>2. fp' \in Chained /\ heap[fp'] = req.heap
    BY <1>6, <2>1, ArenaFacts DEF SweepSkip
  <2>3. TypeOK'
    BY <1>1, <1>6, <2>2 DEF IInv, TypeOK, SweepSkip, links, attrs
  <2>4. CursorInv'
    BY <1>1, <1>6, <2>2 DEF CursorInv, SweepSkip, attrs
  <2>5. ASSUME NEW b \in Used, tag[b] = "MODULE"
        PROVE  AheadOfSweep(b)'
    <3>1. AheadOfSweep(b) /\ b \in live /\ b # fp /\ b \in Nat /\ fp \in Nat
      BY <1>6, <2>1, <2>5, ArenaFacts DEF IInv, SweepMissesNothing, SweepSkip, Used, Tagged
    <3>2. CASE heap[b] = req.heap
      <4>1. b > fp
        BY <3>1, <3>2, <2>1, ArenaFacts, HeapAssumption, SMTT(30) DEF AheadOfSweep, Heap
      <4>2. next[fp] \in live /\ b >= next[fp]
        BY <4>1, <3>1, <3>2, <2>1, SuccessorIsNext
      <4>3. QED
        BY <4>2, <3>2, <1>6, ArenaFacts DEF AheadOfSweep, SweepSkip, attrs
    <3>3. CASE heap[b] # req.heap
      BY <3>1, <3>3, <1>6 DEF AheadOfSweep, SweepSkip, attrs
    <3>4. QED
      BY <3>2, <3>3
  <2>6. QED
    BY <1>1, <1>2, <1>6, <2>3, <2>4, <2>5, <1>10 DEF IInv, SweepMissesNothing, SweepSkip, attrs
<1>7. CASE SweepNextHeap
  <2>1. req.heap + 1 \in Heap
    <3>1. req.heap \in Heap /\ NHEAP \in Nat
      BY HeapAssumption DEF IInv, TypeOK
    <3>2. req.heap + 1 < NHEAP
      BY <1>7 DEF SweepNextHeap
    <3>3. QED
      BY <3>1, <3>2 DEF Heap
  <2>2. fp' \in Chained /\ heap[fp'] = req.heap + 1 /\ req'.heap = req.heap + 1
        /\ req' \in [heap : Heap, size : Nat, tag : Tags]
    BY <1>7, <1>3, <2>1 DEF SweepNextHeap, IInv, TypeOK
  <2>3. TypeOK'
    BY <1>1, <1>7, <2>2 DEF IInv, TypeOK, SweepNextHeap, links, attrs
  <2>4. CursorInv'
    BY <1>1, <1>7, <2>2 DEF CursorInv, SweepNextHeap, attrs
  <2>5. ASSUME NEW b \in Used, tag[b] = "MODULE"
        PROVE  AheadOfSweep(b)'
    <3>1. AheadOfSweep(b) /\ b \in live /\ heap[b] \in Heap /\ req.heap \in Heap
      BY <1>7, <2>5, ArenaFacts DEF IInv, SweepMissesNothing, SweepNextHeap, Used, TypeOK
    <3>2. heap[b] > req.heap
      BY <3>1, <1>7, HeadFacts DEF AheadOfSweep, SweepNextHeap
    <3>3. heap[b] = req.heap + 1 \/ heap[b] > req.heap + 1
      BY <3>1, <3>2, HeapAssumption, SMTT(30) DEF Heap
    <3>4. fp' = Base[req.heap + 1] /\ fp' \notin Heads
      BY <1>7, <1>3, <2>1 DEF SweepNextHeap
    <3>5. heap[b] = req.heap + 1 => b >= fp'
      BY <3>1, <3>4, <1>4
    <3>6. QED
      BY <3>3, <3>4, <3>5, <2>2, <1>7 DEF AheadOfSweep, SweepNextHeap, attrs
  <2>6. QED
    BY <1>1, <1>2, <1>7, <2>3, <2>4, <2>5, <1>10 DEF IInv, SweepMissesNothing, SweepNextHeap, attrs
<1>8. CASE SweepDone
  <2>1. fp' \in Chained /\ req' \in [heap : Heap, size : Nat, tag : Tags]
    BY <1>8, HeadFacts, HeapAssumption DEF SweepDone, BackToCaller, NoReq, Tags, Chained, Heap
  <2>2. TypeOK'
    BY <1>1, <1>8, <2>1 DEF IInv, TypeOK, SweepDone, BackToCaller, links, attrs
  <2>3. QED
    BY <1>1, <1>2, <1>8, <1>10, <2>2 DEF IInv, CursorInv, SweepMissesNothing, SweepDone, BackToCaller
<1>9. QED
  BY <1>5, <1>6, <1>7, <1>8

-----------------------------------------------------------------------------
(* Surgery on the chains *)

\* Taking a block off the free chain leaves one ring without it.
LEMMA UnlinkFreeOK ==
  ASSUME IInv, NEW x \in OnFreeChain \ Heads, UnlinkFree(x),
         OnFreeChain' = OnFreeChain \ {x},
         \A a \in OnFreeChain \ {x} : heap'[a] = heap[a],
         pc' # "scan"
  PROVE  /\ next_free' \in [OnFreeChain' -> OnFreeChain']
         /\ prev_free' \in [OnFreeChain' -> OnFreeChain']
         /\ FreeChainLinked' /\ SearchOrder'
<1> DEFINE F == OnFreeChain \ {x}
<1>1. PICK r \in [OnFreeChain -> Nat] : FreeOrder(r)
  BY DEF IInv, SearchOrder
<1>2. /\ next_free[x] \in OnFreeChain /\ prev_free[x] \in OnFreeChain
      /\ next_free \in [OnFreeChain -> OnFreeChain] /\ prev_free \in [OnFreeChain -> OnFreeChain]
  BY DEF IInv, TypeOK
<1>3. \A a \in OnFreeChain : /\ heap[next_free[a]] = heap[a] /\ heap[prev_free[a]] = heap[a]
                             /\ prev_free[next_free[a]] = a /\ next_free[prev_free[a]] = a
  BY DEF IInv, ArenaInv, FreeChainLinked
<1>4. next_free[x] # x /\ prev_free[x] # x
  <2>1. next_free[x] # x
    BY <1>1, <1>2 DEF FreeOrder
  <2>2. QED
    BY <2>1, <1>3
<1>5. /\ next_free' = [a \in F |-> IF a = prev_free[x] THEN next_free[x] ELSE next_free[a]]
      /\ prev_free' = [a \in F |-> IF a = next_free[x] THEN prev_free[x] ELSE prev_free[a]]
  BY DEF UnlinkFree
<1>6. \A a \in F : (next_free[a] = x <=> a = prev_free[x]) /\ (prev_free[a] = x <=> a = next_free[x])
  BY <1>3
<1>7. \A a \in F : next_free'[a] \in F /\ prev_free'[a] \in F
  BY <1>2, <1>4, <1>5, <1>6
<1>8. FreeChainLinked'
  <2>1. \A a \in F : prev_free'[next_free'[a]] = a /\ next_free'[prev_free'[a]] = a
    BY <1>2, <1>3, <1>4, <1>5, <1>6, <1>7
  <2>2. \A a \in F : heap'[next_free'[a]] = heap'[a] /\ heap'[prev_free'[a]] = heap'[a]
    BY <1>2, <1>3, <1>5, <1>7
  <2>3. QED
    BY <2>1, <2>2 DEF FreeChainLinked
<1>9. SearchOrder'
  <2> DEFINE q == [a \in F |-> r[a]]
  <2>1. q \in [OnFreeChain' -> Nat]
    BY <1>1
  <2>2. Heads \subseteq F /\ \A h \in Heap : Head(h) \in F
    BY HeadFacts DEF OnFreeChain, Chained
  <2>3. \A a \in F : r[a] \in Nat /\ r[next_free[a]] \in Nat
    BY <1>1, <1>2
  <2>4. \A a \in Heads : q[a] = 0
    BY <1>1, <2>2 DEF FreeOrder
  <2>5. \A a \in F \ Heads : q[a] > 0 /\ q[next_free'[a]] < q[a]
    <3>1. r[next_free[x]] < r[x] /\ r[x] \in Nat /\ r[next_free[x]] \in Nat
      BY <1>1, <1>2 DEF FreeOrder
    <3>2. \A a \in F \ Heads : r[a] > 0 /\ r[next_free[a]] < r[a]
      BY <1>1 DEF FreeOrder
    <3>3. \A a \in F \ Heads : r[next_free'[a]] < r[a]
      BY <3>1, <3>2, <2>3, <1>5, <1>6
    <3>4. QED
      BY <3>2, <3>3, <1>7
  <2>6. \A a, b \in F \ Heads :
          heap[a] = heap[b] => /\ q[b] < q[a] => q[b] <= q[next_free'[a]]
                               /\ q[a] = q[b] => a = b
    <3>1. ASSUME NEW a \in F \ Heads, NEW b \in F \ Heads, heap[a] = heap[b], r[b] < r[a]
          PROVE  r[b] <= r[next_free'[a]]
      <4>1. r[b] <= r[next_free[a]]
        BY <3>1, <1>1 DEF FreeOrder
      <4>2. CASE a = prev_free[x]
        <5>1. next_free[a] = x /\ heap[x] = heap[b]
          BY <4>2, <1>3, <3>1
        <5>2. r[b] # r[x]
          BY <5>1, <1>1 DEF FreeOrder
        <5>3. r[b] < r[x]
          BY <5>1, <5>2, <4>1, <1>1, <2>3
        <5>4. r[b] <= r[next_free[x]]
          BY <5>1, <5>3, <1>1 DEF FreeOrder
        <5>5. QED
          BY <5>4, <4>2, <1>5
      <4>3. CASE a # prev_free[x]
        BY <4>1, <4>3, <1>5
      <4>4. QED
        BY <4>2, <4>3
    <3>2. \A a, b \in F \ Heads : heap[a] = heap[b] /\ r[a] = r[b] => a = b
      BY <1>1 DEF FreeOrder
    <3>3. QED
      BY <3>1, <3>2, <1>7
  <2>7. \A a \in F \ Heads : q[a] <= q[next_free'[Head(heap[a])]]
    <3> SUFFICES ASSUME NEW a \in F \ Heads PROVE r[a] <= r[next_free'[Head(heap[a])]]
      <4>1. \A a \in F \ Heads : Head(heap[a]) \in F
        BY ArenaFacts, <2>2 DEF OnFreeChain
      <4>2. QED
        BY <4>1, <1>7
    <3> DEFINE hd == Head(heap[a])
    <3>1. hd \in F /\ r[a] <= r[next_free[hd]] /\ heap[hd] = heap[a]
      <4>1. heap[a] \in Heap
        BY ArenaFacts DEF OnFreeChain
      <4>2. heap[hd] = heap[a]
        BY <4>1 DEF IInv, ArenaInv, ChainLinked
      <4>3. QED
        BY <4>1, <4>2, <2>2, <1>1 DEF FreeOrder
    <3>2. CASE hd = prev_free[x]
      <4>1. next_free[hd] = x /\ heap[x] = heap[a]
        BY <3>1, <3>2, <1>3
      <4>2. r[a] # r[x]
        BY <4>1, <1>1 DEF FreeOrder
      <4>3. r[a] < r[x]
        BY <3>1, <4>1, <4>2, <1>1, <2>3
      <4>4. r[a] <= r[next_free[x]]
        BY <4>1, <4>3, <1>1 DEF FreeOrder
      <4>5. QED
        BY <4>4, <3>1, <3>2, <1>5
    <3>3. CASE hd # prev_free[x]
      BY <3>1, <3>3, <1>5
    <3>4. QED
      BY <3>2, <3>3
  <2>8. FreeOrder(q)'
    <3>1. \A a \in F \ Heads : Head(heap'[a]) = Head(heap[a])
      OBVIOUS
    <3>2. QED
      BY <2>4, <2>5, <2>6, <2>7, <3>1 DEF FreeOrder
  <2>9. PassedTooSmall(q)'
    BY DEF PassedTooSmall
  <2>10. QED
    BY <2>1, <2>8, <2>9 DEF SearchOrder
<1>10. QED
  BY <1>5, <1>7, <1>8, <1>9

\* Merging a block with its successor leaves the heaps tiled and chained.
LEMMA MergeIntoOK ==
  ASSUME IInv, NEW b \in live, NEW c \in live, next[b] = c, MergeInto(b, c)
  PROVE  /\ Chained' = Chained \ {c}
         /\ live' = live \ {c} /\ b # c /\ b \in live'
         /\ live' \in SUBSET UNION {Units(h) : h \in Heap}
         /\ next' \in [Chained' -> Chained'] /\ prev' \in [Chained' -> Chained']
         /\ size' \in [Chained' -> Nat] /\ type' \in [Chained' -> Types]
         /\ heap' \in [Chained' -> Heap] /\ tag' \in [Chained' -> Tags]
         /\ BlocksFit' /\ Tiles' /\ ChainLinked'
<1> DEFINE D == Chained \ {c}
<1>1. /\ b \in Nat /\ c \in Nat /\ size[b] \in Nat /\ size[c] \in Nat
      /\ c = b + size[b] /\ heap[c] = heap[b] /\ heap[b] \in Heap
      /\ b \in Chained /\ c \in Chained /\ next[c] \in Chained /\ b \notin Heads /\ c \notin Heads
  BY ArenaFacts
<1>2. size[b] >= 2 /\ size[c] >= 2 /\ c + size[c] <= End[heap[b]]
  BY <1>1 DEF IInv, ArenaInv, BlocksFit
<1>3. b # c /\ next[c] # c /\ next[c] # b
  <2>1. next[c] \in live => next[c] = c + size[c]
    BY ArenaFacts
  <2>2. QED
    BY <2>1, <1>1, <1>2
<1>4. /\ live' = live \ {c} /\ Chained' = D
      /\ size' = [a \in D |-> IF a = b THEN size[b] + size[c] ELSE size[a]]
      /\ next' = [a \in D |-> IF a = b THEN next[c] ELSE next[a]]
      /\ prev' = [a \in D |-> IF a = next[c] THEN b ELSE prev[a]]
      /\ type' = [a \in D |-> type[a]]
      /\ heap' = [a \in D |-> heap[a]]
      /\ tag' = [a \in D |-> tag[a]]
  BY <1>1 DEF MergeInto, Chained
<1>5. /\ next \in [Chained -> Chained] /\ prev \in [Chained -> Chained]
      /\ size \in [Chained -> Nat] /\ type \in [Chained -> Types]
      /\ heap \in [Chained -> Heap] /\ tag \in [Chained -> Tags]
  BY DEF IInv, TypeOK
<1>6. \A a \in Chained : prev[next[a]] = a /\ next[prev[a]] = a
  BY DEF IInv, ArenaInv, ChainLinked
<1>7. \A a \in D : (next[a] = c <=> a = b) /\ (prev[a] = c <=> a = next[c])
  BY <1>1, <1>3, <1>6
<1>8. next' \in [D -> D] /\ prev' \in [D -> D]
  BY <1>1, <1>3, <1>4, <1>5, <1>7
<1>9. /\ size' \in [D -> Nat] /\ type' \in [D -> Types]
      /\ heap' \in [D -> Heap] /\ tag' \in [D -> Tags]
  <2>1. \A a \in D : a \in Chained
    OBVIOUS
  <2>2. size' \in [D -> Nat]
    <3>1. size[b] + size[c] \in Nat /\ \A a \in D : size[a] \in Nat
      BY <2>1, <1>1, <1>5
    <3>2. QED
      BY <3>1, <1>4
  <2>3. type' \in [D -> Types]
    BY <2>1, <1>4, <1>5
  <2>4. heap' \in [D -> Heap]
    BY <2>1, <1>4, <1>5
  <2>5. tag' \in [D -> Tags]
    BY <2>1, <1>4, <1>5
  <2>6. QED
    BY <2>2, <2>3, <2>4, <2>5
<1>10. BlocksFit'
  <2>1. \A a \in live : /\ a \in Units(heap[a]) /\ size[a] >= 2 /\ a + size[a] <= End[heap[a]]
                        /\ type[a] \in {"used", "free"}
                        /\ (type[a] = "free") <=> (tag[a] = "FREE")
    BY DEF IInv, ArenaInv, BlocksFit
  <2>2. \A a \in live' : a \in D /\ a \in live
    BY <1>4 DEF Chained
  <2>3. \A a \in live' : /\ a \in Units(heap'[a]) /\ size'[a] >= 2
                         /\ a + size'[a] <= End[heap'[a]]
    <3>1. b \in D /\ size'[b] = size[b] + size[c] /\ b + (size[b] + size[c]) <= End[heap[b]]
      BY <1>1, <1>2, <1>3, <1>4
    <3>2. QED
      BY <2>1, <2>2, <3>1, <1>1, <1>2, <1>4
  <2>4. \A a \in live' : /\ type'[a] \in {"used", "free"}
                         /\ (type'[a] = "free") <=> (tag'[a] = "FREE")
    BY <2>1, <2>2, <1>4
  <2>5. QED
    BY <2>3, <2>4 DEF BlocksFit
<1>11. Tiles'
  <2>1. \A h \in Heap : Base[h] \in live /\ next[Head(h)] = Base[h] /\ Head(h) \in D
                        /\ Head(h) # b
    BY <1>1, ArenaFacts, HeadFacts DEF IInv, ArenaInv, Tiles
  <2>2. \A h \in Heap : Base[h] # c
    <3>1. \A h \in Heap : next[Head(h)] # next[b]
      BY <2>1, <1>1, <1>6
    <3>2. QED
      BY <2>1, <3>1
  <2>3. \A h \in Heap : Base[h] \in live' /\ next'[Head(h)] = Base[h]
    BY <2>1, <2>2, <1>4
  <2>4. ASSUME NEW a \in live'
        PROVE  \/ a + size'[a] = End[heap'[a]] /\ next'[a] = Head(heap'[a])
               \/ a + size'[a] \in live' /\ next'[a] = a + size'[a] /\ heap'[next'[a]] = heap'[a]
    <3>1. a \in live /\ a \in D /\ a # c
      BY <1>4, <2>4 DEF Chained
    <3>2. \A x \in live : \/ x + size[x] = End[heap[x]] /\ next[x] = Head(heap[x])
                          \/ x + size[x] \in live /\ next[x] = x + size[x] /\ heap[next[x]] = heap[x]
      BY DEF IInv, ArenaInv, Tiles
    <3>3. CASE a = b
      <4>1. a + size'[a] = c + size[c] /\ next'[a] = next[c] /\ heap'[a] = heap[c]
        BY <3>1, <3>3, <1>1, <1>4
      <4>2. next[c] \in live => next[c] \in live' /\ heap'[next[c]] = heap[next[c]]
        BY <1>1, <1>3, <1>4
      <4>3. QED
        BY <4>1, <4>2, <3>2
    <3>4. CASE a # b
      <4>1. a + size'[a] = a + size[a] /\ next'[a] = next[a] /\ heap'[a] = heap[a] /\ next[a] # c
        BY <3>1, <3>4, <1>4, <1>7
      <4>2. next[a] \in live => next[a] \in live' /\ heap'[next[a]] = heap[next[a]]
        BY <4>1, <1>4, <1>1 DEF Chained
      <4>3. QED
        BY <4>1, <4>2, <3>1, <3>2
    <3>5. QED
      BY <3>3, <3>4
  <2>5. ASSUME NEW x \in live', NEW y \in live', x < y
        PROVE  x + size'[x] <= y
    <3>1. x \in live /\ y \in live /\ x # c /\ y # c /\ x \in Nat /\ y \in Nat
          /\ size[x] \in Nat /\ x \in D
      BY <1>4, ArenaFacts DEF Chained
    <3>2. x + size[x] <= y
      BY <2>5, <3>1, NoOverlap
    <3>3. CASE x = b
      <4>1. c < y
        BY <3>1, <3>2, <3>3, <1>1
      <4>2. c + size[c] <= y
        BY <4>1, <3>1, NoOverlap
      <4>3. QED
        BY <4>2, <3>1, <3>3, <1>1, <1>4
    <3>4. CASE x # b
      BY <3>1, <3>2, <3>4, <1>4
    <3>5. QED
      BY <3>3, <3>4
  <2>6. QED
    BY <2>3, <2>4, <2>5 DEF Tiles
<1>12. ChainLinked'
  <2>1. \A h \in Heap : heap'[Head(h)] = h /\ type'[Head(h)] = "head"
    <3>1. \A h \in Heap : Head(h) \in D /\ heap[Head(h)] = h /\ type[Head(h)] = "head"
      BY <1>1, ArenaFacts, HeadFacts DEF IInv, ArenaInv, ChainLinked
    <3>2. QED
      BY <3>1, <1>4
  <2>2. \A a \in D : prev'[next'[a]] = a /\ next'[prev'[a]] = a
    BY <1>1, <1>3, <1>4, <1>6, <1>7, <1>8
  <2>3. QED
    BY <2>1, <2>2, <1>4 DEF ChainLinked
<1>13. live' \in SUBSET UNION {Units(h) : h \in Heap}
  BY <1>4 DEF IInv, TypeOK
<1>14. b \in live'
  BY <1>3, <1>4
<1>15. Chained' = D /\ live' = live \ {c}
  BY <1>4
<1> HIDE DEF D
<1>16. QED
  BY <1>3, <1>8, <1>9, <1>10, <1>11, <1>12, <1>13, <1>14, <1>15, Zenon DEF D

-----------------------------------------------------------------------------
(* Allocation *)

\* Allocating a whole block keeps the invariant.
LEMMA TakeWholeInv ==
  ASSUME IInv, TakeWhole
  PROVE  IInv'
<1>1. /\ fp \in OnFreeChain \ Heads /\ fp \in live /\ type[fp] = "free"
      /\ req.tag \in {"CORE", "MODULE"}
  BY ArenaFacts DEF IInv, CursorInv, TakeWhole, OnFreeChain
<1>2. /\ type' = [type EXCEPT ![fp] = "used"] /\ tag' = [tag EXCEPT ![fp] = req.tag]
      /\ UNCHANGED <<next, prev, size, heap, live>> /\ UnlinkFree(fp)
      /\ pc' = "idle" /\ fp' = Head(0) /\ req' = NoReq /\ ret' = "idle"
  BY DEF TakeWhole, BackToCaller
<1>3. /\ type \in [Chained -> Types] /\ tag \in [Chained -> Tags] /\ fp \in Chained
  BY <1>1 DEF IInv, TypeOK, Chained
<1>4. Chained' = Chained /\ OnFreeChain' = OnFreeChain \ {fp}
  BY <1>1, <1>2, <1>3 DEF Chained, OnFreeChain
<1>5. /\ next_free' \in [OnFreeChain' -> OnFreeChain']
      /\ prev_free' \in [OnFreeChain' -> OnFreeChain']
      /\ FreeChainLinked' /\ SearchOrder'
  BY <1>1, <1>2, <1>4, UnlinkFreeOK
<1>6. TypeOK'
  <2>1. type' \in [Chained' -> Types] /\ tag' \in [Chained' -> Tags]
    BY <1>1, <1>2, <1>3, <1>4 DEF Types, Tags
  <2>2. fp' \in Chained' /\ req' \in [heap : Heap, size : Nat, tag : Tags]
    BY <1>2, <1>4, HeadFacts, HeapAssumption DEF NoReq, Tags, Chained, Heap
  <2>3. QED
    BY <1>2, <1>4, <1>5, <2>1, <2>2 DEF IInv, TypeOK
<1>7. BlocksFit'
  <2>1. \A b \in live : /\ b \in Units(heap[b]) /\ size[b] >= 2 /\ b + size[b] <= End[heap[b]]
    BY DEF IInv, ArenaInv, BlocksFit
  <2>2. \A b \in live : /\ type'[b] \in {"used", "free"}
                        /\ (type'[b] = "free") <=> (tag'[b] = "FREE")
    BY <1>1, <1>2, <1>3 DEF IInv, ArenaInv, BlocksFit, Chained
  <2>3. QED
    BY <2>1, <2>2, <1>2 DEF BlocksFit
<1>8. Tiles' /\ ChainLinked'
  BY <1>1, <1>2, <1>3, <1>4, ArenaFacts DEF IInv, ArenaInv, Tiles, ChainLinked
<1>9. Coalesced'
  <2>1. \A b \in live : ~ (type[b] = "free" /\ type[next[b]] = "free")
    BY DEF IInv, Coalesced, TakeWhole
  <2>2. \A b \in Chained : type'[b] = "free" => type[b] = "free"
    BY <1>2, <1>3
  <2>3. QED
    BY <2>1, <2>2, <1>2, ArenaFacts DEF Coalesced
<1>10. QED
  BY <1>2, <1>5, <1>6, <1>7, <1>8, <1>9 DEF IInv, ArenaInv, CursorInv, SweepMissesNothing

\* Splitting a free block keeps the invariant: the first part is used, the
\* rest takes its place on the free chain.
LEMMA SplitInv ==
  ASSUME IInv, Split
  PROVE  IInv'
<1> DEFINE nfp == fp + req.size
           D == Chained \cup {nfp}
           F == (OnFreeChain \ {fp}) \cup {nfp}
<1>1. /\ fp \in OnFreeChain \ Heads /\ fp \in live /\ fp \in Chained
      /\ type[fp] = "free" /\ heap[fp] = req.heap
      /\ req.size \in Nat /\ req.size >= 2 /\ size[fp] >= req.size + 2
      /\ fp \in Nat /\ size[fp] \in Nat /\ heap[fp] \in Heap
      /\ req.tag \in {"CORE", "MODULE"} /\ fp \in Units(heap[fp])
      /\ fp + size[fp] <= End[heap[fp]] /\ next[fp] \in Chained
  <2>1. fp \in OnFreeChain /\ heap[fp] = req.heap /\ req.size >= 2 /\ req.tag \in {"CORE", "MODULE"}
        /\ req.size \in Nat /\ size[fp] >= req.size + 2
    BY DEF IInv, CursorInv, Split, TypeOK, HasRoomForSplit
  <2>2. fp \notin Heads
    BY <2>1, ArenaFacts DEF Split, OnFreeChain
  <2>3. QED
    BY <2>1, <2>2, ArenaFacts DEF OnFreeChain, IInv, ArenaInv, BlocksFit
<1>2. /\ nfp \in Nat /\ nfp > fp /\ nfp < fp + size[fp] /\ nfp \in Units(heap[fp])
      /\ nfp \notin Chained /\ nfp \notin Heads /\ nfp # fp /\ nfp \notin live
  <2>1. nfp \in Nat /\ nfp > fp /\ nfp < fp + size[fp]
    BY <1>1
  <2>2. nfp \in Units(heap[fp])
    BY <2>1, <1>1, UnitFacts
  <2>3. nfp \notin live
    <3>1. nfp \in live => fp + size[fp] <= nfp
      BY <1>1, <2>1, NoOverlap
    <3>2. QED
      BY <3>1, <2>1, <1>1
  <2>4. QED
    BY <2>1, <2>2, <2>3, HeadFacts DEF Chained
<1>3. /\ live' = live \cup {nfp}
      /\ size' = [a \in D |-> IF a = nfp THEN size[fp] - req.size
                              ELSE IF a = fp THEN req.size ELSE size[a]]
      /\ type' = [a \in D |-> IF a = nfp THEN "free" ELSE IF a = fp THEN "used" ELSE type[a]]
      /\ heap' = [a \in D |-> IF a = nfp THEN heap[fp] ELSE heap[a]]
      /\ tag' = [a \in D |-> IF a = nfp THEN "FREE" ELSE IF a = fp THEN req.tag ELSE tag[a]]
      /\ next' = [a \in D |-> IF a = nfp THEN next[fp] ELSE IF a = fp THEN nfp ELSE next[a]]
      /\ prev' = [a \in D |-> IF a = nfp THEN fp ELSE IF a = next[fp] THEN nfp ELSE prev[a]]
      /\ next_free' = [a \in F |-> IF a = nfp THEN next_free[fp]
                                   ELSE IF a = prev_free[fp] THEN nfp ELSE next_free[a]]
      /\ prev_free' = [a \in F |-> IF a = nfp THEN prev_free[fp]
                                   ELSE IF a = next_free[fp] THEN nfp ELSE prev_free[a]]
      /\ pc' = "idle" /\ fp' = Head(0) /\ req' = NoReq /\ ret' = "idle"
  BY DEF Split, BackToCaller
<1>4. Chained' = D
  BY <1>3 DEF Chained
<1>5. OnFreeChain' = F
  <2>1. \A a \in D : (a \in Heads \/ type'[a] = "free") <=> a \in F
    BY <1>1, <1>2, <1>3 DEF OnFreeChain
  <2>2. F \subseteq D
    BY DEF OnFreeChain
  <2>3. QED
    BY <1>4, <2>1, <2>2 DEF OnFreeChain
<1> HIDE DEF nfp
<1>6. \A a \in Chained : prev[next[a]] = a /\ next[prev[a]] = a /\ next[a] \in Chained /\ prev[a] \in Chained
  BY ArenaFacts DEF IInv, ArenaInv, ChainLinked
<1>7. next[fp] # fp
  <2>1. next[fp] \in live => next[fp] = fp + size[fp]
    BY <1>1, ArenaFacts
  <2>2. QED
    BY <2>1, <1>1
<1>8. TypeOK' /\ SearchOrder' /\ FreeChainLinked'
  <2>1. PICK r \in [OnFreeChain -> Nat] : FreeOrder(r)
    BY DEF IInv, SearchOrder
  <2>2. /\ next_free \in [OnFreeChain -> OnFreeChain] /\ prev_free \in [OnFreeChain -> OnFreeChain]
        /\ nfp \notin OnFreeChain
    BY <1>2 DEF IInv, TypeOK, OnFreeChain
  <2>3. \A a \in OnFreeChain : /\ heap[next_free[a]] = heap[a] /\ heap[prev_free[a]] = heap[a]
                               /\ prev_free[next_free[a]] = a /\ next_free[prev_free[a]] = a
    BY DEF IInv, ArenaInv, FreeChainLinked
  <2>4. next_free[fp] # fp /\ prev_free[fp] # fp
    <3>1. next_free[fp] # fp
      BY <1>1, <2>1, <2>2 DEF FreeOrder
    <3>2. QED
      BY <3>1, <1>1, <2>3
  <2>5. \A a \in OnFreeChain : /\ next_free[a] = fp <=> a = prev_free[fp]
                               /\ prev_free[a] = fp <=> a = next_free[fp]
    BY <1>1, <2>2, <2>3
  <2>6. next_free' \in [F -> F] /\ prev_free' \in [F -> F]
    BY <1>1, <1>3, <2>2, <2>4, <2>5
  <2>7. \A a \in OnFreeChain : a \in D /\ a \in Chained /\ (a # nfp)
    BY <2>2 DEF OnFreeChain
  <2>8. FreeChainLinked'
    <3>1. \A a \in F : prev_free'[next_free'[a]] = a /\ next_free'[prev_free'[a]] = a
      BY <1>1, <1>3, <2>2, <2>3, <2>4, <2>5, <2>6
    <3>2. \A a \in OnFreeChain : heap'[a] = heap[a]
      BY <1>3, <2>7
    <3>3. heap'[nfp] = heap[fp]
      BY <1>3
    <3>4. \A a \in F : heap'[next_free'[a]] = heap'[a] /\ heap'[prev_free'[a]] = heap'[a]
      <4>1. next_free[fp] \in OnFreeChain /\ prev_free[fp] \in OnFreeChain
        BY <1>1, <2>2
      <4>2. ASSUME NEW a \in F, a # nfp
            PROVE  heap'[next_free'[a]] = heap'[a] /\ heap'[prev_free'[a]] = heap'[a]
        <5>1. a \in OnFreeChain /\ next_free[a] \in OnFreeChain /\ prev_free[a] \in OnFreeChain
          BY <2>2, <4>2
        <5>2. next_free'[a] = IF a = prev_free[fp] THEN nfp ELSE next_free[a]
          BY <1>3, <4>2
        <5>3. prev_free'[a] = IF a = next_free[fp] THEN nfp ELSE prev_free[a]
          BY <1>3, <4>2
        <5>4. QED
          BY <1>1, <2>3, <3>2, <3>3, <5>1, <5>2, <5>3
      <4>3. next_free'[nfp] = next_free[fp] /\ prev_free'[nfp] = prev_free[fp]
        BY <1>3
      <4>4. heap'[next_free'[nfp]] = heap'[nfp] /\ heap'[prev_free'[nfp]] = heap'[nfp]
        <5>1. /\ heap'[next_free[fp]] = heap[next_free[fp]]
              /\ heap'[prev_free[fp]] = heap[prev_free[fp]]
          BY <3>2, <4>1
        <5>2. heap[next_free[fp]] = heap[fp] /\ heap[prev_free[fp]] = heap[fp]
          BY <1>1, <2>3
        <5>3. QED
          BY <5>1, <5>2, <4>3, <3>3
      <4>5. QED
        BY <4>2, <4>4
    <3>5. QED
      BY <1>5, <3>1, <3>4 DEF FreeChainLinked
  <2>9. SearchOrder'
    <3> DEFINE old(a) == IF a = nfp THEN fp ELSE a
    <3>1. PICK q \in [F -> Nat] : q = [a \in F |-> r[old(a)]]
      <4>1. [a \in F |-> r[old(a)]] \in [F -> Nat]
        BY <1>1
      <4>2. QED
        BY <4>1
    <3>2. \A a \in F : /\ old(a) \in OnFreeChain /\ q[a] = r[old(a)]
                       /\ heap'[a] = heap[old(a)]
                       /\ old(next_free'[a]) = next_free[old(a)]
                       /\ (a \in Heads <=> old(a) \in Heads)
      <4>1. \A a \in F : old(a) \in OnFreeChain /\ q[a] = r[old(a)] /\ heap'[a] = heap[old(a)]
        BY <1>1, <1>3, <2>7, <3>1
      <4>2. \A a \in F : old(next_free'[a]) = next_free[old(a)]
        BY <1>1, <1>3, <2>2, <2>4, <2>5, <2>7
      <4>3. \A a \in F : (a \in Heads <=> old(a) \in Heads)
        BY <1>1, <1>2
      <4>4. QED
        BY <4>1, <4>2, <4>3
    <3>3. \A a, b \in F : old(a) = old(b) => a = b
      BY <1>1
    <3>4. \A a \in Heads : a \in F /\ q[a] = 0 /\ old(a) = a
      <4>1. \A a \in Heads : a \in OnFreeChain /\ r[a] = 0 /\ a # nfp /\ a # fp
        BY <1>1, <1>2, <2>1 DEF FreeOrder, OnFreeChain, Chained
      <4>2. QED
        BY <4>1, <3>1
    <3>5. \A a \in F \ Heads : Head(heap[old(a)]) \in Heads
      BY <3>2, ArenaFacts, HeadFacts DEF OnFreeChain
    <3> HIDE DEF old
    <3>6. \A a \in F : next_free'[a] \in F /\ q[next_free'[a]] = r[next_free[old(a)]]
      BY <2>6, <3>2
    <3>7. \A a \in F \ Heads : /\ q[a] > 0 /\ q[next_free'[a]] < q[a]
                               /\ q[a] <= q[next_free'[Head(heap'[a])]]
      <4>1. \A a \in F \ Heads : /\ r[old(a)] > 0 /\ r[next_free[old(a)]] < r[old(a)]
                                 /\ r[old(a)] <= r[next_free[Head(heap[old(a)])]]
        BY <2>1, <3>2 DEF FreeOrder
      <4>2. \A a \in F \ Heads : q[next_free'[Head(heap'[a])]] = r[next_free[Head(heap[old(a)])]]
        BY <3>2, <3>4, <3>5, <3>6
      <4>3. QED
        BY <4>1, <4>2, <3>2, <3>6
    <3>8. \A a, b \in F \ Heads :
            heap'[a] = heap'[b] => /\ q[b] < q[a] => q[b] <= q[next_free'[a]]
                                   /\ q[a] = q[b] => a = b
      <4>1. \A a, b \in F \ Heads :
              heap[old(a)] = heap[old(b)] =>
                /\ r[old(b)] < r[old(a)] => r[old(b)] <= r[next_free[old(a)]]
                /\ r[old(a)] = r[old(b)] => old(a) = old(b)
        BY <2>1, <3>2 DEF FreeOrder
      <4>2. QED
        BY <4>1, <3>2, <3>3, <3>6
    <3>9. FreeOrder(q)'
      BY <1>5, <3>4, <3>7, <3>8 DEF FreeOrder
    <3>10. PassedTooSmall(q)'
      BY <1>3 DEF PassedTooSmall
    <3>11. QED
      BY <1>5, <3>1, <3>9, <3>10 DEF SearchOrder
  <2>10. TypeOK'
    <3>1. live' \in SUBSET UNION {Units(h) : h \in Heap}
      BY <1>1, <1>2, <1>3 DEF IInv, TypeOK
    <3>2. /\ next \in [Chained -> Chained] /\ prev \in [Chained -> Chained]
          /\ size \in [Chained -> Nat] /\ type \in [Chained -> Types]
          /\ heap \in [Chained -> Heap] /\ tag \in [Chained -> Tags]
      BY DEF IInv, TypeOK
    <3>3. next' \in [D -> D] /\ prev' \in [D -> D]
      BY <1>1, <1>3, <3>2
    <3>4. size' \in [D -> Nat]
      <4>1. size[fp] - req.size \in Nat
        BY <1>1
      <4>2. QED
        BY <4>1, <1>1, <1>3, <3>2
    <3>5. type' \in [D -> Types] /\ tag' \in [D -> Tags]
      BY <1>1, <1>3, <3>2 DEF Types, Tags
    <3>6. heap' \in [D -> Heap]
      BY <1>1, <1>3, <3>2
    <3>7. fp' \in D /\ req' \in [heap : Heap, size : Nat, tag : Tags]
      BY <1>3, HeadFacts, HeapAssumption DEF NoReq, Tags, Chained, Heap
    <3>8. QED
      BY <1>3, <1>4, <1>5, <2>6, <3>1, <3>3, <3>4, <3>5, <3>6, <3>7 DEF TypeOK
  <2>11. QED
    BY <2>8, <2>9, <2>10
<1>9. BlocksFit'
  <2>1. \A b \in live : /\ b \in Units(heap[b]) /\ size[b] >= 2 /\ b + size[b] <= End[heap[b]]
                        /\ type[b] \in {"used", "free"}
                        /\ (type[b] = "free") <=> (tag[b] = "FREE")
    BY DEF IInv, ArenaInv, BlocksFit
  <2>2. \A b \in live' : b \in D
    BY <1>3 DEF Chained
  <2>3. /\ fp + req.size <= End[heap[fp]] /\ size[fp] - req.size >= 2
        /\ nfp + (size[fp] - req.size) <= End[heap[fp]]
    BY <1>1, UnitFacts DEF nfp
  <2>4. \A b \in live' : b \in Units(heap'[b]) /\ size'[b] >= 2 /\ b + size'[b] <= End[heap'[b]]
    BY <2>1, <2>2, <2>3, <1>1, <1>2, <1>3
  <2>5. \A b \in live' : /\ type'[b] \in {"used", "free"}
                         /\ (type'[b] = "free") <=> (tag'[b] = "FREE")
    BY <2>1, <2>2, <1>1, <1>2, <1>3
  <2>6. QED
    BY <2>4, <2>5 DEF BlocksFit
<1>10. Tiles'
  <2>1. \A h \in Heap : Base[h] \in live' /\ next'[Head(h)] = Base[h]
    BY <1>1, <1>2, <1>3, ArenaFacts, HeadFacts DEF IInv, ArenaInv, Tiles
  <2>2. ASSUME NEW a \in live'
        PROVE  \/ a + size'[a] = End[heap'[a]] /\ next'[a] = Head(heap'[a])
               \/ a + size'[a] \in live' /\ next'[a] = a + size'[a] /\ heap'[next'[a]] = heap'[a]
    <3>1. \A x \in live : \/ x + size[x] = End[heap[x]] /\ next[x] = Head(heap[x])
                          \/ x + size[x] \in live /\ next[x] = x + size[x] /\ heap[next[x]] = heap[x]
      BY DEF IInv, ArenaInv, Tiles
    <3>2. CASE a = nfp
      <4>1. nfp + size'[nfp] = fp + size[fp] /\ next'[nfp] = next[fp] /\ heap'[nfp] = heap[fp]
        BY <1>1, <1>3 DEF nfp
      <4>2. next[fp] \in live => next[fp] \in live' /\ heap'[next[fp]] = heap[next[fp]]
        BY <1>1, <1>2, <1>3 DEF Chained
      <4>3. QED
        BY <3>1, <3>2, <4>1, <4>2, <1>1
    <3>3. CASE a = fp
      <4>1. fp + size'[fp] = nfp /\ next'[fp] = nfp /\ heap'[fp] = heap[fp] /\ heap'[nfp] = heap[fp]
        BY <1>1, <1>2, <1>3 DEF nfp
      <4>2. QED
        BY <4>1, <3>3, <1>3
    <3>4. CASE a # fp /\ a # nfp
      <4>1. a \in live /\ a \in Chained /\ size'[a] = size[a] /\ next'[a] = next[a] /\ heap'[a] = heap[a]
        BY <3>4, <1>3, <2>2 DEF Chained
      <4>2. next[a] \in live => next[a] \in live' /\ heap'[next[a]] = heap[next[a]]
        BY <1>1, <1>2, <1>3 DEF Chained
      <4>3. QED
        BY <4>1, <4>2, <3>1
    <3>5. QED
      BY <3>2, <3>3, <3>4
  <2>3. ASSUME NEW x \in live', NEW y \in live', x < y
        PROVE  x + size'[x] <= y
    <3>1. \A a \in live : a \in Nat /\ size[a] \in Nat /\ a \in D
      BY ArenaFacts
    <3>2. \A a \in live : (a < fp => a + size[a] <= fp) /\ (fp < a => fp + size[fp] <= a)
      BY <1>1, NoOverlap
    <3>3. fp + size'[fp] = nfp /\ nfp + size'[nfp] = fp + size[fp]
      BY <1>1, <1>2, <1>3 DEF nfp
    <3>4. CASE x = nfp
      <4>1. y \in live /\ fp < y
        BY <3>4, <2>3, <1>1, <1>2, <1>3, <3>1
      <4>2. QED
        BY <4>1, <3>2, <3>3, <3>4
    <3>5. CASE x = fp
      <4>1. y = nfp \/ y \in live
        BY <1>3
      <4>2. y \in live => nfp <= y
        <5>1. y \in live => y \in Nat /\ fp + size[fp] <= y
          BY <3>1, <3>2, <3>5, <2>3
        <5>2. nfp \in Nat /\ fp + size[fp] \in Nat /\ nfp < fp + size[fp]
          BY <1>1, <1>2
        <5>3. QED
          BY <5>1, <5>2
      <4>3. y = nfp => nfp <= y
        BY <1>2
      <4>4. QED
        BY <4>1, <4>2, <4>3, <3>3, <3>5
    <3>6. CASE x # fp /\ x # nfp
      <4>1. x \in live /\ size'[x] = size[x]
        BY <3>6, <3>1, <1>3, <2>3
      <4>2. CASE y = nfp
        <5>1. x < fp
          BY <4>1, <4>2, <3>1, <3>2, <3>6, <2>3, <1>1, <1>2
        <5>2. QED
          BY <5>1, <4>1, <4>2, <3>1, <3>2, <1>1, <1>2
      <4>3. CASE y # nfp
        <5>1. y \in live
          BY <4>3, <1>3
        <5>2. x + size[x] <= y
          BY <5>1, <4>1, <2>3, NoOverlap
        <5>3. QED
          BY <5>2, <4>1
      <4>4. QED
        BY <4>2, <4>3
    <3>7. QED
      BY <3>4, <3>5, <3>6
  <2>4. QED
    BY <2>1, <2>2, <2>3 DEF Tiles
<1>11. ChainLinked'
  <2>1. \A h \in Heap : heap'[Head(h)] = h /\ type'[Head(h)] = "head"
    <3>1. \A h \in Heap : Head(h) \in D /\ Head(h) # nfp /\ Head(h) # fp
                          /\ heap[Head(h)] = h /\ type[Head(h)] = "head"
      BY <1>1, <1>2, ArenaFacts, HeadFacts DEF IInv, ArenaInv, ChainLinked
    <3>2. QED
      BY <3>1, <1>3
  <2>2. \A a \in Chained : (next[a] = next[fp] <=> a = fp) /\ (prev[a] = fp <=> a = next[fp])
    BY <1>1, <1>6
  <2>3. \A a \in D : prev'[next'[a]] = a /\ next'[prev'[a]] = a
    BY <1>1, <1>2, <1>3, <1>6, <1>7, <2>2
  <2>4. QED
    BY <1>4, <2>1, <2>3 DEF ChainLinked
<1>12. Coalesced'
  <2>1. \A b \in live : ~ (type[b] = "free" /\ type[next[b]] = "free")
    BY DEF IInv, Coalesced, Split
  <2>2. \A b \in Chained : b \in D /\ b # nfp /\ (type'[b] = "free" => type[b] = "free")
    BY <1>2, <1>3
  <2>3. next'[nfp] = next[fp] /\ \A b \in live : b # fp => next'[b] = next[b]
    BY <1>2, <1>3 DEF Chained
  <2>4. type'[fp] # "free"
    BY <1>1, <1>2, <1>3
  <2>5. \A b \in live' : ~ (type'[b] = "free" /\ type'[next'[b]] = "free")
    BY <2>1, <2>2, <2>3, <2>4, <1>1, <1>3, <1>6 DEF Chained
  <2>6. QED
    BY <2>5 DEF Coalesced
<1>13. QED
  BY <1>3, <1>8, <1>9, <1>10, <1>11, <1>12 DEF IInv, ArenaInv, CursorInv, SweepMissesNothing

-----------------------------------------------------------------------------
(* Freeing *)

\* A freed block becomes the first member of its heap's free chain.
LEMMA AddToFreeChainOK ==
  ASSUME IInv, NEW ah \in Used, AddToFreeChain(ah), pc' # "scan"
  PROVE  /\ OnFreeChain' = OnFreeChain \cup {ah}
         /\ next_free' \in [OnFreeChain' -> OnFreeChain']
         /\ prev_free' \in [OnFreeChain' -> OnFreeChain']
         /\ FreeChainLinked' /\ SearchOrder'
<1> DEFINE F == OnFreeChain \cup {ah}
           hd == Head(heap[ah])
           first == next_free[hd]
<1>1. /\ ah \in live /\ ah \in Chained /\ type[ah] = "used" /\ ah \notin Heads
      /\ heap[ah] \in Heap /\ ah \notin OnFreeChain
  BY ArenaFacts DEF Used, OnFreeChain
<1>2. /\ type' = [type EXCEPT ![ah] = "free"] /\ heap' = heap /\ live' = live
      /\ next_free' = [a \in F |-> IF a = ah THEN first ELSE IF a = hd THEN ah ELSE next_free[a]]
      /\ prev_free' = [a \in F |-> IF a = ah THEN hd ELSE IF a = first THEN ah ELSE prev_free[a]]
  BY DEF AddToFreeChain
<1>3. OnFreeChain' = F
  <2>1. type \in [Chained -> Types]
    BY DEF IInv, TypeOK
  <2>2. QED
    BY <1>1, <1>2, <2>1 DEF OnFreeChain, Chained
<1>4. /\ hd \in OnFreeChain /\ hd \in Heads /\ first \in OnFreeChain /\ heap[hd] = heap[ah]
      /\ next_free \in [OnFreeChain -> OnFreeChain] /\ prev_free \in [OnFreeChain -> OnFreeChain]
  BY <1>1, ArenaFacts, HeadFacts DEF IInv, TypeOK, ArenaInv, ChainLinked
<1>5. \A a \in OnFreeChain : /\ heap[next_free[a]] = heap[a] /\ heap[prev_free[a]] = heap[a]
                             /\ prev_free[next_free[a]] = a /\ next_free[prev_free[a]] = a
  BY DEF IInv, ArenaInv, FreeChainLinked
<1>6. next_free' \in [F -> F] /\ prev_free' \in [F -> F]
  BY <1>1, <1>2, <1>4
<1>7. \A a \in OnFreeChain : (next_free[a] = first <=> a = hd) /\ (prev_free[a] = hd <=> a = first)
  BY <1>4, <1>5
<1>8. FreeChainLinked'
  <2>1. \A a \in F : prev_free'[next_free'[a]] = a /\ next_free'[prev_free'[a]] = a
    BY <1>1, <1>2, <1>4, <1>5, <1>7
  <2>2. \A a \in F : heap'[next_free'[a]] = heap'[a] /\ heap'[prev_free'[a]] = heap'[a]
    BY <1>1, <1>2, <1>4, <1>5
  <2>3. QED
    BY <1>3, <2>1, <2>2 DEF FreeChainLinked
<1>9. SearchOrder'
  <2>1. PICK r \in [OnFreeChain -> Nat] : FreeOrder(r)
    BY DEF IInv, SearchOrder
  <2>2. PICK q \in [F -> Nat] : q = [a \in F |-> IF a = ah THEN r[first] + 1 ELSE r[a]]
    <3>1. [a \in F |-> IF a = ah THEN r[first] + 1 ELSE r[a]] \in [F -> Nat]
      BY <1>1, <1>4
    <3>2. QED
      BY <3>1
  <2>3. q[ah] = r[first] + 1 /\ \A a \in OnFreeChain : q[a] = r[a] /\ r[a] \in Nat
    BY <1>1, <2>2
  <2>4. \A a \in Heads : q[a] = 0
    BY <2>1, <2>3 DEF FreeOrder, OnFreeChain, Chained
  <2>5. \A a \in F \ Heads : a # ah => /\ a \in OnFreeChain \ Heads /\ next_free'[a] = next_free[a]
                                       /\ next_free[a] \in OnFreeChain
    BY <1>2, <1>4
  <2>6. next_free'[ah] = first /\ next_free'[hd] = ah
    BY <1>1, <1>2, <1>4
  <2>7. \A a \in OnFreeChain \ Heads : heap[a] = heap[ah] => r[a] <= r[first]
    BY <2>1 DEF FreeOrder
  <2>8. \A a \in F \ Heads : q[a] > 0 /\ q[next_free'[a]] < q[a]
    <3>1. \A a \in OnFreeChain \ Heads : r[a] > 0 /\ r[next_free[a]] < r[a]
      BY <2>1 DEF FreeOrder
    <3>2. q[ah] > 0 /\ q[first] < q[ah]
      BY <2>3, <1>4
    <3>3. QED
      BY <3>1, <3>2, <2>3, <2>5, <2>6
  <2>9. \A a \in F \ Heads : q[a] <= q[next_free'[Head(heap'[a])]]
    <3>1. ASSUME NEW a \in OnFreeChain \ Heads
          PROVE  q[a] <= q[next_free'[Head(heap[a])]]
      <4>1. CASE heap[a] = heap[ah]
        BY <4>1, <2>3, <2>6, <2>7, <1>4
      <4>2. CASE heap[a] # heap[ah]
        <5>1. heap[a] \in Heap /\ Head(heap[a]) \in OnFreeChain /\ Head(heap[a]) \in Heads
          BY ArenaFacts, HeadFacts DEF OnFreeChain
        <5>2. Head(heap[a]) # hd /\ Head(heap[a]) # ah
          BY <4>2, <5>1, <1>1, HeadFacts
        <5>3. next_free'[Head(heap[a])] = next_free[Head(heap[a])]
          BY <5>1, <5>2, <1>2
        <5>4. r[a] <= r[next_free[Head(heap[a])]]
          BY <2>1 DEF FreeOrder
        <5>5. QED
          BY <5>1, <5>3, <5>4, <2>3, <1>4
      <4>3. QED
        BY <4>1, <4>2
    <3>2. q[ah] <= q[next_free'[Head(heap[ah])]]
      BY <2>6, <2>3, <1>4
    <3>3. QED
      BY <3>1, <3>2, <1>2
  <2>10. \A a, b \in F \ Heads :
           heap'[a] = heap'[b] => /\ q[b] < q[a] => q[b] <= q[next_free'[a]]
                                  /\ q[a] = q[b] => a = b
    <3>1. ASSUME NEW a \in F \ Heads, NEW b \in F \ Heads, heap[a] = heap[b]
          PROVE  /\ q[b] < q[a] => q[b] <= q[next_free'[a]]
                 /\ q[a] = q[b] => a = b
      <4>1. CASE a # ah /\ b # ah
        <5>1. /\ r[b] < r[a] => r[b] <= r[next_free[a]]
              /\ r[a] = r[b] => a = b
          BY <3>1, <4>1, <2>1, <2>5 DEF FreeOrder
        <5>2. QED
          BY <5>1, <4>1, <2>3, <2>5
      <4>2. CASE a = ah /\ b # ah
        BY <3>1, <4>2, <2>3, <2>5, <2>6, <2>7, <1>4
      <4>3. CASE a # ah /\ b = ah
        BY <3>1, <4>3, <2>3, <2>5, <2>6, <2>7, <1>4
      <4>4. CASE a = ah /\ b = ah
        BY <4>4, <2>3, <1>4
      <4>5. QED
        BY <4>1, <4>2, <4>3, <4>4
    <3>2. QED
      BY <3>1, <1>2
  <2>11. FreeOrder(q)'
    BY <1>3, <2>4, <2>8, <2>9, <2>10 DEF FreeOrder
  <2>12. PassedTooSmall(q)'
    BY DEF PassedTooSmall
  <2>13. QED
    BY <1>3, <2>11, <2>12 DEF SearchOrder
<1>10. QED
  BY <1>3, <1>6, <1>8, <1>9

\* The first half of __free_block keeps the invariant, called from free() or
\* from the sweep.
LEMMA FreeBlockInv ==
  ASSUME IInv, NEW ah \in Used, NEW caller \in {"idle", "sweep"}, FreeBlock(ah, caller),
         pc \in {"idle", "sweep"}, caller = "sweep" => pc = "sweep" /\ ah = fp
  PROVE  IInv'
<1>1. pc' = "merge" /\ ret' = caller /\ req' = req
  BY DEF FreeBlock
<1>2. /\ ah \in live /\ ah \in Nat /\ ah \in Chained /\ type[ah] = "used" /\ ah \notin Heads
      /\ prev[ah] \in Chained /\ next[prev[ah]] = ah /\ heap[prev[ah]] = heap[ah]
      /\ ah \notin OnFreeChain /\ req \in [heap : Heap, size : Nat, tag : Tags]
  BY ArenaFacts DEF Used, IInv, TypeOK, ArenaInv, ChainLinked, OnFreeChain
<1>3. caller = "sweep" => /\ heap[ah] = req.heap /\ fp \notin Heads
                          /\ \A b \in Used : tag[b] = "MODULE" => AheadOfSweep(b)
  BY <1>2 DEF IInv, CursorInv, SweepMissesNothing
<1>4. \A b \in live : ~ (type[b] = "free" /\ type[next[b]] = "free")
  BY DEF IInv, Coalesced
<1>5. CASE CoalescePrev(ah)
  <2> DEFINE pah == prev[ah]
  <2>1. /\ type[pah] = "free" /\ MergeInto(pah, ah) /\ fp' = pah
        /\ next_free' = next_free /\ prev_free' = prev_free
    BY <1>5 DEF CoalescePrev, MergesPrev
  <2>2. pah \in live /\ pah \notin Heads /\ next[pah] = ah /\ pah \in Nat /\ ah = pah + size[pah]
        /\ size[pah] \in Nat
    <3>1. \A a \in Heads : type[a] = "head"
      BY HeadFacts DEF IInv, ArenaInv, ChainLinked
    <3>2. pah \notin Heads
      BY <2>1, <3>1
    <3>3. QED
      BY <3>2, <1>2, ArenaFacts
  <2>3. /\ Chained' = Chained \ {ah}
        /\ live' = live \ {ah} /\ pah # ah /\ pah \in live'
        /\ live' \in SUBSET UNION {Units(h) : h \in Heap}
        /\ next' \in [Chained' -> Chained'] /\ prev' \in [Chained' -> Chained']
        /\ size' \in [Chained' -> Nat] /\ type' \in [Chained' -> Types]
        /\ heap' \in [Chained' -> Heap] /\ tag' \in [Chained' -> Tags]
        /\ BlocksFit' /\ Tiles' /\ ChainLinked'
    BY <1>2, <2>1, <2>2, MergeIntoOK
  <2>4. \A a \in Chained \ {ah} : type'[a] = type[a] /\ heap'[a] = heap[a] /\ tag'[a] = tag[a]
    BY <2>1 DEF MergeInto
  <2>5. OnFreeChain' = OnFreeChain
    BY <1>2, <2>3, <2>4 DEF OnFreeChain
  <2>6. FreeChainLinked'
    <3>1. \A a \in OnFreeChain : heap'[a] = heap[a] /\ next_free[a] \in OnFreeChain
                                 /\ prev_free[a] \in OnFreeChain
      BY <1>2, <2>4 DEF OnFreeChain, IInv, TypeOK
    <3>2. QED
      BY <2>1, <2>5, <3>1 DEF IInv, ArenaInv, FreeChainLinked
  <2>7. SearchOrder'
    <3>1. PICK r \in [OnFreeChain -> Nat] : FreeOrder(r)
      BY DEF IInv, SearchOrder
    <3>2. \A a \in OnFreeChain : heap'[a] = heap[a]
      BY <1>2, <2>4 DEF OnFreeChain
    <3>3. FreeOrder(r)'
      BY <3>1, <3>2, <2>1, <2>5 DEF FreeOrder
    <3>4. PassedTooSmall(r)'
      BY <1>1 DEF PassedTooSmall
    <3>5. QED
      BY <3>1, <3>3, <3>4, <2>5 DEF SearchOrder
  <2>8. TypeOK'
    <3>1. fp' \in Chained'
      BY <2>1, <2>2, <2>3, <1>2
    <3>2. QED
      BY <1>1, <1>2, <2>1, <2>3, <2>5, <3>1 DEF IInv, TypeOK
  <2>9. Coalesced'
    <3>1. \A b \in live' : b # pah => /\ b \in live /\ b # ah /\ next'[b] = next[b]
                                      /\ next[b] # ah /\ next[b] \in Chained
      <4>1. \A b \in Chained \ {ah} : b # pah => next'[b] = next[b]
        BY <2>1 DEF MergeInto
      <4>2. \A b \in live : b # pah => next[b] # ah
        BY <2>2, ArenaFacts DEF IInv, ArenaInv, ChainLinked
      <4>3. QED
        BY <4>1, <4>2, <2>3, ArenaFacts
    <3>2. \A b \in live' : b # pah => ~ (type'[b] = "free" /\ type'[next'[b]] = "free")
      BY <3>1, <2>4, <1>4, ArenaFacts
    <3>3. QED
      BY <3>2, <1>1, <2>1 DEF Coalesced
  <2>10. CursorInv'
    <3>1. pah \in OnFreeChain' /\ pah \notin Heads
      BY <2>1, <2>2, <2>5, <1>2 DEF OnFreeChain
    <3>2. heap'[pah] = heap[ah]
      BY <2>2, <2>3, <2>4, <1>2
    <3>3. QED
      BY <3>1, <3>2, <1>1, <1>3, <2>1 DEF CursorInv
  <2>11. SweepMissesNothing'
    <3>1. ASSUME caller = "sweep", NEW b \in Used', tag'[b] = "MODULE"
          PROVE  AheadOfSweep(b)'
      <4>1. b \in live /\ b # ah /\ b \in Chained /\ b \in Nat
        BY <2>3, ArenaFacts DEF Used
      <4>2. b \in Used /\ tag[b] = "MODULE" /\ heap'[b] = heap[b]
        BY <4>1, <3>1, <2>4 DEF Used
      <4>3. AheadOfSweep(b)
        BY <4>2, <3>1, <1>3
      <4>4. b >= fp => b >= pah
        BY <4>1, <2>2, <3>1
      <4>5. QED
        BY <4>2, <4>3, <4>4, <2>1, <2>2, <1>1 DEF AheadOfSweep
    <3>2. QED
      BY <3>1, <1>1 DEF SweepMissesNothing
  <2>12. QED
    BY <2>3, <2>6, <2>7, <2>8, <2>9, <2>10, <2>11 DEF IInv, ArenaInv
<1>6. CASE AddToFreeChain(ah)
  <2>1. /\ OnFreeChain' = OnFreeChain \cup {ah}
        /\ next_free' \in [OnFreeChain' -> OnFreeChain']
        /\ prev_free' \in [OnFreeChain' -> OnFreeChain']
        /\ FreeChainLinked' /\ SearchOrder'
    BY <1>1, <1>6, AddToFreeChainOK
  <2>2. /\ type' = [type EXCEPT ![ah] = "free"] /\ tag' = [tag EXCEPT ![ah] = "FREE"]
        /\ UNCHANGED <<next, prev, size, heap, live>> /\ fp' = ah
    BY <1>6 DEF AddToFreeChain
  <2>3. Chained' = Chained /\ type \in [Chained -> Types] /\ tag \in [Chained -> Tags]
    BY <2>2 DEF Chained, IInv, TypeOK
  <2>4. TypeOK'
    <3>1. type' \in [Chained' -> Types] /\ tag' \in [Chained' -> Tags]
      BY <2>2, <2>3 DEF Types, Tags
    <3>2. QED
      BY <1>1, <1>2, <2>1, <2>2, <2>3, <3>1 DEF IInv, TypeOK
  <2>5. BlocksFit'
    <3>1. \A b \in live : b \in Units(heap[b]) /\ size[b] >= 2 /\ b + size[b] <= End[heap[b]]
      BY DEF IInv, ArenaInv, BlocksFit
    <3>2. \A b \in live : /\ type'[b] \in {"used", "free"}
                          /\ (type'[b] = "free") <=> (tag'[b] = "FREE")
      BY <2>2, <2>3 DEF IInv, ArenaInv, BlocksFit, Chained
    <3>3. QED
      BY <3>1, <3>2, <2>2 DEF BlocksFit
  <2>6. Tiles' /\ ChainLinked'
    BY <1>2, <2>2, <2>3, ArenaFacts, HeadFacts DEF IInv, ArenaInv, Tiles, ChainLinked
  <2>7. Coalesced'
    <3>1. type[prev[ah]] # "free"
      <4>1. prev[ah] \in live => prev[ah] + size[prev[ah]] = ah
        BY <1>2, ArenaFacts
      <4>2. \A a \in Heads : type[a] = "head"
        BY HeadFacts DEF IInv, ArenaInv, ChainLinked
      <4>3. QED
        BY <4>1, <4>2, <1>2, <1>6 DEF AddToFreeChain, MergesPrev, Adjoins, Chained
    <3>2. \A b \in live : next[b] = ah => b = prev[ah]
      BY ArenaFacts DEF IInv, ArenaInv, ChainLinked
    <3>3. \A b \in live : b # ah => ~ (type'[b] = "free" /\ type'[next[b]] = "free")
      <4>1. \A a \in Chained : a # ah => type'[a] = type[a]
        BY <2>2, <2>3
      <4>2. QED
        BY <3>1, <3>2, <4>1, <1>4, ArenaFacts
    <3>4. QED
      BY <3>3, <1>1, <2>2 DEF Coalesced
  <2>8. CursorInv'
    BY <1>1, <1>2, <1>3, <2>1, <2>2 DEF CursorInv
  <2>9. SweepMissesNothing'
    <3>1. ASSUME caller = "sweep", NEW b \in Used', tag'[b] = "MODULE"
          PROVE  AheadOfSweep(b)'
      <4>1. b \in Used /\ tag[b] = "MODULE"
        BY <3>1, <2>2, <2>3 DEF Used, Chained
      <4>2. AheadOfSweep(b)
        BY <4>1, <3>1, <1>3
      <4>3. QED
        BY <4>2, <3>1, <1>1, <2>2 DEF AheadOfSweep
    <3>2. QED
      BY <3>1, <1>1 DEF SweepMissesNothing
  <2>10. QED
    BY <2>1, <2>4, <2>5, <2>6, <2>7, <2>8, <2>9 DEF IInv, ArenaInv
<1>7. QED
  BY <1>5, <1>6 DEF FreeBlock

\* The second half of __free_block keeps the invariant.
LEMMA MergeStepInv ==
  ASSUME IInv, CoalesceNext \/ KeepNext
  PROVE  IInv'
<1> DEFINE nah == next[fp]
<1>1. /\ pc = "merge" /\ fp \in OnFreeChain \ Heads /\ fp \in live /\ type[fp] = "free"
      /\ fp \in Nat /\ nah \in Chained /\ heap[nah] = heap[fp]
      /\ ret \in {"idle", "sweep"} /\ 0 \in Heap
  <2>1. 0 \in Heap
    BY HeapAssumption DEF Heap
  <2>2. pc = "merge" /\ fp \in OnFreeChain \ Heads /\ ret \in {"idle", "sweep"}
    BY DEF CoalesceNext, KeepNext, IInv, CursorInv, TypeOK
  <2>3. QED
    BY <2>1, <2>2, ArenaFacts DEF OnFreeChain
<1>2. ret = "sweep" => /\ heap[fp] = req.heap
                       /\ \A b \in Used : tag[b] = "MODULE" => AheadOfSweep(b)
  BY <1>1 DEF IInv, CursorInv, SweepMissesNothing
<1>3. \A b \in live : type[b] = "free" /\ type[next[b]] = "free" => b = fp
  BY DEF IInv, Coalesced
<1>4. Head(0) \in Chained /\ NoReq \in [heap : Heap, size : Nat, tag : Tags]
  BY <1>1, ArenaFacts DEF NoReq, Tags
<1>5. CASE KeepNext
  <2>1. UNCHANGED <<links, attrs, live>> /\ Return(nah) /\ ~ MergesNext
    BY <1>5 DEF KeepNext
  <2>2. ArenaInv' /\ Chained' = Chained /\ OnFreeChain' = OnFreeChain /\ Used' = Used
    BY <2>1, QuietStep
  <2>3. pc' = ret /\ pc' # "scan" /\ pc' # "merge"
    BY <1>1, <2>1 DEF Return, BackToCaller
  <2>4. SearchOrder'
    BY <2>1, <2>3, QuietOrder
  <2>5. TypeOK'
    BY <1>1, <1>4, <2>1, <2>2 DEF IInv, TypeOK, Return, BackToCaller, links, attrs
  <2>6. Coalesced'
    <3>1. type[nah] # "free"
      <4>1. nah \in live => nah = fp + size[fp]
        BY <1>1, ArenaFacts
      <4>2. \A a \in Heads : type[a] = "head"
        BY HeadFacts DEF IInv, ArenaInv, ChainLinked
      <4>3. QED
        BY <4>1, <4>2, <1>1, <2>1 DEF MergesNext, Adjoins, Chained
    <3>2. QED
      BY <3>1, <1>3, <2>1 DEF Coalesced, links, attrs
  <2>7. CursorInv'
    BY <1>1, <1>2, <2>1, <2>2, <2>3 DEF CursorInv, Return, attrs
  <2>8. SweepMissesNothing'
    <3>1. ASSUME ret = "sweep", NEW b \in Used, tag[b] = "MODULE"
          PROVE  AheadOfSweep(b)'
      <4>1. AheadOfSweep(b) /\ b \in live /\ b # fp /\ b \in Nat
        BY <1>1, <1>2, <3>1, ArenaFacts DEF Used
      <4>2. fp' = nah /\ req' = req /\ heap' = heap
        BY <3>1, <2>1 DEF Return, attrs
      <4>3. CASE heap[b] = req.heap
        <5>1. b > fp
          <6>1. heap[b] \in Int
            BY <4>1, ArenaFacts, HeadFacts
          <6>2. QED
            BY <6>1, <4>1, <4>3, <1>1 DEF AheadOfSweep
        <5>2. nah \in live /\ b >= nah
          BY <5>1, <4>1, <4>3, <1>1, <1>2, <3>1, SuccessorIsNext
        <5>3. QED
          BY <5>2, <4>2, <4>3, ArenaFacts DEF AheadOfSweep
      <4>4. CASE heap[b] # req.heap
        BY <4>1, <4>2, <4>4 DEF AheadOfSweep
      <4>5. QED
        BY <4>3, <4>4
    <3>2. QED
      BY <3>1, <2>1, <2>2, <2>3 DEF SweepMissesNothing, attrs
  <2>9. QED
    BY <2>2, <2>4, <2>5, <2>6, <2>7, <2>8 DEF IInv
<1>6. CASE CoalesceNext
  <2>1. MergeInto(fp, nah) /\ UnlinkFree(nah) /\ Return(next[nah]) /\ type[nah] = "free"
    BY <1>6 DEF CoalesceNext, MergesNext
  <2>2. nah \in live /\ nah \notin Heads /\ nah \in Nat
    <3>1. \A a \in Heads : type[a] = "head"
      BY HeadFacts DEF IInv, ArenaInv, ChainLinked
    <3>2. QED
      BY <3>1, <2>1, <1>1, ArenaFacts
  <2>3. /\ Chained' = Chained \ {nah}
        /\ live' = live \ {nah} /\ fp # nah /\ fp \in live'
        /\ live' \in SUBSET UNION {Units(h) : h \in Heap}
        /\ next' \in [Chained' -> Chained'] /\ prev' \in [Chained' -> Chained']
        /\ size' \in [Chained' -> Nat] /\ type' \in [Chained' -> Types]
        /\ heap' \in [Chained' -> Heap] /\ tag' \in [Chained' -> Tags]
        /\ BlocksFit' /\ Tiles' /\ ChainLinked'
    BY <1>1, <2>1, <2>2, MergeIntoOK
  <2>4. /\ \A a \in Chained \ {nah} : type'[a] = type[a] /\ heap'[a] = heap[a] /\ tag'[a] = tag[a]
        /\ \A a \in Chained \ {nah} : next'[a] = IF a = fp THEN next[nah] ELSE next[a]
    BY <2>1 DEF MergeInto
  <2>5. pc' = ret /\ pc' # "scan" /\ pc' # "merge"
    BY <1>1, <2>1 DEF Return, BackToCaller
  <2>6. OnFreeChain' = OnFreeChain \ {nah} /\ nah \in OnFreeChain \ Heads
    BY <2>1, <2>2, <2>3, <2>4 DEF OnFreeChain, Chained
  <2>7. /\ next_free' \in [OnFreeChain' -> OnFreeChain']
        /\ prev_free' \in [OnFreeChain' -> OnFreeChain']
        /\ FreeChainLinked' /\ SearchOrder'
    <3>1. \A a \in OnFreeChain \ {nah} : heap'[a] = heap[a]
      BY <2>4 DEF OnFreeChain
    <3>2. QED
      BY <3>1, <2>1, <2>5, <2>6, UnlinkFreeOK
  <2>8. next[nah] \in Chained' /\ heap'[next[nah]] = heap[fp] /\ next[nah] # nah
    <3>1. next[nah] \in Chained /\ heap[next[nah]] = heap[fp]
      BY <1>1, <2>2, ArenaFacts
    <3>2. size[nah] >= 2 /\ size[nah] \in Nat
      BY <2>2, ArenaFacts DEF IInv, ArenaInv, BlocksFit
    <3>3. next[nah] # nah
      <4>1. next[nah] \in live => next[nah] = nah + size[nah]
        BY <2>2, ArenaFacts
      <4>2. QED
        BY <4>1, <3>2, <2>2
    <3>4. QED
      BY <3>1, <3>3, <2>3, <2>4
  <2>9. TypeOK'
    <3>1. fp' \in Chained' /\ req' \in [heap : Heap, size : Nat, tag : Tags]
          /\ pc' \in {"idle", "scan", "merge", "sweep"} /\ ret' \in {"idle", "sweep"}
      BY <1>1, <1>4, <2>1, <2>2, <2>3, <2>8, HeadFacts DEF IInv, TypeOK, Return, BackToCaller
    <3>2. QED
      BY <3>1, <2>3, <2>7 DEF TypeOK
  <2>10. Coalesced'
    <3>1. type[next[nah]] # "free"
      BY <2>1, <2>2, <2>3, <1>3
    <3>2. \A b \in live' : b # fp => /\ b \in live /\ next'[b] = next[b] /\ b # nah
                                     /\ next[b] \in Chained /\ next[b] # nah
      <4>1. \A b \in live : b # fp => next[b] # nah
        BY <1>1, ArenaFacts DEF IInv, ArenaInv, ChainLinked
      <4>2. QED
        BY <4>1, <2>3, <2>4, ArenaFacts
    <3>3. \A b \in live' : ~ (type'[b] = "free" /\ type'[next'[b]] = "free")
      BY <3>1, <3>2, <1>1, <1>3, <2>3, <2>4, <2>8, ArenaFacts, SMTT(30)
    <3>4. QED
      BY <3>3 DEF Coalesced
  <2>11. CursorInv'
    BY <1>1, <1>2, <2>1, <2>5, <2>8 DEF CursorInv, Return
  <2>12. SweepMissesNothing'
    <3>1. ASSUME ret = "sweep", NEW b \in Used', tag'[b] = "MODULE"
          PROVE  AheadOfSweep(b)'
      <4>1. /\ b \in live /\ b # nah /\ b # fp /\ b \in Nat /\ b \in Used /\ tag[b] = "MODULE"
            /\ heap'[b] = heap[b]
        BY <1>1, <2>3, <2>4, <3>1, ArenaFacts DEF Used
      <4>2. fp' = next[nah] /\ req' = req /\ AheadOfSweep(b)
        BY <3>1, <4>1, <2>1, <1>2 DEF Return
      <4>3. CASE heap[b] = req.heap
        <5>1. b > fp
          <6>1. heap[b] \in Int
            BY <4>1, ArenaFacts, HeadFacts
          <6>2. QED
            BY <6>1, <4>1, <4>2, <4>3, <1>1 DEF AheadOfSweep
        <5>2. b > nah
          BY <5>1, <4>1, <4>3, <1>1, <1>2, <2>2, <3>1, SuccessorIsNext
        <5>3. next[nah] \in live /\ b >= next[nah]
          BY <5>2, <4>1, <4>3, <1>1, <1>2, <2>2, <3>1, SuccessorIsNext
        <5>4. QED
          BY <5>3, <4>1, <4>2, <4>3, ArenaFacts DEF AheadOfSweep
      <4>4. CASE heap[b] # req.heap
        BY <4>1, <4>2, <4>4 DEF AheadOfSweep
      <4>5. QED
        BY <4>3, <4>4
    <3>2. QED
      BY <3>1, <2>5, <2>1, <1>1 DEF SweepMissesNothing, Return, BackToCaller
  <2>13. QED
    BY <2>3, <2>7, <2>9, <2>10, <2>11, <2>12 DEF IInv, ArenaInv
<1>7. QED
  BY <1>5, <1>6

-----------------------------------------------------------------------------
(* The theorems *)

\* Every step of the allocator keeps the strengthened invariant.
LEMMA NextInv == IInv /\ [Next]_vars => IInv'
<1> SUFFICES ASSUME IInv, [Next]_vars PROVE IInv'
  OBVIOUS
<1>1. CASE UNCHANGED vars
  <2>1. ArenaInv' /\ Chained' = Chained /\ OnFreeChain' = OnFreeChain /\ Used' = Used
    BY <1>1, QuietStep DEF vars, links, attrs
  <2>2. TypeOK'
    BY <1>1, <2>1 DEF vars, IInv, TypeOK
  <2>3. Coalesced' /\ CursorInv'
    BY <1>1, <2>1 DEF vars, IInv, Coalesced, CursorInv
  <2>4. SweepMissesNothing'
    BY <1>1, <2>1 DEF vars, IInv, SweepMissesNothing, AheadOfSweep
  <2>5. SearchOrder'
    <3>1. PICK r \in [OnFreeChain -> Nat] : FreeOrder(r) /\ PassedTooSmall(r)
      BY DEF IInv, SearchOrder
    <3>2. FreeOrder(r)' /\ PassedTooSmall(r)'
      BY <1>1, <2>1, <3>1 DEF vars, FreeOrder, PassedTooSmall
    <3>3. QED
      BY <2>1, <3>1, <3>2 DEF SearchOrder
  <2>6. QED
    BY <2>1, <2>2, <2>3, <2>4, <2>5 DEF IInv
<1>2. CASE Step
  <2>1. CASE SweepFree
    <3>1. fp \in Used /\ pc = "sweep" /\ FreeBlock(fp, "sweep")
      BY <2>1, ArenaFacts DEF SweepFree, Tagged, Used, IInv, CursorInv
    <3>2. QED
      BY <3>1, FreeBlockInv
  <2>2. QED
    BY <1>2, <2>1, ScanInv, SplitInv, TakeWholeInv, MergeStepInv, SweepQuietInv DEF Step
<1>3. CASE Call
  <2>1. CASE \E h \in Heap, n \in 1 .. MaxReq : Malloc(h, n, "CORE")
    BY <2>1, MallocInv, HeapAssumption
  <2>2. CASE \E n \in 1 .. MaxReq : Malloc(NHEAP - 1, n, "MODULE")
    <3>1. NHEAP - 1 \in Heap
      BY HeapAssumption DEF Heap
    <3>2. QED
      BY <2>2, <3>1, MallocInv, HeapAssumption
  <2>3. CASE \E b \in live : FreeCall(b)
    BY <2>3, FreeBlockInv DEF FreeCall
  <2>4. QED
    BY <1>3, <2>1, <2>2, <2>3, SweepQuietInv DEF Call
<1>4. QED
  BY <1>1, <1>2, <1>3 DEF Next

\* The arena of the allocator is well formed in every reachable state, for
\* every number, place and size of the heaps and every sequence of calls.
THEOREM ArenaAlwaysWellFormed == Spec => [](TypeOK /\ ArenaInv /\ Coalesced)
<1>1. IInv => TypeOK /\ ArenaInv /\ Coalesced
  BY DEF IInv
<1>2. QED
  BY <1>1, InitInv, NextInv, PTL DEF Spec

\* Every header field, cursor and argument of the allocator stays in its range.
THEOREM MallocTypeCorrect == Spec => []TypeOK
BY ArenaAlwaysWellFormed, PTL

\* __free_block undoes fragmentation at once: two neighbouring blocks are never
\* both free, but between its two halves.
THEOREM NeighboursCoalesced == Spec => []Coalesced
BY ArenaAlwaysWellFormed, PTL

\* comboot_cleanup_lowmem overlooks no block of the module that ended.
THEOREM CleanupIsComplete == Spec => []SweepMissesNothing
<1>1. IInv => SweepMissesNothing
  BY DEF IInv
<1>2. QED
  BY <1>1, InitInv, NextInv, PTL DEF Spec

\* malloc returns NULL only when no free block of the heap is large enough.
THEOREM FailureIsHonest == Spec => []NoSpuriousFailure
<1>1. IInv => NoSpuriousFailure
  <2> SUFFICES ASSUME IInv, pc = "scan", fp = Head(req.heap), NEW b \in Free(req.heap)
               PROVE  size[b] < req.size
    BY DEF NoSpuriousFailure
  <2>1. PICK r \in [OnFreeChain -> Nat] : FreeOrder(r) /\ PassedTooSmall(r)
    BY DEF IInv, SearchOrder
  <2>2. b \in OnFreeChain \ Heads /\ heap[b] = req.heap
    BY ArenaFacts DEF Free, OnFreeChain
  <2>3. fp \in Heads
    BY HeadFacts DEF IInv, TypeOK
  <2>4. r[b] > 0 /\ r[fp] = 0
    BY <2>1, <2>2, <2>3 DEF FreeOrder
  <2>5. QED
    BY <2>1, <2>2, <2>4 DEF PassedTooSmall
<1>2. QED
  BY <1>1, InitInv, NextInv, PTL DEF Spec

-----------------------------------------------------------------------------
(* Refinement *)

\* A step that keeps the used blocks, their sizes and owners is a stutter.
LEMMA SameUsed ==
  ASSUME Used' = Used, \A b \in Used : size'[b] = size[b] /\ tag'[b] = tag[b]
  PROVE  Allocated' = Allocated
BY DEF Allocated

\* Handing out the block at the cursor is an Allocate step of HeapSpec.
LEMMA HandOut ==
  ASSUME IInv, NEW n \in Nat, NEW t \in {"CORE", "MODULE"},
         fp \in live, fp \notin Used, n > 0, n <= size[fp],
         Used' = Used \cup {fp}, size'[fp] = n, tag'[fp] = t,
         \A b \in Used : size'[b] = size[b] /\ tag'[b] = tag[b]
  PROVE  HS!Allocate
<1> DEFINE e == [addr |-> fp, size |-> n, tag |-> t]
<1>1. Allocated' = Allocated \cup {e} /\ e \in Allocated'
  BY DEF Allocated
<1>2. /\ fp \in Nat /\ size[fp] \in Nat /\ heap[fp] \in Heap
      /\ fp \in Units(heap[fp]) /\ fp + size[fp] <= End[heap[fp]]
  BY ArenaFacts DEF IInv, ArenaInv, BlocksFit
<1>3. e \in HS!Extent
  BY <1>2 DEF HS!Extent
<1>4. HS!InAHeap(e)
  <2>1. Base[heap[fp]] <= fp /\ fp + n <= End[heap[fp]]
    BY <1>2, UnitFacts
  <2>2. QED
    BY <1>2, <2>1 DEF HS!InAHeap, Heap
<1>5. \A f \in Allocated : HS!Disjoint(e, f)
  <2> SUFFICES ASSUME NEW b \in Used
               PROVE  fp + n <= b \/ b + size[b] <= fp
    BY DEF Allocated, HS!Disjoint
  <2>1. b \in live /\ b \in Nat /\ size[b] \in Nat /\ b # fp
    BY ArenaFacts DEF Used
  <2>2. fp < b => fp + size[fp] <= b
    BY <2>1, NoOverlap
  <2>3. b < fp => b + size[b] <= fp
    BY <2>1, NoOverlap
  <2>4. QED
    BY <1>2, <2>1, <2>2, <2>3
<1>6. QED
  BY <1>1, <1>3, <1>4, <1>5 DEF HS!Allocate

\* Taking back a block is a Release step of HeapSpec.
LEMMA TakeBack ==
  ASSUME NEW ah \in Used, Used' = Used \ {ah},
         \A b \in Used \ {ah} : size'[b] = size[b] /\ tag'[b] = tag[b]
  PROVE  HS!Release
<1> DEFINE Ext(b) == [addr |-> b, size |-> size[b], tag |-> tag[b]]
<1>1. Allocated' = {Ext(b) : b \in Used \ {ah}} /\ Ext(ah) \in Allocated
  BY DEF Allocated
<1>2. \A b \in Used : Ext(b) = Ext(ah) => b = ah
  OBVIOUS
<1>3. Allocated' = Allocated \ {Ext(ah)}
  BY <1>1, <1>2 DEF Allocated
<1>4. QED
  BY <1>1, <1>3 DEF HS!Release

\* Splitting a block hands out its first part and touches no other used block.
LEMMA SplitUsed ==
  ASSUME IInv, Split
  PROVE  /\ fp \in live /\ type[fp] = "free" /\ req.size \in Nat /\ req.size >= 2
         /\ size[fp] >= req.size /\ size[fp] \in Nat /\ req.tag \in {"CORE", "MODULE"}
         /\ Used' = Used \cup {fp} /\ fp \notin Used
         /\ size'[fp] = req.size /\ tag'[fp] = req.tag
         /\ \A b \in Used : size'[b] = size[b] /\ tag'[b] = tag[b]
<1>1. /\ fp \in live /\ fp \in Chained /\ type[fp] = "free" /\ req.size \in Nat /\ req.size >= 2
      /\ size[fp] >= req.size + 2 /\ size[fp] \in Nat /\ req.tag \in {"CORE", "MODULE"}
      /\ fp \in Nat
  BY ArenaFacts DEF IInv, CursorInv, Split, TypeOK, HasRoomForSplit, OnFreeChain
<1>2. fp + req.size \notin live /\ fp + req.size # fp
  <2>1. fp + req.size \in live => fp + size[fp] <= fp + req.size
    BY <1>1, NoOverlap
  <2>2. QED
    BY <1>1, <2>1
<1>3. /\ live' = live \cup {fp + req.size}
      /\ size' = [a \in Chained \cup {fp + req.size} |->
                    IF a = fp + req.size THEN size[fp] - req.size
                    ELSE IF a = fp THEN req.size ELSE size[a]]
      /\ type' = [a \in Chained \cup {fp + req.size} |->
                    IF a = fp + req.size THEN "free" ELSE IF a = fp THEN "used" ELSE type[a]]
      /\ tag' = [a \in Chained \cup {fp + req.size} |->
                    IF a = fp + req.size THEN "FREE" ELSE IF a = fp THEN req.tag ELSE tag[a]]
  BY DEF Split
<1>4. Used' = Used \cup {fp} /\ fp \notin Used
  BY <1>1, <1>2, <1>3 DEF Used, Chained
<1>5. size'[fp] = req.size /\ tag'[fp] = req.tag
  BY <1>1, <1>2, <1>3
<1>6. \A b \in Used : size'[b] = size[b] /\ tag'[b] = tag[b]
  BY <1>1, <1>2, <1>3 DEF Used, Chained
<1>7. QED
  BY <1>1, <1>4, <1>5, <1>6

\* Taking a whole block hands it out and touches no other used block.
LEMMA TakeWholeUsed ==
  ASSUME IInv, TakeWhole
  PROVE  /\ fp \in live /\ type[fp] = "free" /\ req.size \in Nat /\ req.size >= 2
         /\ size[fp] >= req.size /\ size[fp] \in Nat /\ req.tag \in {"CORE", "MODULE"}
         /\ Used' = Used \cup {fp} /\ fp \notin Used
         /\ size'[fp] = size[fp] /\ tag'[fp] = req.tag
         /\ \A b \in Used : size'[b] = size[b] /\ tag'[b] = tag[b]
<1>1. /\ fp \in live /\ fp \in Chained /\ type[fp] = "free" /\ req.size \in Nat /\ req.size >= 2
      /\ size[fp] >= req.size /\ size[fp] \in Nat /\ req.tag \in {"CORE", "MODULE"}
      /\ type \in [Chained -> Types] /\ tag \in [Chained -> Tags]
  BY ArenaFacts DEF IInv, CursorInv, TakeWhole, TypeOK, OnFreeChain
<1>2. /\ type' = [type EXCEPT ![fp] = "used"] /\ tag' = [tag EXCEPT ![fp] = req.tag]
      /\ size' = size /\ live' = live
  BY DEF TakeWhole
<1>3. Used' = Used \cup {fp} /\ fp \notin Used
  BY <1>1, <1>2 DEF Used, Chained
<1>4. size'[fp] = size[fp] /\ tag'[fp] = req.tag
  BY <1>1, <1>2
<1>5. \A b \in Used : size'[b] = size[b] /\ tag'[b] = tag[b]
  BY <1>1, <1>2 DEF Used, Chained
<1>6. QED
  BY <1>1, <1>3, <1>4, <1>5

\* The first half of __free_block takes back its argument and touches no other
\* used block.
LEMMA FreeBlockUsed ==
  ASSUME IInv, NEW ah \in Used, NEW caller, FreeBlock(ah, caller)
  PROVE  /\ Used' = Used \ {ah}
         /\ \A b \in Used \ {ah} : size'[b] = size[b] /\ tag'[b] = tag[b]
<1>1. /\ ah \in live /\ ah \in Chained /\ type[ah] = "used" /\ ah \notin Heads
      /\ prev[ah] \in Chained /\ type \in [Chained -> Types] /\ tag \in [Chained -> Tags]
  BY ArenaFacts DEF Used, IInv, TypeOK
<1>2. CASE CoalescePrev(ah)
  <2>1. MergeInto(prev[ah], ah) /\ type[prev[ah]] = "free"
    BY <1>2 DEF CoalescePrev, MergesPrev
  <2>2. /\ live' = live \ {ah}
        /\ \A a \in Chained \ {ah} : type'[a] = type[a] /\ tag'[a] = tag[a]
        /\ \A a \in Chained \ {ah} : a # prev[ah] => size'[a] = size[a]
    BY <2>1 DEF MergeInto
  <2>3. QED
    BY <2>1, <2>2, <1>1 DEF Used, Chained
<1>3. CASE AddToFreeChain(ah)
  <2>1. /\ type' = [type EXCEPT ![ah] = "free"] /\ tag' = [tag EXCEPT ![ah] = "FREE"]
        /\ size' = size /\ live' = live
    BY <1>3 DEF AddToFreeChain
  <2>2. QED
    BY <2>1, <1>1 DEF Used, Chained
<1>4. QED
  BY <1>2, <1>3 DEF FreeBlock

\* Its second half only merges two free blocks.
LEMMA CoalesceNextUsed ==
  ASSUME IInv, CoalesceNext
  PROVE  Used' = Used /\ \A b \in Used : size'[b] = size[b] /\ tag'[b] = tag[b]
<1>1. /\ fp \in OnFreeChain \ Heads /\ type[fp] = "free" /\ type[next[fp]] = "free"
      /\ fp \in Chained /\ next[fp] \in Chained
      /\ MergeInto(fp, next[fp])
  BY ArenaFacts DEF CoalesceNext, MergesNext, IInv, CursorInv, OnFreeChain
<1>2. /\ live' = live \ {next[fp]}
      /\ \A a \in Chained \ {next[fp]} : type'[a] = type[a] /\ tag'[a] = tag[a]
      /\ \A a \in Chained \ {next[fp]} : a # fp => size'[a] = size[a]
  BY <1>1 DEF MergeInto
<1>3. QED
  BY <1>1, <1>2 DEF Used, Chained

\* The block that the sweep frees is a module's.
LEMMA SweepFreeUsed ==
  ASSUME IInv, SweepFree
  PROVE  fp \in Used /\ tag[fp] = "MODULE" /\ pc = "sweep" /\ FreeBlock(fp, "sweep")
BY ArenaFacts DEF SweepFree, Tagged, Used, IInv, CursorInv

\* Every step of the allocator is a step of HeapSpec or leaves it unchanged.
LEMMA StepRefines == IInv /\ [Next]_vars => [HS!Next]_Allocated
<1> SUFFICES ASSUME IInv, [Next]_vars PROVE HS!Next \/ Allocated' = Allocated
  OBVIOUS
<1>1. ASSUME UNCHANGED <<attrs, live>> PROVE Allocated' = Allocated
  BY <1>1, SameUsed DEF attrs, Used
<1>2. CASE Split
  BY <1>2, SplitUsed, HandOut DEF HS!Next
<1>3. CASE TakeWhole
  BY <1>3, TakeWholeUsed, HandOut DEF HS!Next
<1>4. ASSUME NEW ah \in Used, NEW caller, FreeBlock(ah, caller) PROVE HS!Release
  BY <1>4, FreeBlockUsed, TakeBack
<1>5. CASE CoalesceNext
  BY <1>5, CoalesceNextUsed, SameUsed
<1>6. CASE SweepFree
  BY <1>6, SweepFreeUsed, <1>4 DEF HS!Next
<1>7. CASE \E b \in live : FreeCall(b)
  BY <1>4, <1>7 DEF FreeCall, HS!Next
<1>8. CASE \/ UNCHANGED vars \/ ScanNext \/ ScanFail \/ KeepNext
           \/ CleanupLowmem \/ SweepSkip \/ SweepNextHeap \/ SweepDone
  BY <1>1, <1>8 DEF vars, attrs, ScanNext, ScanFail, KeepNext, CleanupLowmem, SweepSkip,
     SweepNextHeap, SweepDone
<1>9. CASE \/ \E h \in Heap, n \in 1 .. MaxReq : Malloc(h, n, "CORE")
           \/ \E n \in 1 .. MaxReq : Malloc(NHEAP - 1, n, "MODULE")
  BY <1>1, <1>9 DEF Malloc, attrs
<1>10. QED
  BY <1>2, <1>3, <1>5, <1>6, <1>7, <1>8, <1>9 DEF Next, Step, Call

\* The allocator implements HeapSpec: what it has handed out lies inside a
\* heap, never overlaps, and changes one whole block at a time.
THEOREM MallocImplementsHeapSpec == Spec => ImplementsHeapSpec
<1>1. Init => HS!Init
  BY HeadFacts, UnitFacts DEF Init, HS!Init, Allocated, Used, Chained
<1>2. QED
  BY <1>1, InitInv, NextInv, StepRefines, PTL DEF Spec, HS!Spec, ImplementsHeapSpec

-----------------------------------------------------------------------------
\* What one step may do to a block that is handed out.
StableStep ==
  \A b \in Used :
    \/ b \in Used' /\ size'[b] = size[b] /\ tag'[b] = tag[b]
    \/ pc = "idle" /\ FreeCall(b)
    \/ pc = "sweep" /\ b = fp /\ tag[b] = "MODULE"

\* Every step leaves the blocks that are handed out as they are, but for the
\* one that free is called for or the sweep has come to.
LEMMA StepStable == IInv /\ [Next]_vars => StableStep
<1> SUFFICES ASSUME IInv, [Next]_vars PROVE StableStep
  OBVIOUS
<1>1. ASSUME UNCHANGED <<attrs, live>> PROVE StableStep
  BY <1>1 DEF attrs, Used, StableStep
<1>2. CASE Split
  BY <1>2, SplitUsed DEF StableStep
<1>3. CASE TakeWhole
  BY <1>3, TakeWholeUsed DEF StableStep
<1>4. CASE CoalesceNext
  BY <1>4, CoalesceNextUsed DEF StableStep
<1>5. CASE SweepFree
  BY <1>5, SweepFreeUsed, FreeBlockUsed DEF StableStep
<1>6. ASSUME NEW c \in live, FreeCall(c) PROVE StableStep
  <2>1. c \in Used /\ FreeBlock(c, "idle") /\ pc = "idle"
    BY <1>6 DEF FreeCall
  <2>2. QED
    BY <1>6, <2>1, FreeBlockUsed DEF StableStep
<1>7. CASE \/ UNCHANGED vars \/ ScanNext \/ ScanFail \/ KeepNext
           \/ CleanupLowmem \/ SweepSkip \/ SweepNextHeap \/ SweepDone
  BY <1>1, <1>7 DEF vars, attrs, ScanNext, ScanFail, KeepNext, CleanupLowmem, SweepSkip,
     SweepNextHeap, SweepDone
<1>8. CASE \/ \E h \in Heap, n \in 1 .. MaxReq : Malloc(h, n, "CORE")
           \/ \E n \in 1 .. MaxReq : Malloc(NHEAP - 1, n, "MODULE")
  BY <1>1, <1>8 DEF Malloc, attrs
<1>9. QED
  BY <1>2, <1>3, <1>4, <1>5, <1>6, <1>7, <1>8 DEF Next, Step, Call

\* No call disturbs a block that is handed out: it keeps its place, size and
\* owner until free is called for it or, for a module's block, the sweep of
\* __free_tagged comes to it.
THEOREM OthersBlocksUntouched == Spec => AllocatedStable
BY StepStable, InitInv, NextInv, PTL DEF Spec, AllocatedStable, StableStep

=============================================================================
