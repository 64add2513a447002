------------------------------ MODULE HeapSpec ------------------------------
(***************************************************************************)
(* What the allocator promises its callers: the extents it has handed out  *)
(* lie inside a heap and never overlap; an extent stays allocated, with    *)
(* its place, size and owner, until it is released.                        *)
(***************************************************************************)
EXTENDS Integers

CONSTANTS NHEAP, Base, End, Owners

VARIABLE alloc    \* the allocated extents: [addr, size, tag] records

Disjoint(e, f) == e.addr + e.size <= f.addr \/ f.addr + f.size <= e.addr

InAHeap(e) == \E h \in 0 .. NHEAP - 1 : Base[h] <= e.addr /\ e.addr + e.size <= End[h]

Init == alloc = {}

Extent == [addr : Nat, size : Nat \ {0}, tag : Owners]

Allocate ==
  \E e \in alloc' :
    /\ e \in Extent
    /\ InAHeap(e)
    /\ \A f \in alloc : Disjoint(e, f)
    /\ alloc' = alloc \cup {e}

Release == \E e \in alloc : alloc' = alloc \ {e}

Next == Allocate \/ Release

Spec == Init /\ [][Next]_alloc
=============================================================================
