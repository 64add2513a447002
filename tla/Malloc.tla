------------------------------- MODULE Malloc -------------------------------
(***************************************************************************)
(* The core's memory allocator: syslinux/libcore/mem/{init,malloc,free}.c. *)
(*                                                                         *)
(* Addresses and sizes are counted in units of sizeof(struct arena_header),*)
(* the allocator's alignment unit, so a used block has one unit of header  *)
(* and a free block needs two (struct free_arena_header).  The fields of   *)
(* the headers are functions of the address, defined where the field means *)
(* something: a.next, a.prev, a.attrs and a.tag on the headers linked into *)
(* an arena chain, next_free and prev_free on the members of a free chain. *)
(* What a dead header still holds is garbage: a step that read it would    *)
(* stop TLC.  The code is sequential; its loops (the first-fit search of   *)
(* _malloc, the sweep of __free_tagged) and the two halves of __free_block *)
(* are separate steps, so that their loop invariants can be stated.        *)
(***************************************************************************)
EXTENDS Integers

CONSTANTS
  NHEAP,    \* number of heaps (HEAP_MAIN, HEAP_LOWMEM)
  Base,     \* Base[h]: address of the first unit of heap h
  End,      \* End[h]: first address after heap h
  MaxReq    \* bound: largest payload, in units, a caller asks for

Heap == 0 .. NHEAP - 1

ASSUME HeapAssumption ==
  /\ NHEAP \in Nat \ {0}
  /\ Base \in [Heap -> Nat]
  /\ End \in [Heap -> Nat]
  /\ \A h \in Heap : Base[h] + 2 <= End[h]
  /\ \A g, h \in Heap : g # h => End[g] <= Base[h] \/ End[h] <= Base[g]
  /\ MaxReq \in Nat \ {0}

\* The list heads, __malloc_head[h], lie outside every heap.
Head(h) == -1 - h
Heads == {Head(h) : h \in Heap}
Units(h) == Base[h] .. End[h] - 1

Types == {"used", "free", "head"}
Tags == {"FREE", "HEAD", "CORE", "MODULE"}

VARIABLES
  next, prev,              \* the all-blocks chain (a.next, a.prev)
  next_free, prev_free,    \* the free chain
  size, type, heap, tag,   \* a.attrs (three bit fields) and a.tag
  live,                    \* the addresses that hold a chained block header
  pc,                      \* where the running call is
  fp,                      \* its cursor (fp in _malloc and __free_tagged, ah in __free_block)
  req,                     \* arguments of the running _malloc
  ret                      \* where __free_block returns to

links == <<next, prev, next_free, prev_free>>
attrs == <<size, type, heap, tag>>
vars == <<next, prev, next_free, prev_free, size, type, heap, tag,
          live, pc, fp, req, ret>>

Chained == live \cup Heads
OnFreeChain == {a \in Chained : a \in Heads \/ type[a] = "free"}
Free(h) == {b \in live : type[b] = "free" /\ heap[b] = h}
Used == {b \in live : type[b] = "used"}

(***************************************************************************)
(* mem_init: the list heads point at themselves, then __inject_free_block  *)
(* puts the single block of each heap on the (empty) chains.  main_heap    *)
(* and the low memory heap are the only blocks ever injected.              *)
(***************************************************************************)
NoReq == [heap |-> 0, size |-> 0, tag |-> "FREE"]

HeapOf(a) == CHOOSE h \in Heap : a = Head(h) \/ a = Base[h]

InitialRing ==
  [a \in Chained |-> IF a \in Heads THEN Base[HeapOf(a)] ELSE Head(HeapOf(a))]

Init ==
  /\ live = {Base[h] : h \in Heap}
  /\ next = InitialRing /\ prev = InitialRing
  /\ next_free = InitialRing /\ prev_free = InitialRing
  /\ size = [a \in Chained |-> IF a \in Heads THEN 0
                               ELSE End[HeapOf(a)] - Base[HeapOf(a)]]
  /\ type = [a \in Chained |-> IF a \in Heads THEN "head" ELSE "free"]
  /\ heap = [a \in Chained |-> HeapOf(a)]
  /\ tag = [a \in Chained |-> IF a \in Heads THEN "HEAD" ELSE "FREE"]
  /\ pc = "idle" /\ fp = Head(0) /\ req = NoReq /\ ret = "idle"

\* A call returns to its caller: its local variables are gone.
BackToCaller == pc' = "idle" /\ fp' = Head(0) /\ req' = NoReq /\ ret' = "idle"

-----------------------------------------------------------------------------
(* _malloc and __malloc_from_block *)

\* Mutant: the search starts at the second free block.
MallocSkipsFirst(h, n, t) ==
  /\ pc = "idle"
  /\ req' = [heap |-> h, size |-> n + 1, tag |-> t]
  /\ fp' = IF next_free[Head(h)] = Head(h) THEN Head(h) ELSE next_free[next_free[Head(h)]]
  /\ pc' = "scan"
  /\ UNCHANGED <<links, attrs, live, ret>>

\* _malloc(n) for n > 0: add the header, start the first-fit search.
Malloc(h, n, t) ==
  /\ pc = "idle"
  /\ req' = [heap |-> h, size |-> n + 1, tag |-> t]
  /\ fp' = next_free[Head(h)]
  /\ pc' = "scan"
  /\ UNCHANGED <<links, attrs, live, ret>>

\* for (fp = head->next_free ; fp != head ; fp = fp->next_free): too small.
ScanNext ==
  /\ pc = "scan"
  /\ fp # Head(req.heap)
  /\ size[fp] < req.size
  /\ fp' = next_free[fp]
  /\ UNCHANGED <<links, attrs, live, pc, req, ret>>

\* The search came back to the head: malloc returns NULL.
ScanFail ==
  /\ pc = "scan"
  /\ fp = Head(req.heap)
  /\ BackToCaller
  /\ UNCHANGED <<links, attrs, live>>

\* Room for a free block after the request: "the 2* to account for the larger
\* requirements of a free block".
SplitAtOneUnit == size[fp] >= req.size + 1   \* mutant: the 2* forgotten
HasRoomForSplit == size[fp] >= req.size + 2

\* A block with room for a free block after the request is split.
Split ==
  /\ pc = "scan"
  /\ fp # Head(req.heap)
  /\ HasRoomForSplit
  /\ LET nfp == fp + req.size
         D == Chained \cup {nfp}
         F == (OnFreeChain \ {fp}) \cup {nfp}
     IN  /\ live' = live \cup {nfp}
         /\ size' = [a \in D |-> IF a = nfp THEN size[fp] - req.size
                                 ELSE IF a = fp THEN req.size ELSE size[a]]
         /\ type' = [a \in D |-> IF a = nfp THEN "free"
                                 ELSE IF a = fp THEN "used" ELSE type[a]]
         /\ heap' = [a \in D |-> IF a = nfp THEN heap[fp] ELSE heap[a]]
         /\ tag' = [a \in D |-> IF a = nfp THEN "FREE"
                                ELSE IF a = fp THEN req.tag ELSE tag[a]]
         /\ next' = [a \in D |-> IF a = nfp THEN next[fp]
                                 ELSE IF a = fp THEN nfp ELSE next[a]]
         /\ prev' = [a \in D |-> IF a = nfp THEN fp
                                 ELSE IF a = next[fp] THEN nfp ELSE prev[a]]
         /\ next_free' = [a \in F |-> IF a = nfp THEN next_free[fp]
                                      ELSE IF a = prev_free[fp] THEN nfp ELSE next_free[a]]
         /\ prev_free' = [a \in F |-> IF a = nfp THEN prev_free[fp]
                                      ELSE IF a = next_free[fp] THEN nfp ELSE prev_free[a]]
  /\ BackToCaller

\* Remove from free chain (the other members' links; x's own are dead then).
UnlinkFree(x) ==
  LET F == OnFreeChain \ {x}
  IN  /\ next_free' = [a \in F |-> IF a = prev_free[x] THEN next_free[x] ELSE next_free[a]]
      /\ prev_free' = [a \in F |-> IF a = next_free[x] THEN prev_free[x] ELSE prev_free[a]]

\* Mutant: the whole block is allocated but stays on the free chain.
TakeWholeStaysChained ==
  /\ pc = "scan"
  /\ fp # Head(req.heap)
  /\ size[fp] >= req.size
  /\ ~ HasRoomForSplit
  /\ type' = [type EXCEPT ![fp] = "used"]
  /\ tag' = [tag EXCEPT ![fp] = req.tag]
  /\ BackToCaller
  /\ UNCHANGED <<next_free, prev_free, next, prev, size, heap, live>>

\* Otherwise the whole block is allocated.
TakeWhole ==
  /\ pc = "scan"
  /\ fp # Head(req.heap)
  /\ size[fp] >= req.size
  /\ ~ HasRoomForSplit
  /\ type' = [type EXCEPT ![fp] = "used"]
  /\ tag' = [tag EXCEPT ![fp] = req.tag]
  /\ UnlinkFree(fp)
  /\ BackToCaller
  /\ UNCHANGED <<next, prev, size, heap, live>>

-----------------------------------------------------------------------------
(* __free_block, in two steps *)

Adjoins(a, b) == a + size[a] = b

\* Block c, the successor of b, becomes part of b.
MergeInto(b, c) ==
  LET D == Chained \ {c}
  IN  /\ live' = live \ {c}
      /\ size' = [a \in D |-> IF a = b THEN size[b] + size[c] ELSE size[a]]
      /\ next' = [a \in D |-> IF a = b THEN next[c] ELSE next[a]]
      /\ prev' = [a \in D |-> IF a = next[c] THEN b ELSE prev[a]]
      /\ type' = [a \in D |-> type[a]]
      /\ heap' = [a \in D |-> heap[a]]
      /\ tag' = [a \in D |-> tag[a]]

\* First half: coalesce into the previous block, or join the free chain.
MergesPrevUsed(ah) == prev[ah] \notin Heads /\ Adjoins(prev[ah], ah)   \* mutant: type not tested
MergesPrev(ah) == type[prev[ah]] = "free" /\ Adjoins(prev[ah], ah)

CoalescePrev(ah) ==
  /\ MergesPrev(ah)
  /\ MergeInto(prev[ah], ah)
  /\ fp' = prev[ah]
  /\ UNCHANGED <<next_free, prev_free>>

AddToFreeChain(ah) ==
  /\ ~ MergesPrev(ah)
  /\ LET head == Head(heap[ah])
         first == next_free[head]
     IN  /\ type' = [type EXCEPT ![ah] = "free"]
         /\ tag' = [tag EXCEPT ![ah] = "FREE"]
         /\ next_free' = [a \in OnFreeChain \cup {ah} |->
                          IF a = ah THEN first ELSE IF a = head THEN ah ELSE next_free[a]]
         /\ prev_free' = [a \in OnFreeChain \cup {ah} |->
                          IF a = ah THEN head ELSE IF a = first THEN ah ELSE prev_free[a]]
         /\ fp' = ah
  /\ UNCHANGED <<next, prev, size, heap, live>>

FreeBlock(ah, caller) ==
  /\ CoalescePrev(ah) \/ AddToFreeChain(ah)
  /\ pc' = "merge"
  /\ ret' = caller
  /\ UNCHANGED req

\* Second half: merge with the subsequent block when it is free too.
MergesNextReversed == type[next[fp]] = "free" /\ Adjoins(next[fp], fp)   \* mutant
MergesNext == type[next[fp]] = "free" /\ Adjoins(fp, next[fp])

\* Mutant: the sweep advances twice after freeing a block.
ReturnSkips(succ) ==
  \/ ret = "idle" /\ BackToCaller
  \/ /\ ret = "sweep" /\ pc' = "sweep" /\ UNCHANGED <<req, ret>>
     /\ fp' = IF succ \in Heads THEN succ ELSE next[succ]

\* What the caller does with the returned block: free() drops it, the sweep
\* of __free_tagged goes on from its successor.
Return(succ) ==
  \/ ret = "idle" /\ BackToCaller
  \/ ret = "sweep" /\ pc' = "sweep" /\ fp' = succ /\ UNCHANGED <<req, ret>>

CoalesceNext ==
  /\ pc = "merge"
  /\ MergesNext
  /\ MergeInto(fp, next[fp])
  /\ UnlinkFree(next[fp])
  /\ Return(next[next[fp]])

KeepNext ==
  /\ pc = "merge"
  /\ ~ MergesNext
  /\ Return(next[fp])
  /\ UNCHANGED <<links, attrs, live>>

\* free(ptr) of a pointer that malloc returned.
FreeCall(b) ==
  /\ pc = "idle"
  /\ b \in Used
  /\ FreeBlock(b, "idle")

-----------------------------------------------------------------------------
(* __free_tagged(MALLOC_MODULE), called by comboot_cleanup_lowmem when a   *)
(* module ends.  req.heap is the loop variable i.                          *)

CleanupLowmem ==
  /\ pc = "idle"
  /\ pc' = "sweep"
  /\ req' = [req EXCEPT !.heap = 0]
  /\ fp' = next[Head(0)]
  /\ UNCHANGED <<links, attrs, live, ret>>

\* The blocks the sweep frees.
TaggedIgnoringOwner(b) == type[b] = "used"   \* mutant: the tag is not compared
Tagged(b) == type[b] = "used" /\ tag[b] = "MODULE"

SweepFree ==
  /\ pc = "sweep"
  /\ fp # Head(req.heap)
  /\ Tagged(fp)
  /\ FreeBlock(fp, "sweep")

SweepSkip ==
  /\ pc = "sweep"
  /\ fp # Head(req.heap)
  /\ ~ Tagged(fp)
  /\ fp' = next[fp]
  /\ UNCHANGED <<links, attrs, live, pc, req, ret>>

SweepNextHeap ==
  /\ pc = "sweep"
  /\ fp = Head(req.heap)
  /\ req.heap + 1 < NHEAP
  /\ req' = [req EXCEPT !.heap = req.heap + 1]
  /\ fp' = next[Head(req.heap + 1)]
  /\ UNCHANGED <<links, attrs, live, pc, ret>>

SweepDone ==
  /\ pc = "sweep"
  /\ fp = Head(req.heap)
  /\ req.heap + 1 = NHEAP
  /\ BackToCaller
  /\ UNCHANGED <<links, attrs, live>>

-----------------------------------------------------------------------------
\* The loops and halves of a call in progress.
Step ==
  \/ ScanNext \/ ScanFail \/ Split \/ TakeWhole
  \/ CoalesceNext \/ KeepNext
  \/ SweepFree \/ SweepSkip \/ SweepNextHeap \/ SweepDone

\* malloc and lmalloc tag their blocks CORE; pmapi_lmalloc tags them MODULE
\* and serves them from the last heap only.
Call ==
  \/ \E h \in Heap, n \in 1 .. MaxReq : Malloc(h, n, "CORE")
  \/ \E n \in 1 .. MaxReq : Malloc(NHEAP - 1, n, "MODULE")
  \/ \E b \in live : FreeCall(b)
  \/ CleanupLowmem

Next == Step \/ Call

Spec == Init /\ [][Next]_vars /\ WF_vars(Step)

-----------------------------------------------------------------------------
(* Properties *)

\* Every header field, cursor and argument stays in its range.
TypeOK ==
  /\ live \in SUBSET UNION {Units(h) : h \in Heap}
  /\ next \in [Chained -> Chained] /\ prev \in [Chained -> Chained]
  /\ size \in [Chained -> Nat] /\ type \in [Chained -> Types]
  /\ heap \in [Chained -> Heap] /\ tag \in [Chained -> Tags]
  /\ next_free \in [OnFreeChain -> OnFreeChain]
  /\ prev_free \in [OnFreeChain -> OnFreeChain]
  /\ pc \in {"idle", "scan", "merge", "sweep"} /\ ret \in {"idle", "sweep"}
  /\ fp \in Chained
  /\ req \in [heap : Heap, size : Nat, tag : Tags]

\* Each live block lies inside its heap and is large enough to be a free block.
BlocksFit ==
  \A b \in live :
    /\ b \in Units(heap[b])
    /\ size[b] >= 2
    /\ b + size[b] <= End[heap[b]]
    /\ type[b] \in {"used", "free"}
    /\ (type[b] = "free") <=> (tag[b] = "FREE")

\* The blocks of a heap tile it: no two overlap, and following a.next visits
\* them in address order without a gap, from the head and back to it.
Tiles ==
  /\ \A h \in Heap : Base[h] \in live /\ next[Head(h)] = Base[h]
  /\ \A b \in live :
       \/ b + size[b] = End[heap[b]] /\ next[b] = Head(heap[b])
       \/ b + size[b] \in live /\ next[b] = b + size[b] /\ heap[next[b]] = heap[b]
  /\ \A b, c \in live : b < c => b + size[b] <= c

\* a.next and a.prev are inverse to each other on the chained headers.
ChainLinked ==
  /\ \A h \in Heap : heap[Head(h)] = h /\ type[Head(h)] = "head"
  /\ \A a \in Chained : prev[next[a]] = a /\ next[prev[a]] = a

\* The free chain links exactly free blocks and the head of their heap, both ways.
FreeChainLinked ==
  \A a \in OnFreeChain :
    /\ heap[next_free[a]] = heap[a] /\ heap[prev_free[a]] = heap[a]
    /\ prev_free[next_free[a]] = a /\ next_free[prev_free[a]] = a

\* The arena is well formed in every state, in the middle of a call too:
\* blocks tile the heaps and both chains are intact.
ArenaInv == BlocksFit /\ Tiles /\ ChainLinked /\ FreeChainLinked

\* Two neighbouring blocks are never both free, except while __free_block is
\* between its two halves: fragmentation is always undone at once.
Coalesced ==
  \A b \in live :
    type[b] = "free" /\ type[next[b]] = "free" => pc = "merge" /\ fp = b

\* The cursor of a running loop is always on the chain it walks.
CursorInv ==
  /\ pc = "scan" => /\ fp \in OnFreeChain /\ heap[fp] = req.heap
                    /\ req.size >= 2 /\ req.tag \in {"CORE", "MODULE"}
  /\ pc = "merge" => fp \in OnFreeChain \ Heads
  /\ pc = "merge" /\ ret = "sweep" => heap[fp] = req.heap
  /\ pc = "sweep" => fp \in Chained /\ heap[fp] = req.heap

\* A block that the sweep of __free_tagged still has to visit.
AheadOfSweep(b) ==
  \/ heap[b] > req.heap
  \/ heap[b] = req.heap /\ fp \notin Heads /\ b >= fp

\* comboot_cleanup_lowmem skips nothing although it frees, and so merges away,
\* blocks of the chain it walks: a module's block is always still ahead of it.
\* So none is left when the sweep ends.
SweepMissesNothing ==
  pc = "sweep" \/ (pc = "merge" /\ ret = "sweep") =>
    \A b \in Used : tag[b] = "MODULE" => AheadOfSweep(b)

\* A search that comes back to the head has seen every free block of the heap,
\* so malloc returns NULL only when no block is large enough.
NoSpuriousFailure ==
  pc = "scan" /\ fp = Head(req.heap) =>
    \A b \in Free(req.heap) : size[b] < req.size

\* A block handed out keeps its place, size and owner until its owner frees it
\* or, for a module's block, the sweep does: no other call disturbs it.
AllocatedStable ==
  [][\A b \in Used :
       \/ b \in Used' /\ size'[b] = size[b] /\ tag'[b] = tag[b]
       \/ pc = "idle" /\ FreeCall(b)
       \/ pc = "sweep" /\ b = fp /\ tag[b] = "MODULE"]_vars

\* The extents handed out, as HeapSpec sees them.
Allocated == {[addr |-> b, size |-> size[b], tag |-> tag[b]] : b \in Used}

HS == INSTANCE HeapSpec WITH Owners <- {"CORE", "MODULE"}, alloc <- Allocated

\* The allocator implements HeapSpec: seen through its used blocks, every step
\* hands out one disjoint extent, takes one back, or changes nothing.
ImplementsHeapSpec == HS!Spec
=============================================================================
