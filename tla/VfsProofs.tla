----------------------------- MODULE VfsProofs -----------------------------
(***************************************************************************)
(* The counter of every inode is exact, no file structure is lost and a    *)
(* lookup finds what the path means, for every directory tree, every path, *)
(* and every size of the file table and of the heap.                       *)
(***************************************************************************)
EXTENDS Vfs, FiniteSetTheorems, TLAPS

\* The call is at c, or will be when put_inode returns.
Heading(c) == pc = c \/ (pc = "put" /\ cont = c)

Walk == Heading("walk") \/ pc = "entry"

\* Which local variables are in use, and where fs->cwd is being replaced.
ControlInv ==
  /\ cont \in {"idle", "walk", "fail", "chdir"}
  /\ pc # "put" => dying = NULL
  /\ inode # NULL <=> Walk
  /\ Walk => links >= 1
  /\ cwd = NULL <=> Heading("chdir")
  /\ pc = "entry" => parent[inode] # NULL

\* The file structures in use are those of the handles and of the running
\* call, which has an inode in it only once searchdir has found one.
FileInv ==
  /\ file = NULL <=> Heading("idle")
  /\ file \notin handles
  /\ \A s \in Slot : files[s].used <=> s \in handles \/ s = file
  /\ \A s \in Slot : files[s].inode # NULL <=>
                       s \in handles \/ (s = file /\ (pc = "found" \/ Heading("chdir")))

IInv == TypeOK /\ ControlInv /\ FileInv /\ RefcountExact

-----------------------------------------------------------------------------
(* Counting pointers. *)

\* How many of the pointers f[t], t in S, point to i.
Count(f, S, i) == Cardinality({t \in S : f[t] = i})

\* The pointers in the file structures, and those of the allocated inodes.
FileTo == [s \in Slot |-> files[s].inode]
UpTo == [j \in Inode |-> IF refcnt[j] > 0 THEN parent[j] ELSE NULL]

\* A count is a number.
LEMMA CountType ==
  ASSUME NEW S, IsFiniteSet(S), NEW f, NEW i
  PROVE  Count(f, S, i) \in Nat
<1>1. {t \in S : f[t] = i} \in SUBSET S
  OBVIOUS
<1>2. QED
  BY <1>1, FS_Subset, FS_CardinalityType DEF Count

\* When one pointer changes, its old target loses one and its new target gains
\* one.
LEMMA CountChange ==
  ASSUME NEW S, IsFiniteSet(S), NEW f, NEW g, NEW s \in S, NEW i,
         \A t \in S \ {s} : g[t] = f[t]
  PROVE  Count(g, S, i) + Points(f[s], i) = Count(f, S, i) + Points(g[s], i)
<1> DEFINE R == {t \in S \ {s} : f[t] = i}
<1>1. IsFiniteSet(R)
  BY FS_Subset, R \in SUBSET S
<1>2. Cardinality(R) \in Nat /\ Cardinality(R \cup {s}) = Cardinality(R) + 1
  <2>1. s \notin R
    OBVIOUS
  <2>2. QED
    BY <1>1, <2>1, FS_AddElement, FS_CardinalityType
<1>3. {t \in S : f[t] = i} = IF f[s] = i THEN R \cup {s} ELSE R
  OBVIOUS
<1>4. {t \in S : g[t] = i} = IF g[s] = i THEN R \cup {s} ELSE R
  OBVIOUS
<1> HIDE DEF R
<1>5. QED
  BY <1>2, <1>3, <1>4 DEF Count, Points

\* Pointers that do not change are counted the same.
LEMMA CountSame ==
  ASSUME NEW S, NEW f, NEW g, NEW i, \A t \in S : g[t] = f[t]
  PROVE  Count(g, S, i) = Count(f, S, i)
<1>1. {t \in S : f[t] = i} = {t \in S : g[t] = i}
  OBVIOUS
<1>2. QED
  BY <1>1 DEF Count

\* A pointer that points to i is counted.
LEMMA CountPositive ==
  ASSUME NEW S, IsFiniteSet(S), NEW f, NEW s \in S, NEW i, f[s] = i
  PROVE  Count(f, S, i) >= 1
<1> DEFINE T == {t \in S : f[t] = i}
<1>1. IsFiniteSet(T)
  BY FS_Subset, T \in SUBSET S
<1>2. T # {}
  OBVIOUS
<1> HIDE DEF T
<1>3. Cardinality(T) \in Nat /\ Cardinality(T) # 0
  BY <1>1, <1>2, FS_EmptySet, FS_CardinalityType
<1>4. QED
  BY <1>3 DEF Count, T

\* The file table and the inodes are finite; NULL is in neither.
LEMMA Finite ==
  /\ IsFiniteSet(Slot) /\ IsFiniteSet(Inode) /\ NULL \notin Slot /\ NULL \notin Inode
  /\ 1 \in Inode
BY VfsAssumption, FS_Interval DEF Slot, Inode, NULL

\* Holders as a sum of counts.
LEMMA HoldersSum ==
  ASSUME TypeOK, NEW i \in Inode
  PROVE  /\ Holders(i) = Count(FileTo, Slot, i) + Count(UpTo, Inode, i)
                       + Points(root, i) + Points(cwd, i) + Points(inode, i) + Points(dying, i)
         /\ Count(FileTo, Slot, i) \in Nat /\ Count(UpTo, Inode, i) \in Nat
<1>1. {s \in Slot : files[s].inode = i} = {s \in Slot : FileTo[s] = i}
  BY DEF FileTo
<1>2. {j \in Live : parent[j] = i} = {j \in Inode : UpTo[j] = i}
  BY Finite DEF UpTo, Live
<1>3. Count(FileTo, Slot, i) \in Nat /\ Count(UpTo, Inode, i) \in Nat
  BY Finite, CountType
<1>4. QED
  BY <1>1, <1>2, <1>3 DEF Holders, Count

\* The same in the next state.
LEMMA HoldersSumNext ==
  ASSUME TypeOK', NEW i \in Inode
  PROVE  /\ Holders(i)' = Count(FileTo', Slot, i) + Count(UpTo', Inode, i)
              + Points(root', i) + Points(cwd', i) + Points(inode', i) + Points(dying', i)
         /\ Count(FileTo', Slot, i) \in Nat /\ Count(UpTo', Inode, i) \in Nat
<1>1. {s \in Slot : files'[s].inode = i} = {s \in Slot : FileTo'[s] = i}
  BY DEF FileTo
<1>2. {j \in Live' : parent'[j] = i} = {j \in Inode : UpTo'[j] = i}
  BY Finite DEF UpTo, Live
<1>3. Count(FileTo', Slot, i) \in Nat /\ Count(UpTo', Inode, i) \in Nat
  BY Finite, CountType
<1>4. QED
  BY <1>1, <1>2, <1>3 DEF Holders, Count

\* Every inode that something points to is allocated.
LEMMA Held ==
  ASSUME IInv
  PROVE  /\ refcnt[root] >= 1
         /\ cwd # NULL => refcnt[cwd] >= 1
         /\ inode # NULL => refcnt[inode] >= 1
         /\ dying # NULL => refcnt[dying] >= 1
         /\ \A s \in Slot : files[s].inode # NULL => refcnt[files[s].inode] >= 1
         /\ \A j \in Inode : refcnt[j] > 0 /\ parent[j] # NULL => refcnt[parent[j]] >= 1
<1>1. TypeOK
  BY DEF IInv
<1>2. \A i \in Inode :
        /\ refcnt[i] = Count(FileTo, Slot, i) + Count(UpTo, Inode, i)
                     + Points(root, i) + Points(cwd, i) + Points(inode, i) + Points(dying, i)
        /\ Count(FileTo, Slot, i) \in Nat /\ Count(UpTo, Inode, i) \in Nat
  BY <1>1, HoldersSum DEF IInv, RefcountExact
<1>3. \A v, i : Points(v, i) \in Nat /\ Points(i, i) = 1
  BY DEF Points
<1>4. /\ root \in Inode /\ (cwd # NULL => cwd \in Inode) /\ (inode # NULL => inode \in Inode)
      /\ (dying # NULL => dying \in Inode)
  BY <1>1 DEF TypeOK
<1>5. refcnt[root] >= 1
  BY <1>2, <1>3, <1>4
<1>6. cwd # NULL => refcnt[cwd] >= 1
  BY <1>2, <1>3, <1>4
<1>7. inode # NULL => refcnt[inode] >= 1
  BY <1>2, <1>3, <1>4
<1>8. dying # NULL => refcnt[dying] >= 1
  BY <1>2, <1>3, <1>4
<1>9. ASSUME NEW s \in Slot, files[s].inode # NULL PROVE refcnt[files[s].inode] >= 1
  <2>1. files[s].inode \in Inode /\ FileTo[s] = files[s].inode
    BY <1>1, <1>9 DEF TypeOK, FileTo
  <2>2. Count(FileTo, Slot, files[s].inode) >= 1
    BY <2>1, Finite, CountPositive
  <2>3. QED
    BY <1>2, <1>3, <2>1, <2>2
<1>10. ASSUME NEW j \in Inode, refcnt[j] > 0, parent[j] # NULL PROVE refcnt[parent[j]] >= 1
  <2>1. parent[j] \in Inode /\ UpTo[j] = parent[j]
    BY <1>1, <1>10 DEF TypeOK, UpTo
  <2>2. Count(UpTo, Inode, parent[j]) >= 1
    BY <2>1, Finite, CountPositive
  <2>3. QED
    BY <1>2, <1>3, <2>1, <2>2
<1>11. QED
  BY <1>5, <1>6, <1>7, <1>8, <1>9, <1>10

\* What a step has to do: the change of every counter is the change of the
\* number of pointers.
BalancedAt(i) ==
  refcnt'[i] - refcnt[i] =
    (Count(FileTo', Slot, i) - Count(FileTo, Slot, i))
    + (Count(UpTo', Inode, i) - Count(UpTo, Inode, i))
    + (Points(root', i) - Points(root, i)) + (Points(cwd', i) - Points(cwd, i))
    + (Points(inode', i) - Points(inode, i)) + (Points(dying', i) - Points(dying, i))

Balanced == \A i \in Inode : BalancedAt(i)

\* Balanced steps keep the counters exact.
LEMMA Balance ==
  ASSUME IInv, TypeOK',
         Balanced
  PROVE  RefcountExact'
<1> SUFFICES ASSUME NEW i \in Inode PROVE refcnt'[i] = Holders(i)'
  BY DEF RefcountExact
<1>1. refcnt[i] = Holders(i) /\ refcnt[i] \in Nat /\ refcnt'[i] \in Nat
  BY DEF IInv, RefcountExact, TypeOK
<1>2. \A v : Points(v, i) \in Nat
  BY DEF Points
<1>3. TypeOK
  BY DEF IInv
<1>4. /\ Holders(i) = Count(FileTo, Slot, i) + Count(UpTo, Inode, i)
           + Points(root, i) + Points(cwd, i) + Points(inode, i) + Points(dying, i)
      /\ Count(FileTo, Slot, i) \in Nat /\ Count(UpTo, Inode, i) \in Nat
  BY <1>3, HoldersSum
<1>5. /\ Holders(i)' = Count(FileTo', Slot, i) + Count(UpTo', Inode, i)
           + Points(root', i) + Points(cwd', i) + Points(inode', i) + Points(dying', i)
      /\ Count(FileTo', Slot, i) \in Nat /\ Count(UpTo', Inode, i) \in Nat
  BY HoldersSumNext
<1>6. QED
  BY <1>1, <1>2, <1>4, <1>5 DEF Balanced, BalancedAt

\* The pointers in the file structures change in one structure at most.
LEMMA FileChange ==
  ASSUME NEW s \in Slot, \A t \in Slot \ {s} : files'[t].inode = files[t].inode, NEW i
  PROVE  Count(FileTo', Slot, i) + Points(files[s].inode, i)
           = Count(FileTo, Slot, i) + Points(files'[s].inode, i)
<1>1. /\ \A t \in Slot \ {s} : FileTo'[t] = FileTo[t]
      /\ FileTo[s] = files[s].inode /\ FileTo'[s] = files'[s].inode
  BY DEF FileTo
<1>2. Count(FileTo', Slot, i) + Points(FileTo[s], i) = Count(FileTo, Slot, i) + Points(FileTo'[s], i)
  BY <1>1, Finite, CountChange
<1>3. QED
  BY <1>1, <1>2

\* No file structure's pointer changes.
LEMMA FileSame ==
  ASSUME \A t \in Slot : files'[t].inode = files[t].inode, NEW i
  PROVE  Count(FileTo', Slot, i) = Count(FileTo, Slot, i)
<1>1. \A t \in Slot : FileTo'[t] = FileTo[t]
  BY DEF FileTo
<1>2. QED
  BY <1>1, CountSame

\* The pointers to parents do not change when counters of allocated inodes go
\* up, or go down to no less than one.
LEMMA UpSame ==
  ASSUME parent' = parent, \A j \in Inode : refcnt'[j] > 0 <=> refcnt[j] > 0, NEW i
  PROVE  Count(UpTo', Inode, i) = Count(UpTo, Inode, i)
<1>1. \A j \in Inode : UpTo'[j] = UpTo[j]
  BY DEF UpTo
<1>2. QED
  BY <1>1, CountSame

\* One more reference to an allocated inode.
LEMMA Bump ==
  ASSUME TypeOK, NEW x \in Inode, refcnt[x] >= 1, refcnt' = [refcnt EXCEPT ![x] = @ + 1],
         parent' = parent, NEW i \in Inode
  PROVE  /\ refcnt' \in [Inode -> Nat]
         /\ refcnt'[i] = refcnt[i] + Points(x, i)
         /\ Count(UpTo', Inode, i) = Count(UpTo, Inode, i)
<1>1. refcnt \in [Inode -> Nat]
  BY DEF TypeOK
<1>2. refcnt' \in [Inode -> Nat] /\ \A j \in Inode : refcnt'[j] > 0 <=> refcnt[j] > 0
  BY <1>1
<1>3. refcnt'[i] = refcnt[i] + Points(x, i)
  BY <1>1 DEF Points
<1>4. QED
  BY <1>2, <1>3, UpSame

\* A pointer counts for at most one inode, and NULL for none.
LEMMA PointsFacts ==
  /\ \A v, i : Points(v, i) \in Nat
  /\ \A i \in Inode : Points(NULL, i) = 0
BY Finite DEF Points

\* Steps that change no pointer and no counter.
LEMMA QuietRefs ==
  ASSUME IInv, TypeOK', UNCHANGED <<refcnt, parent, root, cwd, inode, dying>>,
         \A t \in Slot : files'[t].inode = files[t].inode
  PROVE  RefcountExact'
<1>1. \A i \in Inode : /\ refcnt'[i] - refcnt[i] = 0
                       /\ Count(FileTo', Slot, i) = Count(FileTo, Slot, i)
                       /\ Count(UpTo', Inode, i) = Count(UpTo, Inode, i)
                       /\ Count(FileTo, Slot, i) \in Nat /\ Count(UpTo, Inode, i) \in Nat
  <2>1. TypeOK /\ \A i \in Inode : refcnt[i] \in Nat
    BY DEF IInv, TypeOK
  <2>2. QED
    BY <2>1, FileSame, UpSame, HoldersSum
<1>2. Balanced
  BY <1>1, PointsFacts DEF Balanced, BalancedAt
<1>3. QED
  BY <1>2, Balance

-----------------------------------------------------------------------------
(* The invariant holds at the start and is preserved. *)

\* After fs_init, root and cwd are the two references to the root inode.
LEMMA InitInv == Init => IInv
<1> SUFFICES ASSUME Init PROVE IInv
  OBVIOUS
<1>1. TypeOK
  <2>1. refcnt \in [Inode -> Nat] /\ parent \in [Inode -> Inode \cup {NULL}]
        /\ node \in [Inode -> Node]
    BY VfsAssumption DEF Init
  <2>2. files \in [Slot -> [used : BOOLEAN, inode : Inode \cup {NULL}]]
    BY DEF Init, Closed
  <2>3. links \in 0 .. MAX_SYMLINK_CNT
    BY VfsAssumption DEF Init
  <2>4. QED
    BY <2>1, <2>2, <2>3, Finite DEF Init, TypeOK, Ops
<1>2. ControlInv
  BY Finite, VfsAssumption DEF Init, ControlInv, Heading, Walk
<1>3. FileInv
  BY Finite DEF Init, FileInv, Heading, Closed
<1>4. RefcountExact
  <2> SUFFICES ASSUME NEW i \in Inode PROVE refcnt[i] = Holders(i)
    BY DEF RefcountExact
  <2>1. {s \in Slot : FileTo[s] = i} = {} /\ {j \in Inode : UpTo[j] = i} = {}
    BY Finite DEF Init, FileTo, UpTo, Closed
  <2>2. Count(FileTo, Slot, i) = 0 /\ Count(UpTo, Inode, i) = 0
    BY <2>1, FS_EmptySet DEF Count
  <2>3. /\ Points(root, i) = Points(1, i) /\ Points(cwd, i) = Points(1, i)
        /\ Points(inode, i) = 0 /\ Points(dying, i) = 0
        /\ refcnt[i] = IF i = 1 THEN 2 ELSE 0
    BY PointsFacts DEF Init
  <2>4. Points(1, i) = IF i = 1 THEN 1 ELSE 0
    BY DEF Points
  <2>5. QED
    BY <1>1, <2>2, <2>3, <2>4, HoldersSum
<1>5. QED
  BY <1>1, <1>2, <1>3, <1>4 DEF IInv

\* One round of put_inode: the reference given up is its own, and the one to the
\* parent of a freed inode is the next round's.
LEMMA PutInodeInv == ASSUME IInv, PutInode PROVE IInv'
<1>1. /\ pc = "put" /\ dying \in Inode /\ refcnt[dying] >= 1
      /\ refcnt' = [refcnt EXCEPT ![dying] = @ - 1]
      /\ UNCHANGED <<root, cwd, files, handles, pc, op, file, inode, path, links, cont>>
  BY Held DEF PutInode, IInv, TypeOK
<1>2. /\ refcnt \in [Inode -> Nat] /\ parent \in [Inode -> Inode \cup {NULL}]
      /\ node \in [Inode -> Node] /\ TypeOK
  BY DEF IInv, TypeOK
<1>3. refcnt' \in [Inode -> Nat] /\ \A i \in Inode : refcnt'[i] = refcnt[i] - Points(dying, i)
  BY <1>1, <1>2 DEF Points
<1>4. /\ dying' \in Inode \cup {NULL} /\ parent' \in [Inode -> Inode \cup {NULL}]
      /\ node' \in [Inode -> Node]
  BY <1>1, <1>2, VfsAssumption DEF PutInode
<1>5. TypeOK'
  BY <1>1, <1>2, <1>3, <1>4 DEF TypeOK
<1>6. ControlInv' /\ FileInv'
  <2>1. FileInv'
    BY <1>1 DEF IInv, FileInv, Heading
  <2>2. ControlInv'
    BY <1>1 DEF IInv, ControlInv, Heading, Walk
  <2>3. QED
    BY <2>1, <2>2
<1>7. \A i \in Inode : /\ Count(FileTo', Slot, i) = Count(FileTo, Slot, i)
                       /\ Count(FileTo, Slot, i) \in Nat /\ Count(UpTo, Inode, i) \in Nat
                       /\ refcnt[i] = Count(FileTo, Slot, i) + Count(UpTo, Inode, i)
                            + Points(root, i) + Points(cwd, i) + Points(inode, i) + Points(dying, i)
  BY <1>1, <1>2, FileSame, HoldersSum DEF IInv, RefcountExact
<1>8. \A i \in Inode : Count(UpTo', Inode, i) + Points(dying', i) = Count(UpTo, Inode, i)
  <2>1. CASE refcnt[dying] # 1
    <3>1. parent' = parent /\ dying' = NULL /\ \A j \in Inode : refcnt'[j] > 0 <=> refcnt[j] > 0
      BY <1>1, <1>2, <2>1 DEF PutInode
    <3>2. QED
      BY <1>7, <3>1, UpSame, PointsFacts
  <2>2. CASE refcnt[dying] = 1
    <3>1. dying' = parent[dying] /\ parent' = [parent EXCEPT ![dying] = NULL]
      BY <2>2 DEF PutInode
    <3>2. /\ \A j \in Inode \ {dying} : UpTo'[j] = UpTo[j]
          /\ UpTo[dying] = parent[dying] /\ UpTo'[dying] = NULL
      BY <1>1, <1>2, <2>2, <3>1 DEF UpTo
    <3>3. ASSUME NEW i \in Inode
          PROVE  Count(UpTo', Inode, i) + Points(UpTo[dying], i) = Count(UpTo, Inode, i) + Points(UpTo'[dying], i)
      BY <1>1, <3>2, Finite, CountChange
    <3>4. QED
      BY <1>7, <3>1, <3>2, <3>3, PointsFacts
  <2>3. QED
    BY <2>1, <2>2
<1>9. \A i \in Inode : Count(UpTo', Inode, i) \in Nat
  BY Finite, CountType
<1>10. Balanced
  <2>1. \A i \in Inode : refcnt[i] \in Nat
    BY <1>2
  <2>2. QED
    BY <1>1, <1>3, <1>7, <1>8, <1>9, <2>1, PointsFacts DEF Balanced, BalancedAt
<1>11. QED
  BY <1>5, <1>6, <1>10, Balance DEF IInv

\* put_inode returns to its caller.
LEMMA PutDoneInv == ASSUME IInv, PutDone PROVE IInv'
<1>1. /\ pc = "put" /\ dying = NULL
      /\ UNCHANGED <<refcnt, parent, node, root, cwd, files, handles, inode, dying>>
  BY DEF PutDone
<1>2. CASE cont = "idle"
  <2>1. /\ pc' = "idle" /\ cont' = "idle" /\ op' = "none" /\ file' = NULL
        /\ links' = MAX_SYMLINK_CNT
    BY <1>2 DEF PutDone, Returned
  <2>2. TypeOK'
    BY <1>1, <2>1, VfsAssumption DEF IInv, TypeOK, Ops
  <2>3. ControlInv'
    BY <1>1, <1>2, <2>1 DEF IInv, ControlInv, Heading, Walk
  <2>4. FileInv'
    <3>1. file = NULL
      BY <1>1, <1>2 DEF IInv, FileInv, Heading
    <3>2. QED
      BY <1>1, <1>2, <2>1, <3>1 DEF IInv, FileInv, Heading
  <2>5. QED
    BY <1>1, <2>2, <2>3, <2>4, QuietRefs DEF IInv
<1>3. CASE cont # "idle"
  <2>1. pc' = cont /\ cont' = "idle" /\ UNCHANGED <<op, file, path, links>>
    BY <1>3 DEF PutDone
  <2>2. cont \in {"walk", "fail", "chdir"}
    BY <1>3 DEF IInv, ControlInv
  <2>3. TypeOK'
    BY <1>1, <2>1, <2>2 DEF IInv, TypeOK
  <2>4. ControlInv'
    BY <1>1, <2>1, <2>2 DEF IInv, ControlInv, Heading, Walk
  <2>5. FileInv'
    BY <1>1, <2>1, <2>2 DEF IInv, FileInv, Heading
  <2>6. QED
    BY <1>1, <2>3, <2>4, <2>5, QuietRefs DEF IInv
<1>4. QED
  BY <1>2, <1>3

\* A call that could not get a file structure, and steps that do nothing.
LEMMA StutterInv == ASSUME IInv, UNCHANGED vars PROVE IInv'
<1>1. TypeOK' /\ ControlInv' /\ FileInv'
  <2>1. TypeOK'
    BY DEF IInv, TypeOK, vars
  <2>2. ControlInv'
    BY DEF IInv, ControlInv, Heading, Walk, vars
  <2>3. FileInv'
    BY DEF IInv, FileInv, Heading, vars
  <2>4. QED
    BY <2>1, <2>2, <2>3
<1>2. QED
  BY <1>1, QuietRefs DEF IInv, vars

\* The file structure that alloc_file finds.
LEMMA FreeSlot ==
  ASSUME TypeOK, FreeSlots # {}
  PROVE  /\ (CHOOSE s \in FreeSlots : \A t \in FreeSlots : s <= t) \in Slot
         /\ ~ files[CHOOSE s \in FreeSlots : \A t \in FreeSlots : s <= t].used
<1>1. FreeSlots \subseteq Nat
  BY VfsAssumption DEF FreeSlots, Slot
<1>2. \E s \in FreeSlots : \A t \in FreeSlots : s <= t
  <2>1. \E s \in FreeSlots : \A t \in FreeSlots : ~ (<<t, s>> \in OpToRel(<, Nat))
    BY <1>1, NatLessThanWellFounded, WFMin
  <2>2. PICK s \in FreeSlots : \A t \in FreeSlots : ~ (<<t, s>> \in OpToRel(<, Nat))
    BY <2>1
  <2>3. \A t \in FreeSlots : ~ (t < s)
    BY <1>1, <2>2 DEF OpToRel
  <2>4. QED
    BY <1>1, <2>3
<1>3. (CHOOSE s \in FreeSlots : \A t \in FreeSlots : s <= t) \in FreeSlots
  BY <1>2
<1>4. QED
  BY <1>3 DEF FreeSlots

\* The numbers that Balanced is about.
LEMMA Counts ==
  ASSUME TypeOK
  PROVE  \A i \in Inode : /\ refcnt[i] \in Nat
                          /\ Count(FileTo, Slot, i) \in Nat /\ Count(UpTo, Inode, i) \in Nat
BY HoldersSum DEF TypeOK

\* A walk goes on at inode x, which got a reference first, while put_inode
\* releases the inode it comes from.
LEMMA MoveInv ==
  ASSUME IInv, pc \in {"walk", "entry"}, NEW x \in Inode, refcnt[x] >= 1,
         refcnt' = [refcnt EXCEPT ![x] = @ + 1], dying' = inode, inode' = x,
         pc' = "put", cont' = "walk", links' \in 1 .. MAX_SYMLINK_CNT,
         UNCHANGED <<parent, node, root, cwd, files, handles, op, file>>
  PROVE  IInv'
<1>1. /\ TypeOK /\ dying = NULL /\ inode \in Inode
  BY DEF IInv, TypeOK, ControlInv, Walk, Heading
<1>2. /\ refcnt' \in [Inode -> Nat]
      /\ \A i \in Inode : /\ refcnt'[i] = refcnt[i] + Points(x, i)
                          /\ Count(UpTo', Inode, i) = Count(UpTo, Inode, i)
  BY <1>1, Bump
<1>3. TypeOK'
  BY <1>1, <1>2, VfsAssumption DEF TypeOK
<1>4. ControlInv'
  BY Finite DEF IInv, ControlInv, Heading, Walk
<1>5. FileInv'
  BY DEF IInv, FileInv, Heading
<1>6. Balanced
  <2>1. \A i \in Inode : Count(FileTo', Slot, i) = Count(FileTo, Slot, i)
    BY FileSame
  <2>2. \A i \in Inode : Points(dying, i) = 0
    BY <1>1, PointsFacts
  <2>3. ASSUME NEW i \in Inode PROVE BalancedAt(i)
    <3>1. /\ refcnt[i] \in Nat /\ Count(FileTo, Slot, i) \in Nat /\ Count(UpTo, Inode, i) \in Nat
          /\ Points(root, i) \in Nat /\ Points(cwd, i) \in Nat /\ Points(inode, i) \in Nat
          /\ Points(x, i) \in Nat
      BY <1>1, Counts, PointsFacts
    <3>2. QED
      BY <1>2, <2>1, <2>2, <3>1 DEF BalancedAt
  <2>4. QED
    BY <2>3 DEF Balanced
<1>7. QED
  BY <1>3, <1>4, <1>5, <1>6, Balance DEF IInv

\* "/", ".." and a symbolic link.
LEMMA MovesInv ==
  ASSUME IInv, RootComponent \/ ParentComponent \/ FollowLink
  PROVE  IInv'
<1>1. pc \in {"walk", "entry"} /\ inode \in Inode /\ refcnt[inode] >= 1 /\ root \in Inode
      /\ links \in 1 .. MAX_SYMLINK_CNT
  <2>1. pc \in {"walk", "entry"}
    BY DEF RootComponent, ParentComponent, FollowLink, Component
  <2>2. inode # NULL /\ links >= 1
    BY <2>1 DEF IInv, ControlInv, Walk, Heading
  <2>3. inode \in Inode /\ root \in Inode /\ links \in 0 .. MAX_SYMLINK_CNT
    BY <2>2 DEF IInv, TypeOK
  <2>4. QED
    BY <2>1, <2>2, <2>3, Held, VfsAssumption
<1>2. CASE RootComponent
  <2>1. /\ refcnt' = [refcnt EXCEPT ![root] = @ + 1] /\ dying' = inode /\ inode' = root
        /\ pc' = "put" /\ cont' = "walk" /\ links' = links
        /\ UNCHANGED <<parent, node, root, cwd, files, handles, op, file>>
    BY <1>2 DEF RootComponent, Put
  <2>2. QED
    BY <1>1, <2>1, Held, MoveInv
<1>3. CASE ParentComponent \/ FollowLink
  <2>1. parent[inode] \in Inode /\ refcnt[parent[inode]] >= 1
    <3>1. parent[inode] # NULL
      BY <1>3 DEF ParentComponent, FollowLink, IInv, ControlInv
    <3>2. parent[inode] \in Inode
      BY <1>1, <3>1 DEF IInv, TypeOK
    <3>3. refcnt[inode] > 0
      BY <1>1 DEF IInv, TypeOK
    <3>4. QED
      BY <1>1, <3>1, <3>2, <3>3, Held
  <2>2. /\ refcnt' = [refcnt EXCEPT ![parent[inode]] = @ + 1] /\ dying' = inode
        /\ inode' = parent[inode] /\ pc' = "put" /\ cont' = "walk"
        /\ UNCHANGED <<parent, node, root, cwd, files, handles, op, file>>
    BY <1>3 DEF ParentComponent, FollowLink, Put
  <2>3. links' \in 1 .. MAX_SYMLINK_CNT
    <3>1. links' = links \/ (links > 1 /\ links' = links - 1)
      BY <1>3 DEF ParentComponent, FollowLink
    <3>2. QED
      BY <1>1, <3>1, VfsAssumption
  <2>4. QED
    BY <1>1, <2>1, <2>2, <2>3, MoveInv
<1>4. QED
  BY <1>2, <1>3

\* Steps of the walk that only shorten the path.
LEMMA WalkOnInv ==
  ASSUME IInv, DotComponent \/ RootParentComponent \/ EntryGood
  PROVE  IInv'
<1>1. /\ pc \in {"walk", "entry"} /\ pc' = "walk"
      /\ UNCHANGED <<refcnt, parent, node, root, cwd, files, handles, op, file, inode, links,
                     dying, cont>>
  BY DEF DotComponent, RootParentComponent, EntryGood, Component
<1>2. TypeOK'
  BY <1>1 DEF IInv, TypeOK
<1>3. ControlInv'
  BY <1>1 DEF IInv, ControlInv, Heading, Walk
<1>4. FileInv'
  BY <1>1 DEF IInv, FileInv, Heading
<1>5. QED
  BY <1>1, <1>2, <1>3, <1>4, QuietRefs DEF IInv

\* A lookup that fails releases the inode it has come to.
LEMMA GiveUpInv == ASSUME IInv, IgetFails \/ EntryFails PROVE IInv'
<1>1. /\ pc \in {"walk", "entry"} /\ pc' = "put" /\ cont' = "fail" /\ dying' = inode /\ inode' = NULL
      /\ UNCHANGED <<refcnt, parent, node, root, cwd, files, handles, op, file>>
      /\ links' \in {links, links - 1}
  BY DEF IgetFails, EntryFails, Put, Named
<1>2. TypeOK /\ dying = NULL /\ inode \in Inode /\ links >= 1 /\ links \in 0 .. MAX_SYMLINK_CNT
  BY <1>1 DEF IInv, TypeOK, ControlInv, Walk, Heading
<1>3. TypeOK'
  <2>1. links' \in 0 .. MAX_SYMLINK_CNT
    BY <1>1, <1>2, VfsAssumption
  <2>2. QED
    BY <1>1, <1>2, <2>1 DEF TypeOK
<1>4. ControlInv'
  BY <1>1 DEF IInv, ControlInv, Heading, Walk
<1>5. FileInv'
  BY <1>1 DEF IInv, FileInv, Heading
<1>6. Balanced
  <2>1. \A i \in Inode : /\ Count(FileTo', Slot, i) = Count(FileTo, Slot, i)
                         /\ Count(UpTo', Inode, i) = Count(UpTo, Inode, i)
    BY <1>1, FileSame, UpSame
  <2>2. \A i \in Inode : Points(dying, i) = 0 /\ Points(inode', i) = 0
    BY <1>1, <1>2, PointsFacts
  <2>3. ASSUME NEW i \in Inode PROVE BalancedAt(i)
    <3>1. /\ refcnt[i] \in Nat /\ Count(FileTo, Slot, i) \in Nat /\ Count(UpTo, Inode, i) \in Nat
          /\ Points(root, i) \in Nat /\ Points(cwd, i) \in Nat /\ Points(inode, i) \in Nat
      BY <1>2, Counts, PointsFacts
    <3>2. QED
      BY <1>1, <2>1, <2>2, <3>1 DEF BalancedAt
  <2>4. QED
    BY <2>3 DEF Balanced
<1>7. QED
  BY <1>3, <1>4, <1>5, <1>6, Balance DEF IInv

\* A fresh inode takes over the reference to the directory.
LEMMA IgetInv == ASSUME IInv, NEW x \in Inode, Iget(x) PROVE IInv'
<1>1. /\ pc = "walk" /\ pc' = "entry" /\ refcnt[x] = 0 /\ inode' = x
      /\ refcnt' = [refcnt EXCEPT ![x] = 1] /\ parent' = [parent EXCEPT ![x] = inode]
      /\ node' = [node EXCEPT ![x] = Entries[node[inode]][Head(path)]] /\ Exists
      /\ UNCHANGED <<root, cwd, files, handles, op, file, links, dying, cont>>
  BY DEF Iget, Named, FreeInodes
<1>2. /\ TypeOK /\ inode \in Inode /\ refcnt[inode] >= 1 /\ refcnt \in [Inode -> Nat]
      /\ parent \in [Inode -> Inode \cup {NULL}] /\ node \in [Inode -> Node]
  BY <1>1, Held DEF IInv, TypeOK, ControlInv, Walk, Heading
<1>3. x # inode
  BY <1>1, <1>2
<1>4. TypeOK'
  <2>1. Entries[node[inode]][Head(path)] \in Node
    BY <1>1, <1>2, VfsAssumption DEF Exists
  <2>2. refcnt' \in [Inode -> Nat] /\ parent' \in [Inode -> Inode \cup {NULL}]
        /\ node' \in [Inode -> Node]
    BY <1>1, <1>2, <2>1
  <2>3. QED
    BY <1>1, <1>2, <2>2 DEF TypeOK
<1>5. ControlInv'
  <2>1. parent'[x] = inode /\ inode # NULL /\ x # NULL
    BY <1>1, <1>2, Finite
  <2>2. QED
    BY <1>1, <2>1 DEF IInv, ControlInv, Heading, Walk
<1>6. FileInv'
  BY <1>1 DEF IInv, FileInv, Heading
<1>7. Balanced
  <2>1. /\ \A j \in Inode \ {x} : UpTo'[j] = UpTo[j]
        /\ UpTo[x] = NULL /\ UpTo'[x] = inode
    BY <1>1, <1>2 DEF UpTo
  <2>2. ASSUME NEW i \in Inode
        PROVE  Count(UpTo', Inode, i) + Points(UpTo[x], i) = Count(UpTo, Inode, i) + Points(UpTo'[x], i)
    BY <2>1, Finite, CountChange
  <2>3. \A i \in Inode : /\ Count(UpTo', Inode, i) = Count(UpTo, Inode, i) + Points(inode, i)
                         /\ Count(UpTo', Inode, i) \in Nat
    BY <1>2, <2>1, <2>2, Counts, PointsFacts, Finite, CountType
  <2>4. \A i \in Inode : Count(FileTo', Slot, i) = Count(FileTo, Slot, i)
    BY <1>1, FileSame
  <2>5. \A i \in Inode : refcnt'[i] = refcnt[i] + Points(x, i)
    BY <1>1, <1>2 DEF Points
  <2>6. QED
    BY <1>1, <1>2, <2>3, <2>4, <2>5, Counts, PointsFacts DEF Balanced, BalancedAt
<1>8. QED
  BY <1>4, <1>5, <1>6, <1>7, Balance DEF IInv

\* searchdir starts, with or without the memory for its copy of the path.
LEMMA SearchInv ==
  ASSUME IInv, NEW o \in Ops, NEW p, Search(o, p) \/ SearchNoMemory(o, p)
  PROVE  IInv'
<1> DEFINE f == CHOOSE s \in FreeSlots : \A t \in FreeSlots : s <= t
<1>1. /\ pc = "idle" /\ file' = f /\ f \in Slot /\ ~ files[f].used
      /\ files' = [files EXCEPT ![f].used = TRUE] /\ op' = o /\ links' = MAX_SYMLINK_CNT
      /\ UNCHANGED <<parent, node, root, cwd, handles, dying, cont>>
  BY FreeSlot DEF Search, SearchNoMemory, IInv
<1> HIDE DEF f
<1>2. TypeOK /\ dying = NULL /\ inode = NULL /\ file = NULL /\ cwd \in Inode /\ refcnt[cwd] >= 1
  BY <1>1, Held DEF IInv, TypeOK, ControlInv, FileInv, Walk, Heading
<1>3. /\ files' \in [Slot -> [used : BOOLEAN, inode : Inode \cup {NULL}]]
      /\ files'[f].used
      /\ \A s \in Slot : files'[s].inode = files[s].inode
      /\ \A s \in Slot \ {f} : files'[s].used = files[s].used
  BY <1>1, <1>2 DEF TypeOK
<1>4. f \notin handles /\ f # NULL /\ files[f].inode = NULL
  BY <1>1, <1>2, Finite DEF IInv, FileInv
<1>5. FileInv'
  <2>1. pc' \in {"walk", "fail"}
    BY DEF Search, SearchNoMemory
  <2>2. \A s \in Slot : files'[s].used <=> s \in handles \/ s = f
    BY <1>2, <1>3, <1>4, Finite DEF IInv, FileInv
  <2>3. \A s \in Slot : files'[s].inode # NULL <=> s \in handles
    BY <1>1, <1>2, <1>3, Finite DEF IInv, FileInv
  <2>4. QED
    BY <1>1, <1>4, <2>1, <2>2, <2>3 DEF FileInv, Heading
<1>6. CASE Search(o, p)
  <2>1. refcnt' = [refcnt EXCEPT ![cwd] = @ + 1] /\ inode' = cwd /\ pc' = "walk"
    BY <1>6 DEF Search
  <2>2. /\ refcnt' \in [Inode -> Nat]
        /\ \A i \in Inode : /\ refcnt'[i] = refcnt[i] + Points(cwd, i)
                            /\ Count(UpTo', Inode, i) = Count(UpTo, Inode, i)
    BY <1>1, <1>2, <2>1, Bump
  <2>3. TypeOK'
    BY <1>1, <1>2, <1>3, <2>1, <2>2, VfsAssumption DEF TypeOK
  <2>4. ControlInv'
    BY <1>1, <1>2, <2>1, Finite, VfsAssumption DEF IInv, ControlInv, Heading, Walk
  <2>5. Balanced
    <3>1. ASSUME NEW i \in Inode PROVE BalancedAt(i)
      <4>1. /\ refcnt[i] \in Nat /\ Count(FileTo, Slot, i) \in Nat /\ Count(UpTo, Inode, i) \in Nat
            /\ Points(root, i) \in Nat /\ Points(cwd, i) \in Nat /\ Points(inode, i) = 0
            /\ Points(dying, i) = 0
        BY <1>2, Counts, PointsFacts
      <4>2. Count(FileTo', Slot, i) = Count(FileTo, Slot, i)
        BY <1>3, FileSame
      <4>3. QED
        BY <1>1, <2>1, <2>2, <4>1, <4>2 DEF BalancedAt
    <3>2. QED
      BY <3>1 DEF Balanced
  <2>6. QED
    BY <1>5, <2>3, <2>4, <2>5, Balance DEF IInv
<1>7. CASE SearchNoMemory(o, p)
  <2>1. refcnt' = refcnt /\ inode' = inode /\ pc' = "fail"
    BY <1>7 DEF SearchNoMemory
  <2>2. TypeOK'
    BY <1>1, <1>2, <1>3, <2>1, VfsAssumption DEF TypeOK
  <2>3. ControlInv'
    BY <1>1, <1>2, <2>1 DEF IInv, ControlInv, Heading, Walk
  <2>4. QED
    BY <1>1, <1>3, <1>5, <2>1, <2>2, <2>3, QuietRefs DEF IInv
<1>8. QED
  BY <1>6, <1>7

\* The lookup has failed: the file structure, which has no inode, is given back.
LEMMA FailInv == ASSUME IInv, Fail PROVE IInv'
<1>1. /\ pc = "fail" /\ files' = [files EXCEPT ![file] = Closed]
      /\ pc' = "idle" /\ cont' = "idle" /\ op' = "none" /\ file' = NULL /\ links' = MAX_SYMLINK_CNT
      /\ UNCHANGED <<refcnt, parent, node, root, cwd, handles, inode, dying>>
  BY DEF Fail, Returned
<1>2. file \in Slot /\ file \notin handles /\ files[file].inode = NULL
  BY <1>1 DEF IInv, TypeOK, FileInv, Heading
<1>3. /\ files' \in [Slot -> [used : BOOLEAN, inode : Inode \cup {NULL}]]
      /\ \A s \in Slot : files'[s].inode = files[s].inode
      /\ ~ files'[file].used /\ \A s \in Slot \ {file} : files'[s].used = files[s].used
  BY <1>1, <1>2 DEF IInv, TypeOK, Closed
<1>4. TypeOK'
  BY <1>1, <1>3, VfsAssumption DEF IInv, TypeOK, Ops
<1>5. ControlInv'
  BY <1>1 DEF IInv, ControlInv, Heading, Walk
<1>6. FileInv'
  <2>1. \A s \in Slot : files'[s].used <=> s \in handles
    BY <1>2, <1>3 DEF IInv, FileInv
  <2>2. \A s \in Slot : files'[s].inode # NULL <=> s \in handles
    BY <1>1, <1>2, <1>3 DEF IInv, FileInv, Heading
  <2>3. NULL \notin handles
    BY Finite DEF IInv, TypeOK
  <2>4. QED
    BY <1>1, <2>1, <2>2, <2>3, Finite DEF FileInv, Heading
<1>7. QED
  BY <1>1, <1>3, <1>4, <1>5, <1>6, QuietRefs DEF IInv

\* searchdir hands the inode to the file structure.
LEMMA FoundInv == ASSUME IInv, Found PROVE IInv'
<1>1. /\ pc = "walk" /\ files' = [files EXCEPT ![file].inode = inode] /\ inode' = NULL /\ pc' = "found"
      /\ UNCHANGED <<refcnt, parent, node, root, cwd, handles, op, file, links, dying, cont>>
  BY DEF Found
<1>2. /\ TypeOK /\ file \in Slot /\ file \notin handles /\ files[file].inode = NULL /\ inode \in Inode
      /\ dying = NULL
  BY <1>1 DEF IInv, TypeOK, FileInv, ControlInv, Walk, Heading
<1>3. /\ files' \in [Slot -> [used : BOOLEAN, inode : Inode \cup {NULL}]]
      /\ \A s \in Slot \ {file} : files'[s].inode = files[s].inode
      /\ files'[file].inode = inode
      /\ \A s \in Slot : files'[s].used = files[s].used
  BY <1>1, <1>2 DEF TypeOK
<1>4. TypeOK'
  BY <1>1, <1>2, <1>3 DEF TypeOK
<1>5. ControlInv'
  BY <1>1 DEF IInv, ControlInv, Heading, Walk
<1>6. FileInv'
  <2>1. \A s \in Slot : files'[s].inode # NULL <=> s \in handles \/ s = file
    BY <1>1, <1>2, <1>3, Finite DEF IInv, FileInv, Heading
  <2>2. \A s \in Slot : files'[s].used <=> s \in handles \/ s = file
    BY <1>3 DEF IInv, FileInv
  <2>3. QED
    BY <1>1, <1>2, <2>1, <2>2, Finite DEF FileInv, Heading
<1>7. Balanced
  <2>1. ASSUME NEW i \in Inode PROVE BalancedAt(i)
    <3>1. /\ refcnt[i] \in Nat /\ Count(FileTo, Slot, i) \in Nat /\ Count(UpTo, Inode, i) \in Nat
          /\ Points(root, i) \in Nat /\ Points(cwd, i) \in Nat /\ Points(inode, i) \in Nat
          /\ Points(dying, i) = 0 /\ Points(NULL, i) = 0
      BY <1>2, Counts, PointsFacts
    <3>2. Count(FileTo', Slot, i) + Points(files[file].inode, i)
            = Count(FileTo, Slot, i) + Points(files'[file].inode, i)
      BY <1>2, <1>3, FileChange
    <3>3. Count(UpTo', Inode, i) = Count(UpTo, Inode, i)
      BY <1>1, UpSame
    <3>4. Count(FileTo', Slot, i) \in Nat
      BY Finite, CountType
    <3>5. Count(FileTo', Slot, i) = Count(FileTo, Slot, i) + Points(inode, i)
      BY <1>2, <1>3, <3>1, <3>2, <3>4
    <3>6. QED
      BY <1>1, <1>2, <3>1, <3>3, <3>5 DEF BalancedAt
  <2>2. QED
    BY <2>1 DEF Balanced
<1>8. QED
  BY <1>4, <1>5, <1>6, <1>7, Balance DEF IInv

\* The caller gets a handle.
LEMMA DeliverInv == ASSUME IInv, Deliver PROVE IInv'
<1>1. /\ pc = "found" /\ handles' = handles \cup {file}
      /\ pc' = "idle" /\ cont' = "idle" /\ op' = "none" /\ file' = NULL /\ links' = MAX_SYMLINK_CNT
      /\ UNCHANGED <<refcnt, parent, node, root, cwd, files, inode, dying>>
  BY DEF Deliver, Returned
<1>2. file \in Slot
  BY <1>1 DEF IInv, TypeOK, FileInv, Heading
<1>3. TypeOK'
  BY <1>1, <1>2, VfsAssumption DEF IInv, TypeOK, Ops
<1>4. ControlInv'
  BY <1>1 DEF IInv, ControlInv, Heading, Walk
<1>5. FileInv'
  <2>1. NULL \notin handles'
    BY <1>3, Finite DEF TypeOK
  <2>2. QED
    BY <1>1, <1>2, <2>1, Finite DEF IInv, FileInv, Heading
<1>6. QED
  BY <1>1, <1>3, <1>4, <1>5, QuietRefs DEF IInv

\* _close_file: the structure s is closed and its inode goes to put_inode,
\* after which the call returns.
LEMMA CloseInv ==
  ASSUME IInv, NEW s \in Slot, files[s].inode # NULL, pc \in {"idle", "found"},
         s \in handles \/ s = file,
         files' = [files EXCEPT ![s] = Closed], handles' = handles \ {s}, file' = NULL,
         file = s \/ file = NULL,
         pc' = "put", dying' = files[s].inode, cont' = "idle",
         UNCHANGED <<refcnt, parent, node, root, cwd, op, inode, links>>
  PROVE  IInv'
<1>1. /\ TypeOK /\ dying = NULL /\ inode = NULL
      /\ files[s].inode \in Inode /\ file' = NULL
  BY DEF IInv, TypeOK, ControlInv, Walk, Heading
<1>2. /\ files' \in [Slot -> [used : BOOLEAN, inode : Inode \cup {NULL}]]
      /\ \A t \in Slot \ {s} : files'[t] = files[t]
      /\ ~ files'[s].used /\ files'[s].inode = NULL
  BY <1>1 DEF TypeOK, Closed
<1>3. TypeOK'
  BY <1>1, <1>2 DEF TypeOK
<1>4. ControlInv'
  BY <1>1 DEF IInv, ControlInv, Heading, Walk
<1>5. FileInv'
  <2>1. NULL \notin handles
    BY <1>1, Finite DEF TypeOK
  <2>2. \A t \in Slot : files'[t].used <=> t \in handles \ {s}
    BY <1>2, Finite DEF IInv, FileInv
  <2>3. \A t \in Slot : files'[t].inode # NULL <=> t \in handles \ {s}
    BY <1>2, Finite DEF IInv, FileInv
  <2>4. QED
    BY <1>2, <2>1, <2>2, <2>3, Finite DEF FileInv, Heading
<1>6. Balanced
  <2>1. ASSUME NEW i \in Inode PROVE BalancedAt(i)
    <3>1. /\ refcnt[i] \in Nat /\ Count(FileTo, Slot, i) \in Nat /\ Count(UpTo, Inode, i) \in Nat
          /\ Points(root, i) \in Nat /\ Points(cwd, i) \in Nat /\ Points(inode, i) = 0
          /\ Points(dying, i) = 0 /\ Points(NULL, i) = 0 /\ Points(files[s].inode, i) \in Nat
      BY <1>1, Counts, PointsFacts
    <3>2. Count(FileTo', Slot, i) + Points(files[s].inode, i)
            = Count(FileTo, Slot, i) + Points(files'[s].inode, i)
      BY <1>2, FileChange
    <3>3. Count(UpTo', Inode, i) = Count(UpTo, Inode, i)
      BY UpSame
    <3>4. Count(FileTo', Slot, i) \in Nat
      BY Finite, CountType
    <3>5. Count(FileTo, Slot, i) = Count(FileTo', Slot, i) + Points(dying', i)
      BY <1>1, <1>2, <3>1, <3>2, <3>4
    <3>6. Points(dying', i) \in Nat
      BY PointsFacts
    <3>7. QED
      BY <3>1, <3>3, <3>4, <3>5, <3>6 DEF BalancedAt
  <2>2. QED
    BY <2>1 DEF Balanced
<1>7. QED
  BY <1>3, <1>4, <1>5, <1>6, Balance DEF IInv

\* A refused file, realpath's, and one that the caller closes.
LEMMA ClosesInv == ASSUME IInv, Drop \/ \E h \in Slot : Close(h) PROVE IInv'
<1>1. CASE Drop
  <2>1. /\ pc = "found" /\ files' = [files EXCEPT ![file] = Closed] /\ file' = NULL
        /\ pc' = "put" /\ dying' = files[file].inode /\ cont' = "idle" /\ handles' = handles
        /\ UNCHANGED <<refcnt, parent, node, root, cwd, op, inode, links>>
    BY <1>1 DEF Drop, Put
  <2>2. file \in Slot /\ files[file].inode # NULL /\ handles' = handles \ {file}
    BY <2>1 DEF IInv, TypeOK, FileInv, Heading
  <2>3. QED
    BY <2>1, <2>2, CloseInv
<1>2. ASSUME NEW h \in Slot, Close(h) PROVE IInv'
  <2>1. /\ pc = "idle" /\ h \in handles /\ files' = [files EXCEPT ![h] = Closed] /\ file' = file
        /\ pc' = "put" /\ dying' = files[h].inode /\ cont' = "idle" /\ handles' = handles \ {h}
        /\ UNCHANGED <<refcnt, parent, node, root, cwd, op, inode, links>>
    BY <1>2 DEF Close, Put
  <2>2. files[h].inode # NULL /\ file = NULL
    BY <2>1 DEF IInv, FileInv, Heading
  <2>3. QED
    BY <2>1, <2>2, CloseInv
<1>3. QED
  BY <1>1, <1>2

\* chdir releases the old directory.
LEMMA ChdirInv == ASSUME IInv, Chdir PROVE IInv'
<1>1. /\ pc = "found" /\ pc' = "put" /\ dying' = cwd /\ cont' = "chdir" /\ cwd' = NULL
      /\ UNCHANGED <<refcnt, parent, node, root, files, handles, op, file, inode, links>>
  BY DEF Chdir, Put
<1>2. TypeOK /\ dying = NULL /\ inode = NULL /\ cwd \in Inode /\ file # NULL
  BY <1>1 DEF IInv, TypeOK, ControlInv, FileInv, Walk, Heading
<1>3. TypeOK'
  BY <1>1, <1>2 DEF TypeOK
<1>4. ControlInv'
  BY <1>1, <1>2 DEF IInv, ControlInv, Heading, Walk
<1>5. FileInv'
  BY <1>1, <1>2 DEF IInv, FileInv, Heading
<1>6. Balanced
  <2>1. ASSUME NEW i \in Inode PROVE BalancedAt(i)
    <3>1. /\ refcnt[i] \in Nat /\ Count(FileTo, Slot, i) \in Nat /\ Count(UpTo, Inode, i) \in Nat
          /\ Points(root, i) \in Nat /\ Points(cwd, i) \in Nat /\ Points(inode, i) = 0
          /\ Points(dying, i) = 0 /\ Points(NULL, i) = 0
      BY <1>2, Counts, PointsFacts
    <3>2. /\ Count(FileTo', Slot, i) = Count(FileTo, Slot, i)
          /\ Count(UpTo', Inode, i) = Count(UpTo, Inode, i)
      BY <1>1, FileSame, UpSame
    <3>3. QED
      BY <1>1, <1>2, <3>1, <3>2 DEF BalancedAt
  <2>2. QED
    BY <2>1 DEF Balanced
<1>7. QED
  BY <1>3, <1>4, <1>5, <1>6, Balance DEF IInv

\* chdir takes the new directory and closes the file.
LEMMA ChdirEndsInv == ASSUME IInv, ChdirEnds PROVE IInv'
<1> DEFINE x == files[file].inode
<1>1. /\ pc = "chdir" /\ cwd' = x /\ refcnt' = [refcnt EXCEPT ![x] = @ + 1]
      /\ pc' = "put" /\ dying' = x /\ cont' = "idle"
      /\ files' = [files EXCEPT ![file] = Closed] /\ file' = NULL
      /\ UNCHANGED <<parent, node, root, handles, op, inode, links>>
  BY DEF ChdirEnds, Put
<1>2. /\ TypeOK /\ dying = NULL /\ inode = NULL /\ cwd = NULL /\ file \in Slot /\ file \notin handles
      /\ x \in Inode
  BY <1>1 DEF IInv, TypeOK, ControlInv, FileInv, Walk, Heading
<1>3. refcnt[x] >= 1
  BY <1>2, Held, Finite
<1>4. /\ files' \in [Slot -> [used : BOOLEAN, inode : Inode \cup {NULL}]]
      /\ \A t \in Slot \ {file} : files'[t] = files[t]
      /\ ~ files'[file].used /\ files'[file].inode = NULL
  BY <1>1, <1>2 DEF TypeOK, Closed
<1>5. \A i \in Inode : Count(FileTo', Slot, i) + Points(x, i) = Count(FileTo, Slot, i) + Points(files'[file].inode, i)
  BY <1>2, <1>4, FileChange
<1>6. FileInv'
  <2>1. NULL \notin handles
    BY <1>2, Finite DEF TypeOK
  <2>2. \A t \in Slot : files'[t].used <=> t \in handles
    BY <1>2, <1>4, Finite DEF IInv, FileInv
  <2>3. \A t \in Slot : files'[t].inode # NULL <=> t \in handles
    BY <1>1, <1>2, <1>4, Finite DEF IInv, FileInv
  <2>4. QED
    BY <1>1, <2>1, <2>2, <2>3, Finite DEF FileInv, Heading
<1> HIDE DEF x
<1>7. /\ refcnt' \in [Inode -> Nat]
      /\ \A i \in Inode : /\ refcnt'[i] = refcnt[i] + Points(x, i)
                          /\ Count(UpTo', Inode, i) = Count(UpTo, Inode, i)
  BY <1>1, <1>2, <1>3, Bump
<1>8. TypeOK'
  BY <1>1, <1>2, <1>4, <1>7 DEF TypeOK
<1>9. ControlInv'
  BY <1>1, <1>2, Finite DEF IInv, ControlInv, Heading, Walk
<1>10. Balanced
  <2>1. ASSUME NEW i \in Inode PROVE BalancedAt(i)
    <3>1. /\ refcnt[i] \in Nat /\ Count(FileTo, Slot, i) \in Nat /\ Count(UpTo, Inode, i) \in Nat
          /\ Points(root, i) \in Nat /\ Points(cwd, i) = 0 /\ Points(inode, i) = 0
          /\ Points(dying, i) = 0 /\ Points(NULL, i) = 0 /\ Points(x, i) \in Nat
      BY <1>2, Counts, PointsFacts
    <3>2. Count(FileTo', Slot, i) \in Nat
      BY Finite, CountType
    <3>3. Count(FileTo, Slot, i) = Count(FileTo', Slot, i) + Points(x, i)
      BY <1>4, <1>5, <3>1, <3>2
    <3>4. /\ Points(root', i) = Points(root, i) /\ Points(cwd', i) = Points(x, i)
          /\ Points(inode', i) = 0 /\ Points(dying', i) = Points(x, i)
          /\ refcnt'[i] = refcnt[i] + Points(x, i)
          /\ Count(UpTo', Inode, i) = Count(UpTo, Inode, i)
      BY <1>1, <1>7, <3>1
    <3>5. QED
      BY <3>1, <3>2, <3>3, <3>4, SMTT(30) DEF BalancedAt
  <2>2. QED
    BY <2>1 DEF Balanced
<1>11. QED
  BY <1>6, <1>8, <1>9, <1>10, Balance DEF IInv

\* Every step preserves the invariant.
LEMMA NextInv == ASSUME IInv, [Next]_vars PROVE IInv'
<1>1. ASSUME NEW o \in Ops \ {"none"}, NEW p \in Paths,
             Search(o, p) \/ SearchNoMemory(o, p) \/ NoFile(o, p)
      PROVE  IInv'
  BY <1>1, SearchInv, StutterInv DEF NoFile
<1>2. CASE \E h \in Slot : Close(h)
  BY <1>2, ClosesInv
<1>3. CASE Step
  BY <1>3, PutInodeInv, PutDoneInv, MovesInv, WalkOnInv, IgetInv, GiveUpInv, FailInv, FoundInv,
     DeliverInv, ClosesInv, ChdirInv, ChdirEndsInv DEF Step
<1>4. CASE UNCHANGED vars
  BY <1>4, StutterInv
<1>5. QED
  BY <1>1, <1>2, <1>3, <1>4 DEF Next

-----------------------------------------------------------------------------
(* The theorems. *)

\* The inductive invariant holds at every step of every call.
LEMMA InvAlways == Spec => []IInv
<1>1. Init => IInv
  BY InitInv
<1>2. IInv /\ [Next]_vars => IInv'
  BY NextInv
<1>3. QED
  BY <1>1, <1>2, PTL DEF Spec

\* Pointers, counters, file structures and handles stay in their ranges; in
\* particular no counter goes below zero and symlink_count never wraps.
THEOREM VfsTypeCorrect == Spec => []TypeOK
<1>1. IInv => TypeOK
  BY DEF IInv
<1>2. QED
  BY <1>1, InvAlways, PTL

\* fs.c:35-44, 244-381: the counter of every inode is the number of pointers
\* to it at every step of every call, so that nothing is used after it is
\* freed and nothing unreachable stays allocated.
THEOREM ReferencesExact == Spec => []RefcountExact
<1>1. IInv => RefcountExact
  BY DEF IInv
<1>2. QED
  BY <1>1, InvAlways, PTL

\* fs.c:396-425: between calls, the file structures in use are those whose
\* handles the callers hold.
THEOREM FilesNeverLeak == Spec => []NoFileLeak
<1>1. ASSUME IInv PROVE NoFileLeak
  <2>1. handles \subseteq Slot /\ NULL \notin Slot
    BY <1>1, Finite DEF IInv, TypeOK
  <2>2. ASSUME pc = "idle" PROVE {s \in Slot : files[s].used} = handles
    <3>1. file = NULL
      BY <1>1, <2>2 DEF IInv, FileInv, Heading
    <3>2. QED
      BY <1>1, <2>1, <3>1 DEF IInv, FileInv
  <2>3. QED
    BY <2>2 DEF NoFileLeak
<1>2. QED
  BY <1>1, InvAlways, PTL

\* No pointer the code follows, at any step of any call, leads to a freed
\* inode: neither fs->root, fs->cwd, the inode of a running lookup, the one
\* put_inode is at, an open file's, nor a live inode's parent.
PointersLive ==
  /\ root \in Live
  /\ cwd # NULL => cwd \in Live
  /\ inode # NULL => inode \in Live
  /\ dying # NULL => dying \in Live
  /\ \A s \in Slot : files[s].inode # NULL => files[s].inode \in Live
  /\ \A j \in Live : parent[j] # NULL => parent[j] \in Live

\* fs.c:35-44: what exact counters are for, no use after free.
THEOREM NoUseAfterFree == Spec => []PointersLive
<1>1. ASSUME IInv PROVE PointersLive
  BY <1>1, Held DEF PointersLive, Live, IInv, TypeOK
<1>2. QED
  BY <1>1, InvAlways, PTL

\* An inode is where the tree has it, or is not in use and looks like the root.
PlacedAt(i) ==
  /\ IF parent[i] = NULL THEN node[i] = RootNode
     ELSE \E nm \in DOMAIN Entries[node[parent[i]]] : Entries[node[parent[i]]][nm] = node[i]
  /\ refcnt[i] = 0 => parent[i] = NULL

Placed == \A i \in Inode : PlacedAt(i)

\* A step that leaves parents and nodes alone and frees nothing.
LEMMA PlacedStays ==
  ASSUME Placed, UNCHANGED <<parent, node>>,
         \A i \in Inode : refcnt'[i] = 0 => refcnt[i] = 0
  PROVE  Placed'
BY DEF Placed, PlacedAt

\* fs.c:300-316, 358-363.  Only iget and put_inode change where an inode is; the
\* slot of the one and the inode freed by the other are nobody's parent.
LEMMA NextPlaced ==
  ASSUME IInv, IInv', PointersLive, PointersLive', Placed, [Next]_vars
  PROVE  Placed'
<1>1. /\ refcnt \in [Inode -> Nat] /\ refcnt' \in [Inode -> Nat]
      /\ parent \in [Inode -> Inode \cup {NULL}] /\ node \in [Inode -> Node]
  BY DEF IInv, TypeOK
<1>2. ASSUME refcnt' = refcnt \/ \E x : refcnt' = [refcnt EXCEPT ![x] = @ + 1],
             UNCHANGED <<parent, node>>
      PROVE  Placed'
  <2>1. \A i \in Inode : refcnt'[i] = 0 => refcnt[i] = 0
    BY <1>1, <1>2
  <2>2. QED
    BY <1>2, <2>1, PlacedStays
<1>3. ASSUME NEW x \in Inode, Iget(x) PROVE Placed'
  <2>1. /\ refcnt[x] = 0 /\ refcnt' = [refcnt EXCEPT ![x] = 1]
        /\ parent' = [parent EXCEPT ![x] = inode] /\ Exists
        /\ node' = [node EXCEPT ![x] = Entries[node[inode]][Head(path)]]
    BY <1>3 DEF Iget, FreeInodes
  <2>2. inode \in Inode /\ inode # NULL /\ inode # x /\ x # NULL
    <3>1. inode # NULL
      BY <1>3 DEF Iget, Named, IInv, ControlInv, Walk, Heading
    <3>2. QED
      BY <1>1, <2>1, <3>1, Finite DEF PointersLive, Live
  <2>3. PlacedAt(x)'
    BY <1>1, <2>1, <2>2 DEF PlacedAt, Exists
  <2>4. ASSUME NEW i \in Inode, i # x PROVE PlacedAt(i)'
    <3>1. PlacedAt(i) /\ refcnt'[i] = refcnt[i] /\ parent'[i] = parent[i] /\ node'[i] = node[i]
      BY <1>1, <2>1, <2>4 DEF Placed
    <3>2. parent[i] # x
      BY <1>1, <2>1, <2>2, <3>1 DEF PointersLive, Live, PlacedAt
    <3>3. parent[i] # NULL => node'[parent[i]] = node[parent[i]]
      BY <1>1, <2>1, <3>2
    <3>4. QED
      BY <3>1, <3>3 DEF PlacedAt
  <2>5. QED
    BY <2>3, <2>4 DEF Placed
<1>4. CASE PutInode
  <2>0. dying \in Inode /\ refcnt[dying] > 0 /\ refcnt[dying] \in Nat
    BY <1>1, <1>4 DEF PutInode, PointersLive, Live
  <2>a. refcnt' = [refcnt EXCEPT ![dying] = @ - 1]
    BY <1>4 DEF PutInode
  <2>b. PICK d \in Inode : d = dying
    BY <2>0
  <2>1. d = dying /\ refcnt' = [refcnt EXCEPT ![d] = @ - 1] /\ refcnt[d] >= 1
    BY <2>0, <2>a, <2>b
  <2>2. CASE refcnt[d] # 1
    <3>1. UNCHANGED <<parent, node>> /\ \A i \in Inode : refcnt'[i] = 0 => refcnt[i] = 0
      BY <1>1, <1>4, <2>1, <2>2 DEF PutInode
    <3>2. QED
      BY <3>1, PlacedStays
  <2>3. CASE refcnt[d] = 1
    <3>1. /\ parent' = [parent EXCEPT ![d] = NULL]
          /\ node' = [node EXCEPT ![d] = RootNode] /\ refcnt'[d] = 0
      BY <1>1, <1>4, <2>1, <2>3 DEF PutInode
    <3>2. PlacedAt(d)'
      BY <1>1, <2>1, <3>1 DEF PlacedAt
    <3>3. ASSUME NEW i \in Inode, i # d PROVE PlacedAt(i)'
      <4>1. PlacedAt(i) /\ refcnt'[i] = refcnt[i] /\ parent'[i] = parent[i] /\ node'[i] = node[i]
        BY <1>1, <2>1, <3>1, <3>3 DEF Placed
      <4>2. parent[i] # d
        BY <1>1, <2>1, <3>1, <4>1, Finite DEF PointersLive, Live, PlacedAt
      <4>3. parent[i] # NULL => node'[parent[i]] = node[parent[i]]
        BY <1>1, <2>1, <3>1, <4>2
      <4>4. QED
        BY <4>1, <4>3 DEF PlacedAt
    <3>4. QED
      BY <3>2, <3>3 DEF Placed
  <2>4. QED
    BY <2>2, <2>3
<1>5. ASSUME NEW o, NEW p, Search(o, p) \/ SearchNoMemory(o, p) \/ NoFile(o, p) PROVE Placed'
  BY <1>5, <1>2 DEF Search, SearchNoMemory, NoFile, vars
<1>6. ASSUME NEW h, Close(h) PROVE Placed'
  BY <1>6, <1>2 DEF Close
<1>7. CASE RootComponent \/ ParentComponent \/ FollowLink \/ ChdirEnds
  BY <1>7, <1>2 DEF RootComponent, ParentComponent, FollowLink, ChdirEnds
<1>8. CASE \/ PutDone \/ DotComponent \/ RootParentComponent \/ IgetFails \/ EntryFails
           \/ EntryGood \/ Fail \/ Found \/ Deliver \/ Drop \/ Chdir \/ UNCHANGED vars
  BY <1>8, <1>2 DEF PutDone, DotComponent, RootParentComponent, IgetFails, EntryFails, EntryGood,
     Fail, Found, Deliver, Drop, Chdir, vars
<1>9. QED
  BY <1>3, <1>4, <1>5, <1>6, <1>7, <1>8 DEF Next, Step

\* fs.c:300-316, 358-363: a parent holds its child, for every tree, every path
\* and however many links led there, while inodes come and go.
THEOREM ParentsAreRight == Spec => []ParentsFollowTree
<1>1. Init => Placed
  BY VfsAssumption DEF Init, Placed, PlacedAt
<1>2. /\ IInv /\ IInv' /\ PointersLive /\ PointersLive' /\ Placed /\ [Next]_vars
      => Placed'
  BY NextPlaced
<1>3. Placed => ParentsFollowTree
  BY DEF Placed, PlacedAt, ParentsFollowTree, Live
<1>4. QED
  BY <1>1, <1>2, <1>3, InvAlways, NoUseAfterFree, PTL DEF Spec

-----------------------------------------------------------------------------
(* What is in use stays what it is. *)

\* fs.c:35-44.  An inode that is in use before a step and after it is the same
\* node in the same directory: iget fills memory that was free and put_inode
\* clears what it frees.
LEMMA LiveStays ==
  ASSUME IInv, PointersLive, [Next]_vars, NEW i \in Inode, refcnt[i] # 0, refcnt'[i] # 0
  PROVE  node'[i] = node[i] /\ parent'[i] = parent[i]
<1>1. /\ refcnt \in [Inode -> Nat] /\ parent \in [Inode -> Inode \cup {NULL}]
      /\ node \in [Inode -> Node]
  BY DEF IInv, TypeOK
<1>2. ASSUME NEW x \in Inode, Iget(x) PROVE node'[i] = node[i] /\ parent'[i] = parent[i]
  <2>1. i # x
    BY <1>2 DEF Iget, FreeInodes
  <2>2. QED
    BY <1>1, <1>2, <2>1 DEF Iget
<1>3. CASE PutInode
  <2>1. dying \in Inode
    BY <1>3 DEF PutInode, PointersLive, Live
  <2>2. CASE refcnt[dying] # 1
    BY <1>3, <2>2 DEF PutInode
  <2>3. CASE refcnt[dying] = 1
    <3>1. refcnt' = [refcnt EXCEPT ![dying] = @ - 1]
      BY <1>3 DEF PutInode
    <3>2. refcnt'[dying] = 0
      BY <1>1, <2>1, <2>3, <3>1
    <3>3. i # dying
      BY <3>2
    <3>4. QED
      BY <1>1, <1>3, <2>3, <3>3 DEF PutInode
  <2>4. QED
    BY <2>2, <2>3
<1>4. ASSUME NEW o, NEW p, Search(o, p) \/ SearchNoMemory(o, p) \/ NoFile(o, p)
      PROVE  UNCHANGED <<node, parent>>
  BY <1>4 DEF Search, SearchNoMemory, NoFile, vars
<1>5. ASSUME NEW h, Close(h) PROVE UNCHANGED <<node, parent>>
  BY <1>5 DEF Close
<1>6. CASE \/ RootComponent \/ ParentComponent \/ FollowLink \/ ChdirEnds \/ PutDone
           \/ DotComponent \/ RootParentComponent \/ IgetFails \/ EntryFails \/ EntryGood
           \/ Fail \/ Found \/ Deliver \/ Drop \/ Chdir \/ UNCHANGED vars
  <2>1. UNCHANGED <<node, parent>>
    BY <1>6 DEF RootComponent, ParentComponent, FollowLink, ChdirEnds, PutDone, DotComponent,
       RootParentComponent, IgetFails, EntryFails, EntryGood, Fail, Found, Deliver, Drop, Chdir,
       vars
  <2>2. QED
    BY <2>1
<1>7. QED
  BY <1>2, <1>3, <1>4, <1>5, <1>6 DEF Next, Step

\* fs.c:396-425.  The structure of an open file belongs to it: a call takes a
\* free one and fills or closes its own.
LEMMA FilesStay ==
  ASSUME IInv, [Next]_vars, NEW h \in handles \cap handles'
  PROVE  files'[h] = files[h]
<1>1. /\ h \in Slot /\ files \in [Slot -> [used : BOOLEAN, inode : Inode \cup {NULL}]]
      /\ file # h /\ files[h].used
  BY DEF IInv, TypeOK, FileInv
<1>2. ASSUME NEW o, NEW p, Search(o, p) \/ SearchNoMemory(o, p) PROVE files'[h] = files[h]
  <2>1. FreeSlots # {} /\ file' = CHOOSE s \in FreeSlots : \A t \in FreeSlots : s <= t
    BY <1>2 DEF Search, SearchNoMemory
  <2>2. ~ files[file'].used
    BY <2>1, FreeSlot DEF IInv
  <2>3. file' # h
    BY <1>1, <2>2
  <2>4. files' = [files EXCEPT ![file'].used = TRUE]
    BY <1>2 DEF Search, SearchNoMemory
  <2>5. QED
    BY <1>1, <2>3, <2>4
<1>3. ASSUME NEW g \in Slot, Close(g) PROVE files'[h] = files[h]
  <2>1. h # g
    BY <1>3 DEF Close
  <2>2. QED
    BY <1>1, <1>3, <2>1 DEF Close
<1>4. CASE Fail \/ Found \/ Drop \/ ChdirEnds
  BY <1>1, <1>4 DEF Fail, Found, Drop, ChdirEnds
<1>5. ASSUME NEW x, Iget(x) PROVE files'[h] = files[h]
  BY <1>5 DEF Iget
<1>6. CASE \/ RootComponent \/ ParentComponent \/ FollowLink \/ PutInode \/ PutDone
           \/ DotComponent \/ RootParentComponent \/ IgetFails \/ EntryFails \/ EntryGood
           \/ Deliver \/ Chdir \/ UNCHANGED vars
  BY <1>6 DEF RootComponent, ParentComponent, FollowLink, PutInode, PutDone, DotComponent,
     RootParentComponent, IgetFails, EntryFails, EntryGood, Deliver, Chdir, vars
<1>7. ASSUME NEW o, NEW p, NoFile(o, p) PROVE files'[h] = files[h]
  BY <1>7 DEF NoFile, vars
<1>8. QED
  BY <1>2, <1>3, <1>4, <1>5, <1>6, <1>7 DEF Next, Step

\* fs.c:35-44, 358-363: for every tree, path and size of the tables, an open file
\* and the current directory stay what they are while other inodes come and go.
THEOREM HeldIsStable == Spec => HeldStays
<1> DEFINE Stays == /\ \A h \in handles \cap handles' :
                         /\ files'[h].inode = files[h].inode
                         /\ node'[files[h].inode] = node[files[h].inode]
                    /\ cwd # NULL /\ cwd' = cwd => node'[cwd] = node[cwd]
<1>1. ASSUME IInv, IInv', PointersLive, PointersLive', [Next]_vars PROVE Stays
  <2>1. ASSUME NEW h \in handles \cap handles'
        PROVE  files'[h].inode = files[h].inode /\ node'[files[h].inode] = node[files[h].inode]
    <3>1. files'[h] = files[h] /\ h \in Slot
      BY <1>1, <2>1, FilesStay DEF IInv, TypeOK
    <3>2. files[h].inode # NULL
      BY <1>1, <2>1, <3>1 DEF IInv, FileInv
    <3>3. PICK i \in Inode : i = files[h].inode /\ refcnt[i] # 0 /\ refcnt'[i] # 0
      BY <1>1, <3>1, <3>2 DEF PointersLive, Live
    <3>4. QED
      BY <1>1, <3>1, <3>3, LiveStays
  <2>2. ASSUME cwd # NULL, cwd' = cwd PROVE node'[cwd] = node[cwd]
    <3>1. PICK i \in Inode : i = cwd /\ refcnt[i] # 0 /\ refcnt'[i] # 0
      BY <1>1, <2>2 DEF PointersLive, Live
    <3>2. QED
      BY <1>1, <3>1, LiveStays
  <2>3. QED
    BY <2>1, <2>2
<1>2. QED
  BY <1>1, InvAlways, NoUseAfterFree, PTL DEF Spec, HeldStays

-----------------------------------------------------------------------------
(* What the walk knows of the tree. *)

\* The entry that has just been looked up is the one that the path names.
LookedUp ==
  /\ path # <<>> /\ Head(path) \notin Special
  /\ Head(path) \in DOMAIN Entries[node[parent[inode]]]
  /\ node[inode] = Entries[node[parent[inode]]][Head(path)]

\* The root has no parent, and all that a walk may go on from is a directory.
WalkInv ==
  /\ path \in Seq(Name)
  /\ parent[root] = NULL
  /\ cwd # NULL => ModeOf(cwd) = "DIR"
  /\ \A i \in Inode : parent[i] # NULL => ModeOf(parent[i]) = "DIR"
  /\ Heading("walk") /\ path # <<>> => ModeOf(inode) = "DIR"
  /\ pc = "entry" => LookedUp
  /\ Heading("chdir") => ModeOf(files[file].inode) = "DIR"

\* A step either leaves nodes and parents alone, or frees an inode, or fills one.
LEMMA NodesChange ==
  ASSUME [Next]_vars, ~ PutInode, \A x \in Inode : ~ Iget(x)
  PROVE  UNCHANGED <<node, parent>>
<1>1. ASSUME NEW o, NEW p, Search(o, p) \/ SearchNoMemory(o, p) \/ NoFile(o, p)
      PROVE  UNCHANGED <<node, parent>>
  BY <1>1 DEF Search, SearchNoMemory, NoFile, vars
<1>2. ASSUME NEW h, Close(h) PROVE UNCHANGED <<node, parent>>
  BY <1>2 DEF Close
<1>3. CASE \/ RootComponent \/ ParentComponent \/ FollowLink \/ ChdirEnds \/ PutDone
           \/ DotComponent \/ RootParentComponent \/ IgetFails \/ EntryFails \/ EntryGood
           \/ Fail \/ Found \/ Deliver \/ Drop \/ Chdir \/ UNCHANGED vars
  BY <1>3 DEF RootComponent, ParentComponent, FollowLink, ChdirEnds, PutDone, DotComponent,
     RootParentComponent, IgetFails, EntryFails, EntryGood, Fail, Found, Deliver, Drop, Chdir,
     vars
<1>4. QED
  BY <1>1, <1>2, <1>3 DEF Next, Step

\* What a directory in use becomes: itself, or the root when it is freed.
LEMMA DirStays ==
  ASSUME IInv, [Next]_vars, NEW i \in Inode, refcnt[i] # 0, ModeOf(i) = "DIR"
  PROVE  Mode[node'[i]] = "DIR"
<1>1. node \in [Inode -> Node]
  BY DEF IInv, TypeOK
<1>2. ASSUME NEW x \in Inode, Iget(x) PROVE node'[i] = node[i]
  <2>1. i # x
    BY <1>2 DEF Iget, FreeInodes
  <2>2. QED
    BY <1>1, <1>2, <2>1 DEF Iget
<1>3. ASSUME PutInode PROVE node'[i] = node[i] \/ node'[i] = RootNode
  <2>1. node' = node \/ node' = [node EXCEPT ![dying] = RootNode]
    BY <1>3 DEF PutInode
  <2>2. QED
    BY <1>1, <2>1
<1>4. QED
  BY <1>2, <1>3, NodesChange, VfsAssumption DEF ModeOf

\* The path is made of names, in every call and after every link.
LEMMA PathTyped ==
  ASSUME IInv, path \in Seq(Name), pc = "entry" => path # <<>>, [Next]_vars
  PROVE  path' \in Seq(Name)
<1>1. node \in [Inode -> Node] /\ inode \in Inode \cup {NULL}
  BY DEF IInv, TypeOK
<1>2. path # <<>> => Tail(path) \in Seq(Name)
  OBVIOUS
<1>3. ASSUME NEW o, NEW p \in Paths, Search(o, p) \/ SearchNoMemory(o, p) \/ NoFile(o, p)
      PROVE  path' \in Seq(Name)
  BY <1>3, PathAssumption DEF Search, SearchNoMemory, NoFile, vars
<1>4. CASE FollowLink
  <2>1. inode \in Inode
    BY <1>1, <1>4 DEF FollowLink, IInv, ControlInv, Walk
  <2>2. Target[node[inode]] \in Seq(Name)
    BY <1>1, <1>4, <2>1, PathAssumption DEF FollowLink, ModeOf
  <2>3. path' = Target[node[inode]] \o Tail(path) /\ path # <<>>
    BY <1>4 DEF FollowLink
  <2>4. QED
    BY <1>2, <2>2, <2>3
<1>5. CASE RootComponent \/ ParentComponent \/ DotComponent \/ RootParentComponent \/ EntryGood
  <2>1. path' = Tail(path) /\ path # <<>>
    BY <1>5 DEF RootComponent, ParentComponent, DotComponent, RootParentComponent, EntryGood,
       Component
  <2>2. QED
    BY <1>2, <2>1
<1>6. CASE PutDone \/ Fail \/ Deliver
  <2>1. path' = path \/ path' = <<>>
    BY <1>6 DEF PutDone, Fail, Deliver, Returned
  <2>2. <<>> \in Seq(Name)
    OBVIOUS
  <2>3. QED
    BY <2>1, <2>2, Zenon
<1>7. ASSUME NEW x, Iget(x) \/ Close(x) PROVE path' = path
  BY <1>7 DEF Iget, Close
<1>8. CASE PutInode \/ IgetFails \/ EntryFails \/ Found \/ Drop \/ Chdir \/ ChdirEnds
           \/ UNCHANGED vars
  BY <1>8 DEF PutInode, IgetFails, EntryFails, Found, Drop, Chdir, ChdirEnds, vars
<1>9. QED
  BY <1>3, <1>4, <1>5, <1>6, <1>7, <1>8 DEF Next, Step

\* The root stays the root and has no parent.
LEMMA RootTop ==
  ASSUME IInv, PointersLive, parent[root] = NULL, [Next]_vars
  PROVE  root' = root /\ parent'[root] = NULL
<1>1. parent \in [Inode -> Inode \cup {NULL}] /\ root \in Inode /\ refcnt[root] # 0
  BY DEF IInv, TypeOK, PointersLive, Live
<1>2. root' = root
  <2>1. ASSUME NEW o, NEW p, Search(o, p) \/ SearchNoMemory(o, p) \/ NoFile(o, p)
        PROVE  root' = root
    BY <2>1 DEF Search, SearchNoMemory, NoFile, vars
  <2>2. ASSUME NEW h, Close(h) \/ Iget(h) PROVE root' = root
    BY <2>2 DEF Close, Iget
  <2>3. CASE \/ RootComponent \/ ParentComponent \/ FollowLink \/ ChdirEnds \/ PutDone \/ PutInode
             \/ DotComponent \/ RootParentComponent \/ IgetFails \/ EntryFails \/ EntryGood
             \/ Fail \/ Found \/ Deliver \/ Drop \/ Chdir \/ UNCHANGED vars
    BY <2>3 DEF RootComponent, ParentComponent, FollowLink, ChdirEnds, PutDone, PutInode,
       DotComponent, RootParentComponent, IgetFails, EntryFails, EntryGood, Fail, Found, Deliver,
       Drop, Chdir, vars
  <2>4. QED
    BY <2>1, <2>2, <2>3 DEF Next, Step
<1>3. ASSUME NEW x \in Inode, Iget(x) PROVE parent'[root] = NULL
  <2>1. x # root
    BY <1>1, <1>3 DEF Iget, FreeInodes
  <2>2. QED
    BY <1>1, <1>3, <2>1 DEF Iget
<1>4. ASSUME PutInode PROVE parent'[root] = NULL
  <2>1. parent' = parent \/ parent' = [parent EXCEPT ![dying] = NULL]
    BY <1>4 DEF PutInode
  <2>2. QED
    BY <1>1, <2>1
<1>5. QED
  BY <1>2, <1>3, <1>4, NodesChange

\* chdir.c:95-110.  The current directory is a directory.
LEMMA CwdDir ==
  ASSUME IInv, PointersLive, WalkInv, [Next]_vars, cwd' # NULL
  PROVE  Mode[node'[cwd']] = "DIR"
<1>1. ASSUME cwd' = cwd PROVE Mode[node'[cwd']] = "DIR"
  <2>1. PICK i \in Inode : i = cwd /\ refcnt[i] # 0 /\ ModeOf(i) = "DIR"
    BY <1>1 DEF PointersLive, Live, WalkInv
  <2>2. QED
    BY <1>1, <2>1, DirStays
<1>2. CASE ChdirEnds
  <2>1. /\ cwd' = files[file].inode /\ node' = node /\ Heading("chdir")
    BY <1>2 DEF ChdirEnds, Heading
  <2>2. QED
    BY <2>1 DEF WalkInv, ModeOf
<1>3. CASE Chdir
  BY <1>3 DEF Chdir
<1>4. ASSUME NEW o, NEW p, Search(o, p) \/ SearchNoMemory(o, p) \/ NoFile(o, p)
      PROVE  cwd' = cwd
  BY <1>4 DEF Search, SearchNoMemory, NoFile, vars
<1>5. ASSUME NEW h, Close(h) \/ Iget(h) PROVE cwd' = cwd
  BY <1>5 DEF Close, Iget
<1>6. ASSUME \/ RootComponent \/ ParentComponent \/ FollowLink \/ PutDone \/ PutInode
             \/ DotComponent \/ RootParentComponent \/ IgetFails \/ EntryFails \/ EntryGood
             \/ Fail \/ Found \/ Deliver \/ Drop \/ UNCHANGED vars
      PROVE  cwd' = cwd
  BY <1>6 DEF RootComponent, ParentComponent, FollowLink, PutDone, PutInode, DotComponent,
     RootParentComponent, IgetFails, EntryFails, EntryGood, Fail, Found, Deliver, Drop, vars
<1>7. QED
  BY <1>1, <1>2, <1>3, <1>4, <1>5, <1>6 DEF Next, Step

\* fs.c:300-316.  Every parent is a directory.
LEMMA ParentsDir ==
  ASSUME IInv, PointersLive, Placed, WalkInv, [Next]_vars, NEW i \in Inode, parent'[i] # NULL
  PROVE  Mode[node'[parent'[i]]] = "DIR"
<1>1. parent \in [Inode -> Inode \cup {NULL}] /\ refcnt \in [Inode -> Nat]
  BY DEF IInv, TypeOK
<1>2. ASSUME parent'[i] = parent[i] PROVE Mode[node'[parent'[i]]] = "DIR"
  <2>1. refcnt[i] > 0
    BY <1>1, <1>2 DEF Placed, PlacedAt
  <2>2. PICK j \in Inode : j = parent[i] /\ refcnt[j] # 0 /\ ModeOf(j) = "DIR"
    BY <1>2, <2>1 DEF PointersLive, Live, WalkInv
  <2>3. QED
    BY <1>2, <2>2, DirStays
<1>3. ASSUME NEW x \in Inode, Iget(x) PROVE Mode[node'[parent'[i]]] = "DIR"
  <2>1. parent' = [parent EXCEPT ![x] = inode] /\ pc = "walk" /\ path # <<>>
    BY <1>3 DEF Iget, Named
  <2>2. CASE i # x
    BY <1>1, <1>2, <2>1, <2>2
  <2>3. CASE i = x
    <3>1. inode # NULL
      BY <2>1 DEF IInv, ControlInv, Walk, Heading
    <3>2. PICK j \in Inode : j = inode /\ refcnt[j] # 0 /\ ModeOf(j) = "DIR"
      BY <2>1, <3>1 DEF PointersLive, Live, WalkInv, Heading
    <3>3. parent'[i] = j
      BY <1>1, <2>1, <2>3, <3>2
    <3>4. QED
      BY <3>2, <3>3, DirStays
  <2>4. QED
    BY <2>2, <2>3
<1>4. ASSUME PutInode PROVE parent'[i] = parent[i]
  <2>1. parent' = parent \/ parent' = [parent EXCEPT ![dying] = NULL]
    BY <1>4 DEF PutInode
  <2>2. QED
    BY <1>1, <2>1
<1>5. QED
  BY <1>2, <1>3, <1>4, NodesChange

\* fs.c:358-373.  What a walk with more to come has reached is a directory.
LEMMA WalkDir ==
  ASSUME IInv, PointersLive, Placed, WalkInv, [Next]_vars, Heading("walk")', path' # <<>>
  PROVE  Mode[node'[inode']] = "DIR"
<1>1. /\ parent \in [Inode -> Inode \cup {NULL}] /\ refcnt \in [Inode -> Nat]
      /\ path \in Seq(Name)
  BY DEF IInv, TypeOK, WalkInv
<1>2. ASSUME NEW j \in Inode, refcnt[j] # 0, ModeOf(j) = "DIR", inode' = j
      PROVE  Mode[node'[inode']] = "DIR"
  BY <1>2, DirStays
<1>3. ASSUME inode' = inode, Heading("walk"), path # <<>> PROVE Mode[node'[inode']] = "DIR"
  <2>1. inode # NULL
    BY <1>3 DEF IInv, ControlInv, Walk
  <2>2. inode \in Inode /\ refcnt[inode] # 0 /\ ModeOf(inode) = "DIR"
    BY <1>3, <2>1 DEF PointersLive, Live, WalkInv
  <2>3. QED
    BY <1>2, <1>3, <2>2
<1>4. ASSUME NEW o, NEW p, Search(o, p) PROVE Mode[node'[inode']] = "DIR"
  <2>1. inode' = cwd /\ pc = "idle"
    BY <1>4 DEF Search
  <2>2. cwd # NULL
    BY <2>1 DEF IInv, ControlInv, Heading
  <2>3. cwd \in Inode /\ refcnt[cwd] # 0 /\ ModeOf(cwd) = "DIR"
    BY <2>2 DEF PointersLive, Live, WalkInv
  <2>4. QED
    BY <1>2, <2>1, <2>3
<1>5. CASE RootComponent
  <2>1. inode' = root
    BY <1>5 DEF RootComponent
  <2>2. root \in Inode /\ refcnt[root] # 0 /\ ModeOf(root) = "DIR"
    BY VfsAssumption DEF PointersLive, Live, Placed, PlacedAt, WalkInv, ModeOf
  <2>3. QED
    BY <1>2, <2>1, <2>2
<1>6. CASE ParentComponent \/ FollowLink
  <2>1. inode' = parent[inode] /\ inode # NULL /\ parent[inode] # NULL
    BY <1>6 DEF ParentComponent, FollowLink, Component, IInv, ControlInv, Walk, Heading
  <2>2. inode \in Inode /\ refcnt[inode] > 0
    BY <2>1 DEF PointersLive, Live
  <2>3. parent[inode] \in Inode /\ refcnt[parent[inode]] # 0 /\ ModeOf(parent[inode]) = "DIR"
    BY <2>1, <2>2 DEF PointersLive, Live, WalkInv
  <2>4. QED
    BY <1>2, <2>1, <2>3
<1>7. CASE EntryGood
  <2>1. inode' = inode /\ inode # NULL /\ ModeOf(inode) = "DIR"
    BY <1>7 DEF EntryGood, IInv, ControlInv, Walk
  <2>2. inode \in Inode /\ refcnt[inode] # 0
    BY <2>1 DEF PointersLive, Live
  <2>3. QED
    BY <1>2, <2>1, <2>2
<1>8. CASE DotComponent \/ RootParentComponent
  BY <1>3, <1>8 DEF DotComponent, RootParentComponent, Component, Heading
<1>9. CASE PutInode \/ UNCHANGED vars
  BY <1>3, <1>9 DEF PutInode, Heading, vars
<1>10. CASE PutDone
  <2>1. CASE cont = "idle"
    BY <1>10, <2>1 DEF PutDone, Returned, Heading
  <2>2. CASE cont # "idle"
    BY <1>3, <1>10, <2>2 DEF PutDone, Heading
  <2>3. QED
    BY <2>1, <2>2
<1>11. ASSUME NEW o, NEW p, SearchNoMemory(o, p) \/ NoFile(o, p) PROVE Mode[node'[inode']] = "DIR"
  BY <1>3, <1>11 DEF SearchNoMemory, NoFile, Heading, vars
<1>12. ASSUME NEW x, Iget(x) \/ Close(x) PROVE FALSE
  BY <1>12 DEF Iget, Close, Put, Heading
<1>13. ASSUME IgetFails \/ EntryFails \/ Fail \/ Found \/ Deliver \/ Drop \/ Chdir \/ ChdirEnds
       PROVE  FALSE
  BY <1>13 DEF IgetFails, EntryFails, Fail, Found, Deliver, Drop, Chdir, ChdirEnds, Put, Returned,
     Heading
<1>14. QED
  BY <1>4, <1>5, <1>6, <1>7, <1>8, <1>9, <1>10, <1>11, <1>12, <1>13 DEF Next, Step

\* fs.c:300-316.  What iget has returned is what the directory has under that name.
LEMMA EntryLooked ==
  ASSUME IInv, PointersLive, WalkInv, [Next]_vars, pc' = "entry"
  PROVE  LookedUp'
<1>1. parent \in [Inode -> Inode \cup {NULL}] /\ node \in [Inode -> Node]
  BY DEF IInv, TypeOK
<1>2. ASSUME NEW x \in Inode, Iget(x) PROVE LookedUp'
  <2>1. /\ parent' = [parent EXCEPT ![x] = inode] /\ inode' = x /\ path' = path
        /\ node' = [node EXCEPT ![x] = Entries[node[inode]][Head(path)]]
        /\ pc = "walk" /\ path # <<>> /\ Head(path) \notin Special
        /\ Head(path) \in DOMAIN Entries[node[inode]] /\ refcnt[x] = 0
    BY <1>2 DEF Iget, Named, Exists, FreeInodes, Special
  <2>2. inode # NULL
    BY <2>1 DEF IInv, ControlInv, Walk, Heading
  <2>3. inode \in Inode /\ inode # x
    BY <2>1, <2>2 DEF PointersLive, Live
  <2>4. node'[parent'[x]] = node[inode] /\ node'[x] = Entries[node[inode]][Head(path)]
    BY <1>1, <2>1, <2>3
  <2>5. QED
    BY <2>1, <2>4 DEF LookedUp
<1>3. ASSUME UNCHANGED vars PROVE LookedUp'
  <2>1. pc = "entry" /\ path' = path /\ node' = node /\ parent' = parent /\ inode' = inode
    BY <1>3 DEF vars
  <2>2. QED
    BY <2>1 DEF WalkInv, LookedUp
<1>4. ASSUME NEW o, NEW p, Search(o, p) \/ SearchNoMemory(o, p) PROVE FALSE
  BY <1>4 DEF Search, SearchNoMemory
<1>5. ASSUME NEW o, NEW p, NoFile(o, p) PROVE LookedUp'
  BY <1>3, <1>5 DEF NoFile
<1>6. ASSUME NEW h, Close(h) PROVE FALSE
  BY <1>6 DEF Close, Put
<1>7. ASSUME PutDone PROVE FALSE
  BY <1>7 DEF PutDone, Returned, IInv, ControlInv
<1>8. ASSUME RootComponent \/ ParentComponent \/ FollowLink \/ IgetFails \/ EntryFails \/ Drop
             \/ Chdir \/ ChdirEnds
      PROVE  FALSE
  BY <1>8 DEF RootComponent, ParentComponent, FollowLink, IgetFails, EntryFails, Drop, Chdir,
     ChdirEnds, Put
<1>9. ASSUME DotComponent \/ RootParentComponent \/ EntryGood \/ Fail \/ Found \/ Deliver \/ PutInode
      PROVE  FALSE
  BY <1>9 DEF DotComponent, RootParentComponent, EntryGood, Fail, Found, Deliver, PutInode,
     Returned, Component
<1>10. QED
  BY <1>2, <1>3, <1>4, <1>5, <1>6, <1>7, <1>8, <1>9 DEF Next, Step

\* chdir.c:100-110.  The new directory is one while the old one is released.
LEMMA ChdirDir ==
  ASSUME IInv, PointersLive, WalkInv, [Next]_vars, Heading("chdir")'
  PROVE  Mode[node'[files'[file'].inode]] = "DIR"
<1>1. ASSUME Heading("chdir"), files' = files, file' = file
      PROVE  Mode[node'[files'[file'].inode]] = "DIR"
  <2>1. file \in Slot /\ files[file].inode # NULL
    BY <1>1 DEF IInv, TypeOK, ControlInv, FileInv, Heading
  <2>2. PICK i \in Inode : i = files[file].inode /\ refcnt[i] # 0 /\ ModeOf(i) = "DIR"
    BY <1>1, <2>1 DEF PointersLive, Live, WalkInv
  <2>3. QED
    BY <1>1, <2>2, DirStays
<1>2. CASE Chdir
  BY <1>2 DEF Chdir, Wanted, FoundMode, ModeOf
<1>3. CASE PutInode \/ UNCHANGED vars
  BY <1>1, <1>3 DEF PutInode, Heading, vars
<1>4. CASE PutDone
  BY <1>1, <1>4 DEF PutDone, Returned, Heading
<1>5. ASSUME NEW o, NEW p, Search(o, p) \/ SearchNoMemory(o, p) PROVE FALSE
  BY <1>5 DEF Search, SearchNoMemory, Heading
<1>6. ASSUME NEW o, NEW p, NoFile(o, p) PROVE UNCHANGED vars
  BY <1>6 DEF NoFile
<1>7. ASSUME NEW h, Close(h) \/ Iget(h) PROVE FALSE
  BY <1>7 DEF Close, Iget, Put, Heading
<1>8. ASSUME RootComponent \/ ParentComponent \/ FollowLink \/ IgetFails \/ EntryFails \/ Drop
             \/ ChdirEnds
      PROVE  FALSE
  BY <1>8 DEF RootComponent, ParentComponent, FollowLink, IgetFails, EntryFails, Drop, ChdirEnds,
     Put, Heading
<1>9. ASSUME DotComponent \/ RootParentComponent \/ EntryGood \/ Fail \/ Found \/ Deliver
      PROVE  FALSE
  BY <1>9 DEF DotComponent, RootParentComponent, EntryGood, Fail, Found, Deliver, Returned,
     Component, Heading
<1>10. QED
  BY <1>2, <1>3, <1>4, <1>5, <1>6, <1>7, <1>8, <1>9 DEF Next, Step

\* What a walk knows of the tree holds at every step of every call.
LEMMA WalkInvAlways == Spec => [](IInv /\ PointersLive /\ Placed /\ WalkInv)
<1>1. ASSUME Init PROVE WalkInv /\ Placed
  <2>1. Placed
    BY <1>1, VfsAssumption DEF Init, Placed, PlacedAt
  <2>2. /\ path = <<>> /\ pc = "idle" /\ root \in Inode /\ cwd \in Inode
        /\ \A i \in Inode : parent[i] = NULL /\ node[i] = RootNode
    BY <1>1, Finite DEF Init
  <2>3. <<>> \in Seq(Name)
    OBVIOUS
  <2>4. WalkInv
    BY <2>2, <2>3, VfsAssumption DEF WalkInv, Heading, ModeOf
  <2>5. QED
    BY <2>1, <2>4
<1>2. ASSUME IInv, IInv', PointersLive, PointersLive', Placed, WalkInv, [Next]_vars
      PROVE  Placed' /\ WalkInv'
  <2>1. path' \in Seq(Name)
    BY <1>2, PathTyped DEF WalkInv, LookedUp
  <2>2. parent'[root'] = NULL
    BY <1>2, RootTop DEF WalkInv
  <2>3. cwd' # NULL => Mode[node'[cwd']] = "DIR"
    BY <1>2, CwdDir
  <2>4. \A i \in Inode : parent'[i] # NULL => Mode[node'[parent'[i]]] = "DIR"
    BY <1>2, ParentsDir
  <2>5. Heading("walk")' /\ path' # <<>> => Mode[node'[inode']] = "DIR"
    BY <1>2, WalkDir
  <2>6. pc' = "entry" => LookedUp'
    BY <1>2, EntryLooked
  <2>7. Heading("chdir")' => Mode[node'[files'[file'].inode]] = "DIR"
    BY <1>2, ChdirDir
  <2>8. Placed'
    BY <1>2, NextPlaced
  <2>9. QED
    BY <2>1, <2>2, <2>3, <2>4, <2>5, <2>6, <2>7, <2>8 DEF WalkInv, ModeOf
<1>3. QED
  BY <1>1, <1>2, InvAlways, NoUseAfterFree, PTL DEF Spec

\* fs.c:340-373, chdir.c:95-110: a name is looked up in a directory, for every
\* tree and path, after any number of links and changes of directory.
THEOREM DirectoriesSearched == Spec => []OnlyDirectoriesSearched
<1>1. WalkInv => OnlyDirectoriesSearched
  BY DEF WalkInv, OnlyDirectoriesSearched, Named, Heading
<1>2. QED
  BY <1>1, WalkInvAlways, PTL

-----------------------------------------------------------------------------
(* A walk keeps what the path means. *)

\* The components of a path, one by one.
LEMMA Laws ==
  ASSUME ResolveLaws(Seq(Name)), NEW x \in Node, NEW p \in Seq(Name), p # <<>>,
         NEW k \in 0 .. MAX_SYMLINK_CNT
  PROVE  /\ Head(p) = "/" => Resolve(x, p, k) = Resolve(RootNode, Tail(p), k)
         /\ Head(p) = "." => Resolve(x, p, k) = Resolve(x, Tail(p), k)
         /\ Head(p) = ".." /\ x = RootNode => Resolve(x, p, k) = Resolve(x, Tail(p), k)
         /\ \A d \in Node : \A nm \in DOMAIN Entries[d] :
              Head(p) = ".." /\ Mode[x] = "DIR" /\ Entries[d][nm] = x =>
                Resolve(x, p, k) = Resolve(d, Tail(p), k)
         /\ \A y : Head(p) \notin Special /\ Head(p) \in DOMAIN Entries[x] /\ y = Entries[x][Head(p)] =>
              /\ Mode[y] # "LNK" => Resolve(x, p, k) = Resolve(y, Tail(p), k)
              /\ Mode[y] = "LNK" /\ k > 1 =>
                   Resolve(x, p, k) = Resolve(x, Target[y] \o Tail(p), k - 1)
<1>1. ResolveLaw(x, p, k)
  BY DEF ResolveLaws
<1>2. QED
  BY <1>1 DEF ResolveLaw

\* The steps on a component of the path.
LEMMA ComponentKeepsMeaning ==
  ASSUME ResolveLaws(Seq(Name)), IInv, PointersLive, Placed, WalkInv,
         RootComponent \/ DotComponent \/ ParentComponent \/ RootParentComponent
  PROVE  Meaning' = Meaning
<1>1. /\ pc = "walk" /\ path # <<>> /\ path' = Tail(path) /\ node' = node /\ links' = links
      /\ pc' \in {"walk", "put"}
  BY DEF RootComponent, DotComponent, ParentComponent, RootParentComponent, Component, Put
<1>2. inode \in Inode /\ refcnt[inode] > 0
  <2>1. inode # NULL
    BY <1>1 DEF IInv, ControlInv, Walk, Heading
  <2>2. QED
    BY <2>1 DEF PointersLive, Live
<1>3. PICK x \in Node, p \in Seq(Name), k \in 0 .. MAX_SYMLINK_CNT :
        x = node[inode] /\ p = path /\ k = links
  BY <1>2 DEF IInv, TypeOK, WalkInv
<1>4. Meaning = Resolve(x, p, k) /\ p # <<>> /\ Mode[x] = "DIR"
  BY <1>1, <1>3 DEF Meaning, WalkInv, ModeOf, Heading
<1>5. Meaning' = Resolve(node[inode'], Tail(p), k)
  BY <1>1, <1>3 DEF Meaning
<1>6. CASE DotComponent
  <2>1. inode' = inode /\ Head(p) = "."
    BY <1>3, <1>6 DEF DotComponent, Component
  <2>2. QED
    BY <1>3, <1>4, <1>5, <2>1, Laws
<1>7. CASE RootComponent
  <2>1. inode' = root /\ Head(p) = "/"
    BY <1>3, <1>7 DEF RootComponent, Component
  <2>2. node[root] = RootNode
    BY DEF IInv, TypeOK, WalkInv, Placed, PlacedAt
  <2>3. QED
    BY <1>4, <1>5, <2>1, <2>2, Laws
<1>8. CASE RootParentComponent
  <2>1. inode' = inode /\ Head(p) = ".." /\ parent[inode] = NULL
    BY <1>3, <1>8 DEF RootParentComponent, Component
  <2>2. x = RootNode
    BY <1>2, <1>3, <2>1 DEF Placed, PlacedAt
  <2>3. QED
    BY <1>3, <1>4, <1>5, <2>1, <2>2, Laws
<1>9. CASE ParentComponent
  <2>1. inode' = parent[inode] /\ Head(p) = ".." /\ parent[inode] # NULL
    BY <1>3, <1>9 DEF ParentComponent, Component
  <2>2. parent[inode] \in Inode
    BY <1>2, <2>1 DEF IInv, TypeOK
  <2>3. PICK d \in Node : d = node[parent[inode]]
    BY <2>2 DEF IInv, TypeOK
  <2>4. PICK nm \in DOMAIN Entries[d] : Entries[d][nm] = x
    BY <1>2, <1>3, <2>1, <2>3 DEF Placed, PlacedAt
  <2>5. Resolve(x, p, k) = Resolve(d, Tail(p), k)
    BY <1>4, <2>1, <2>4, Laws
  <2>6. QED
    BY <1>4, <1>5, <2>1, <2>3, <2>5
<1>10. QED
  BY <1>6, <1>7, <1>8, <1>9

\* The steps on an entry that has been looked up.
LEMMA EntryKeepsMeaning ==
  ASSUME ResolveLaws(Seq(Name)), IInv, PointersLive, WalkInv, FollowLink \/ EntryGood
  PROVE  Meaning' = Meaning
<1>1. pc = "entry" /\ node' = node /\ parent' = parent /\ pc' \in {"walk", "put"}
  BY DEF FollowLink, EntryGood, Put
<1>2. inode # NULL /\ parent[inode] # NULL /\ links >= 1 /\ LookedUp
  BY <1>1 DEF IInv, ControlInv, Walk, WalkInv
<1>3. inode \in Inode /\ parent[inode] \in Inode
  BY <1>2 DEF IInv, TypeOK
<1>4. PICK x \in Node, y \in Node, p \in Seq(Name), k \in 0 .. MAX_SYMLINK_CNT :
        x = node[parent[inode]] /\ y = node[inode] /\ p = path /\ k = links
  BY <1>3 DEF IInv, TypeOK, WalkInv
<1>5. /\ Meaning = Resolve(x, p, k) /\ p # <<>> /\ Head(p) \notin Special
      /\ Head(p) \in DOMAIN Entries[x] /\ y = Entries[x][Head(p)]
  BY <1>1, <1>2, <1>4 DEF Meaning, LookedUp
<1>6. Meaning' = Resolve(node[inode'], path', links')
  BY <1>1 DEF Meaning
<1>7. CASE EntryGood
  <2>1. inode' = inode /\ path' = Tail(p) /\ links' = k /\ Mode[y] # "LNK"
    BY <1>4, <1>7 DEF EntryGood, ModeOf
  <2>2. Resolve(x, p, k) = Resolve(y, Tail(p), k)
    BY <1>5, <2>1, Laws
  <2>3. QED
    BY <1>4, <1>5, <1>6, <2>1, <2>2
<1>8. CASE FollowLink
  <2>1. /\ inode' = parent[inode] /\ path' = Target[y] \o Tail(p) /\ links' = k - 1
        /\ Mode[y] = "LNK" /\ k > 1
    BY <1>4, <1>8 DEF FollowLink, ModeOf
  <2>2. Resolve(x, p, k) = Resolve(x, Target[y] \o Tail(p), k - 1)
    BY <1>5, <2>1, Laws
  <2>3. QED
    BY <1>4, <1>5, <1>6, <2>1, <2>2
<1>9. QED
  BY <1>7, <1>8

\* Looking up, releasing and ending.
LEMMA OtherKeepsMeaning ==
  ASSUME ResolveLaws(Seq(Name)), IInv, IInv', PointersLive, PointersLive', [Next]_vars,
         Searching, Searching',
         (\E x \in Inode : Iget(x)) \/ PutInode \/ PutDone \/ Found \/ UNCHANGED vars
  PROVE  Meaning' = Meaning
<1>1. node \in [Inode -> Node] /\ parent \in [Inode -> Inode \cup {NULL}]
  BY DEF IInv, TypeOK
<1>2. ASSUME NEW x \in Inode, Iget(x) PROVE Meaning' = Meaning
  <2>1. /\ parent' = [parent EXCEPT ![x] = inode] /\ inode' = x /\ path' = path
        /\ node' = [node EXCEPT ![x] = Entries[node[inode]][Head(path)]]
        /\ pc = "walk" /\ pc' = "entry" /\ links' = links /\ refcnt[x] = 0
    BY <1>2 DEF Iget, Named, FreeInodes
  <2>2. inode # NULL
    BY <2>1 DEF IInv, ControlInv, Walk, Heading
  <2>3. inode \in Inode /\ inode # x
    BY <2>1, <2>2 DEF PointersLive, Live
  <2>4. node'[parent'[x]] = node[inode]
    BY <1>1, <2>1, <2>3
  <2>5. QED
    BY <2>1, <2>4 DEF Meaning
<1>3. CASE PutInode
  <2>1. /\ pc = "put" /\ pc' = "put" /\ inode' = inode /\ path' = path /\ links' = links
        /\ cont = "walk"
    BY <1>3 DEF PutInode, Searching
  <2>2. inode # NULL
    BY <2>1 DEF IInv, ControlInv, Walk, Heading
  <2>3. PICK i \in Inode : i = inode /\ refcnt[i] # 0 /\ refcnt'[i] # 0
    BY <2>1, <2>2 DEF PointersLive, Live
  <2>4. node'[i] = node[i]
    BY <2>3, LiveStays
  <2>5. QED
    BY <2>1, <2>3, <2>4 DEF Meaning
<1>4. CASE PutDone
  <2>1. pc = "put" /\ cont = "walk"
    BY <1>4 DEF PutDone, Searching
  <2>2. QED
    BY <1>4, <2>1 DEF PutDone, Meaning
<1>5. CASE Found
  <2>1. /\ pc = "walk" /\ pc' = "found" /\ path = <<>> /\ node' = node /\ file' = file
        /\ files' = [files EXCEPT ![file].inode = inode]
    BY <1>5 DEF Found
  <2>2. inode # NULL /\ file # NULL
    BY <2>1 DEF IInv, ControlInv, FileInv, Walk, Heading
  <2>3. /\ inode \in Inode /\ file \in Slot /\ links \in 0 .. MAX_SYMLINK_CNT
        /\ files \in [Slot -> [used : BOOLEAN, inode : Inode \cup {NULL}]]
    BY <2>2 DEF IInv, TypeOK
  <2>4. files'[file'].inode = inode
    BY <2>1, <2>3
  <2>5. PICK x \in Node, k \in 0 .. MAX_SYMLINK_CNT : x = node[inode] /\ k = links
    BY <1>1, <2>3
  <2>6. Resolve(x, <<>>, k) = x
    BY DEF ResolveLaws
  <2>7. Meaning' = x
    BY <2>1, <2>4, <2>5 DEF Meaning
  <2>8. QED
    BY <2>1, <2>5, <2>6, <2>7 DEF Meaning
<1>6. CASE UNCHANGED vars
  BY <1>6 DEF vars, Meaning
<1>7. QED
  BY <1>2, <1>3, <1>4, <1>5, <1>6

\* fs.c:244-381: for every tree, every set of paths and links, and every reference
\* that obeys the laws of path lookup, a walk keeps what its path means from
\* the first component to the node that is found.
THEOREM WalkIsRight == ASSUME ResolveLaws(Seq(Name)) PROVE Spec => WalkKeepsMeaning
<1>1. ASSUME IInv, IInv', PointersLive, PointersLive', Placed, WalkInv, [Next]_vars,
             Searching, Searching'
      PROVE  Meaning' = Meaning
  <2>1. ASSUME NEW o, NEW p, Search(o, p) \/ SearchNoMemory(o, p) PROVE FALSE
    BY <1>1, <2>1 DEF Search, SearchNoMemory, Searching
  <2>2. ASSUME NEW o, NEW p, NoFile(o, p) PROVE UNCHANGED vars
    BY <2>2 DEF NoFile
  <2>3. ASSUME NEW h, Close(h) PROVE FALSE
    BY <1>1, <2>3 DEF Close, Searching
  <2>4. ASSUME IgetFails \/ EntryFails \/ Fail \/ Deliver \/ Drop \/ Chdir \/ ChdirEnds
        PROVE  FALSE
    BY <1>1, <2>4 DEF IgetFails, EntryFails, Fail, Deliver, Drop, Chdir, ChdirEnds, Searching, Put,
       Returned
  <2>5. QED
    BY <1>1, <2>1, <2>2, <2>3, <2>4, ComponentKeepsMeaning, EntryKeepsMeaning, OtherKeepsMeaning
       DEF Next, Step
<1>2. QED
  BY <1>1, WalkInvAlways, NoUseAfterFree, PTL DEF Spec, WalkKeepsMeaning

=============================================================================
