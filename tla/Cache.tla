------------------------------- MODULE Cache -------------------------------
(***************************************************************************)
(* The metadata block cache, syslinux/libcore/fs/cache.c, and the way      *)
(* fs_init and the file system drivers set it up.                          *)
(*                                                                         *)
(* The cache is an array of descriptors after a head node; the unlocked    *)
(* descriptors form a ring in order of use, the least recently used one    *)
(* right after the head.  A block's content is abstracted to the number of *)
(* the block it was read from; Junk is anything else.                      *)
(* The disk is read-only and a read may fail, in which case getoneblk      *)
(* returns nothing and the caller is not told.                             *)
(***************************************************************************)
EXTENDS Integers, Sequences

CONSTANTS
  Block,       \* the blocks that drivers ask for
  Shifts,      \* block_size_shift of the file systems that can be mounted
  CacheSize,   \* sizeof diskcache
  DescSize,    \* sizeof(struct cache)
  Width        \* cache_block_size is kept modulo Width, 2^16

NoBlock == -1     \* block_t -1 in an empty descriptor
NULL == -1        \* a null descriptor pointer
Junk == -1        \* content of a data area that no read has filled completely
Zero == -2        \* a data area filled by memset
cache_head == 0

VARIABLES
  phase,       \* "boot", "probe", "mounting", "ready" or "halted"
  fs,          \* the driver being set up; "plain" is vfat or ntfs
  shift,       \* the block size shift passed to cache_init
  n,           \* dev->cache_entries
  next, prev,  \* links of the head and of the descriptors 1 .. n
  block,       \* which block a descriptor stands for
  data,        \* what its data area holds
  ret,         \* what the last get_cache did
  failed,      \* history: blocks whose last read failed
  recent       \* history: the last requests, as <<block, descriptor>>, oldest first

vars == <<phase, fs, shift, n, next, prev, block, data, ret, failed, recent>>

Entry == 1 .. n
Node == 0 .. n
Locked == {e \in Entry : next[e] = NULL}

BlockSize(k) == 2 ^ k
cache_block_size(k) == BlockSize(k) % Width

\* cache_init: how many descriptors fit, in the code's arithmetic.
CacheEntries(k) == (CacheSize - DescSize) \div (cache_block_size(k) + DescSize)

\* "Cache unusably small": cache_head would be NULL.
Unusable(k) == CacheSize < cache_block_size(k) + 2 * DescSize

ASSUME CacheAssumption ==
  /\ Block \subseteq Nat
  /\ CacheSize \in Nat /\ DescSize \in Nat \ {0} /\ Width \in Nat \ {0}
  /\ Shifts \subseteq Nat
  /\ \A k \in Shifts : BlockSize(k) \in 0 .. Width - 1 /\ ~ Unusable(k)

(***************************************************************************)
(* Rings, as pairs of link functions.                                      *)
(***************************************************************************)
ring == [nx |-> next, pv |-> prev]

\* Mutant: the last descriptor is linked to the one after it.
FreshRingOpen(m) ==
  [nx |-> [i \in 0 .. m |-> i + 1],
   pv |-> [i \in 0 .. m |-> IF i = cache_head THEN m ELSE i - 1]]

\* cache_init: all descriptors, in array order.
FreshRing(m) ==
  [nx |-> [i \in 0 .. m |-> IF i = m THEN cache_head ELSE i + 1],
   pv |-> [i \in 0 .. m |-> IF i = cache_head THEN m ELSE i - 1]]

\* The neighbours of a node are joined; the node keeps its own links.
Unlinked(r, e) ==
  [nx |-> [r.nx EXCEPT ![r.pv[e]] = r.nx[e]],
   pv |-> [r.pv EXCEPT ![r.nx[e]] = r.pv[e]]]

\* Mutant: head->prev is read before the node is taken out.
MovedToEndStale(r, e) ==
  LET u == Unlinked(r, e)
      last == r.pv[cache_head]
  IN [nx |-> [u.nx EXCEPT ![last] = e, ![e] = cache_head],
      pv |-> [u.pv EXCEPT ![e] = last, ![cache_head] = e]]

\* The tail of _get_cache_block: the node goes to the end of the ring.
MovedToEnd(r, e) ==
  LET u == Unlinked(r, e)
      last == u.pv[cache_head]
  IN [nx |-> [u.nx EXCEPT ![last] = e, ![e] = cache_head],
      pv |-> [u.pv EXCEPT ![e] = last, ![cache_head] = e]]

\* cache_lock_block
LockBlock(r, e) ==
  LET u == Unlinked(r, e)
  IN [nx |-> [u.nx EXCEPT ![e] = NULL], pv |-> [u.pv EXCEPT ![e] = NULL]]

(***************************************************************************)
(* cache_init.  The data areas keep what they held.                        *)
(***************************************************************************)
CacheInit(k) ==
  /\ n' = CacheEntries(k)
  /\ next' = FreshRing(CacheEntries(k)).nx
  /\ prev' = FreshRing(CacheEntries(k)).pv
  /\ block' = [i \in 0 .. CacheEntries(k) |-> NoBlock]
  /\ recent' = <<>>

Areas(k) == [i \in 1 .. CacheEntries(k) |-> Junk]

(***************************************************************************)
(* _get_cache_block and get_cache.  The descriptor is renamed before the   *)
(* block is read, and the outcome of the read is not looked at.            *)
(***************************************************************************)
Holding(b) == {e \in Entry : block[e] = b}

\* Mutant: the victim is taken from the wrong end of the ring.
ChosenMostRecent(b) ==
  IF Holding(b) # {} THEN CHOOSE e \in Holding(b) : \A f \in Holding(b) : e <= f
                     ELSE prev[cache_head]

\* The descriptor of the block, or the least recently used one.
Chosen(b) ==
  IF Holding(b) # {} THEN CHOOSE e \in Holding(b) : \A f \in Holding(b) : e <= f
                     ELSE next[cache_head]

\* Only a descriptor that is in the ring is moved.
Touched(e) == IF next[e] = NULL THEN ring ELSE MovedToEnd(ring, e)

\* The history keeps the last n distinct requests, in order: the earlier one
\* for the same block, or else the oldest of n, is left out.
Asked(b) == {i \in 1 .. Len(recent) : recent[i][1] = b}
LeftOut(b) ==
  IF Asked(b) # {} THEN CHOOSE i \in Asked(b) : TRUE
  ELSE IF Len(recent) = n THEN 1 ELSE Len(recent) + 1
Kept(b) == IF LeftOut(b) > Len(recent) THEN Len(recent) + 1 ELSE Len(recent)
Remember(b, e) ==
  [i \in 1 .. Kept(b) |-> IF i = Kept(b) THEN <<b, e>>
                          ELSE IF i < LeftOut(b) THEN recent[i] ELSE recent[i + 1]]

\* What get_cache returns, and whether its read, if there was one, worked.
Result(b, e, d, ok) == [block |-> b, entry |-> e, data |-> d, ok |-> ok]

Hit(b, e) ==
  /\ block[e] = b
  /\ UNCHANGED <<block, data, failed>>
  /\ ret' = Result(b, e, data[e], TRUE)

\* Mutant: a descriptor that was in use is renamed but its data is not read.
LoadOnlyEmpty(b, e, ok) ==
  LET d == IF block[e] = NoBlock THEN IF ok THEN b ELSE Junk ELSE data[e] IN
  /\ block[e] # b
  /\ block' = [block EXCEPT ![e] = b]
  /\ data' = [data EXCEPT ![e] = d]
  /\ failed' = IF ok THEN failed \ {b} ELSE failed \cup {b}
  /\ ret' = Result(b, e, d, ok)

\* A read that fails leaves what was there, or part of a transfer.
Load(b, e, ok) ==
  \E d \in IF ok THEN {b} ELSE {data[e], Junk} :
    /\ block[e] # b
    /\ block' = [block EXCEPT ![e] = b]
    /\ data' = [data EXCEPT ![e] = d]
    /\ failed' = IF ok THEN failed \ {b} ELSE failed \cup {b}
    /\ ret' = Result(b, e, d, ok)

GetCache(b, ok) ==
  LET e == Chosen(b) IN
  /\ next' = Touched(e).nx /\ prev' = Touched(e).pv
  /\ Hit(b, e) \/ Load(b, e, ok)
  /\ recent' = Remember(b, e)
  /\ UNCHANGED <<phase, fs, shift, n>>

(***************************************************************************)
(* Mounting.  fs_init tries vfat, ext2, ntfs and btrfs in this order; the  *)
(* first three check the super block before they touch the cache, so only  *)
(* the driver that is finally taken calls cache_init, and btrfs, which     *)
(* reads its super block through the cache, is the last one.               *)
(***************************************************************************)
\* vfat_fs_init and ntfs_fs_init end with cache_init.
PlainFsInit(k) ==
  /\ phase = "boot"
  /\ CacheInit(k)
  /\ data' = Areas(k)
  /\ fs' = "plain" /\ shift' = k /\ phase' = "mounting"
  /\ UNCHANGED <<ret, failed>>

\* ext2_fs_init: cache_init, then _get_cache_block(0) on the fresh ring, a
\* memset of its data, and cache_lock_block.
Ext2FsInit(k) ==
  LET m == CacheEntries(k)
      e == FreshRing(m).nx[cache_head]
      r == LockBlock(MovedToEnd(FreshRing(m), e), e)
  IN
  /\ phase = "boot"
  /\ n' = m /\ next' = r.nx /\ prev' = r.pv
  /\ block' = [i \in 0 .. m |-> NoBlock]
  /\ data' = [Areas(k) EXCEPT ![e] = Zero]
  /\ recent' = <<>>
  /\ fs' = "ext2" /\ shift' = k /\ phase' = "mounting"
  /\ UNCHANGED <<ret, failed>>

\* btrfs_fs_init: cache_init, then the super block mirrors are read through
\* the cache; a bad magic makes the mount fail.
BtrfsFsInit(k) ==
  /\ phase = "boot"
  /\ CacheInit(k)
  /\ data' = Areas(k)
  /\ fs' = "btrfs" /\ shift' = k /\ phase' = "probe"
  /\ UNCHANGED <<ret, failed>>

ProbeRead(b, ok) == phase = "probe" /\ GetCache(b, ok)

ProbeGood ==
  /\ phase = "probe"
  /\ phase' = "mounting"
  /\ UNCHANGED <<fs, shift, n, next, prev, block, data, ret, failed, recent>>

\* "No valid file system found!" is followed by an endless loop.
ProbeBad ==
  /\ phase = "probe"
  /\ phase' = "halted"
  /\ UNCHANGED <<fs, shift, n, next, prev, block, data, ret, failed, recent>>

Hang == phase = "halted" /\ UNCHANGED vars

\* fs_init calls cache_init once more, whatever the driver has done.
FsInit ==
  /\ phase = "mounting"
  /\ CacheInit(shift)
  /\ phase' = "ready"
  /\ UNCHANGED <<fs, shift, data, ret, failed>>

\* A driver reads a metadata block.
Read(b, ok) == phase = "ready" /\ GetCache(b, ok)

Init ==
  /\ phase = "boot" /\ fs = "none" /\ shift = 0 /\ n = 0
  /\ next = <<>> /\ prev = <<>> /\ block = <<>> /\ data = <<>>
  /\ ret = Result(NoBlock, cache_head, Junk, TRUE)
  /\ failed = {} /\ recent = <<>>

Next ==
  \/ \E k \in Shifts : PlainFsInit(k) \/ Ext2FsInit(k) \/ BtrfsFsInit(k)
  \/ \E b \in Block, ok \in BOOLEAN : ProbeRead(b, ok) \/ Read(b, ok)
  \/ ProbeGood \/ ProbeBad \/ FsInit \/ Hang

Spec == Init /\ [][Next]_vars

-----------------------------------------------------------------------------
Mounted == phase \in {"probe", "mounting", "ready"}

\* The state has the shape struct device and struct cache give it.
TypeOK ==
  /\ phase \in {"boot", "probe", "mounting", "ready", "halted"}
  /\ fs \in {"none", "plain", "ext2", "btrfs"}
  /\ n \in Nat /\ shift \in Nat
  /\ phase # "boot" =>
       /\ next \in [Node -> Node \cup {NULL}]
       /\ prev \in [Node -> Node \cup {NULL}]
       /\ block \in [Node -> Block \cup {NoBlock}]
       /\ data \in [Entry -> Block \cup {Junk, Zero}]

\* cache.c:82-104.  The head and the unlocked descriptors are doubly linked:
\* links are inverse to each other, never lead to a locked descriptor, and no
\* request is ever served from the head node, whose data pointer is NULL.  A block
\* is in at most one descriptor.
RingInv ==
  Mounted =>
    /\ \A i \in Node \ Locked :
         /\ next[i] \in Node \ Locked /\ prev[i] \in Node \ Locked
         /\ prev[next[i]] = i /\ next[prev[i]] = i
    /\ ret.block # NoBlock => ret.entry # cache_head
    /\ \A e, f \in Entry : block[e] = block[f] => e = f \/ block[e] = NoBlock

\* cache.c:94-103.  Drivers keep the pointers get_cache returns while they
\* read further blocks.  Such a pointer stays good until as many other blocks
\* as there are descriptors have been asked for.
PointerStaysValid ==
  Mounted => \A i \in 1 .. Len(recent) : block[recent[i][2]] = recent[i][1]

\* cache.c:119-122.  The data of a descriptor belongs to its block, unless the
\* read that should have filled it failed.
DataMatchesBlock ==
  Mounted => \A e \in Entry : block[e] \in Block \ failed => data[e] = block[e]

-----------------------------------------------------------------------------
(* What comments say and the code does not do. *)

\* ext2.c:315: "force block zero to all zero".  On ext2 a request for block 0,
\* which is what a hole maps to, yields zeros.
BlockZeroIsZero ==
  phase = "ready" /\ fs = "ext2" /\ ret.block = 0 /\ ret.ok
    => ret.data = Zero
=============================================================================
