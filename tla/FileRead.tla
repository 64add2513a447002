------------------------------ MODULE FileRead ------------------------------
(***************************************************************************)
(* Reading a file: generic_getfssec (syslinux/libcore/fs/getfssec.c) on    *)
(* top of fat_next_extent (fs/fat/fat.c) or ext2_next_extent               *)
(* (fs/ext2/bmap.c), called by getfssec, getfsbytes and pmapi_read_file    *)
(* (fs/fs.c).                                                              *)
(*                                                                         *)
(* A sector's content is its number on the disk.  The sequence chain says  *)
(* which clusters (blocks, on ext2) hold the file: on FAT the file         *)
(* allocation table links each to the next, on ext2 the block map lists    *)
(* them and Hole marks a block that is not there.  Transfers themselves    *)
(* are the subject of DiskIO; here they succeed.                           *)
(***************************************************************************)
EXTENDS Integers, Sequences, Functions

CONSTANTS
  SectorSize,      \* bytes in a sector
  ClusterSecs,     \* sectors in a cluster
  NClusters,       \* sbi->clusters
  DataArea,        \* sbi->data, the sector where cluster 2 starts
  Root, RootSize,  \* sbi->root and the root directory's size in bytes
  Word,            \* 2^32: sizes and offsets are kept modulo Word
  FatChains,       \* the cluster chains files can have on FAT
  Ext2Chains,      \* the block maps files can have on ext2
  Sizes,           \* the file sizes directory entries can have
  MaxSectors       \* bound: sectors asked for in one call

Cluster == 2 .. NClusters + 1
EOC == NClusters + 3      \* what ends a chain: not a cluster, nor the number after one
Hole == 0                 \* no block on the disk: reads as zeros
EXTENT_ZERO == -1
NoSector == -2            \* nowhere on the disk
ClusterBytes == ClusterSecs * SectorSize
CeilDiv(a, b) == (a + b - 1) \div b

ASSUME ReadAssumption ==
  /\ SectorSize \in Nat \ {0} /\ ClusterSecs \in Nat \ {0}
  /\ NClusters \in Nat /\ DataArea \in Nat /\ Word \in Nat
  /\ Root \in 0 .. DataArea - 1 /\ RootSize \in 0 .. Word - 1
  /\ (EOC - 2) * ClusterSecs < Word          \* sectors are counted in 32 bits
  /\ FatChains \subseteq Seq(Cluster) /\ Ext2Chains \subseteq Seq(Cluster \cup {Hole})
  /\ \A s \in FatChains : IsInjective(s)     \* a cluster has one successor
  /\ Sizes \subseteq 0 .. Word - 1 /\ MaxSectors \in Nat

VARIABLES
  fs,                        \* fs_ops: "fat" or "ext2"
  chain, entrysize,          \* the directory entry and the chain on the disk
  size, this, nxt,           \* inode->size, this_extent, next_extent
  start, pvt,                \* PVT(inode): start_cluster; offset and here
  offset,                    \* file->offset
  pc,                        \* "idle", "extent", "io", "ret" or "closed"
  sectors, left, bytes,      \* locals: sectors still to read, bytes_left, bytes_read
  more,                      \* *have_more
  got                        \* history: the sectors put in the callers' buffers

vars == <<fs, chain, entrysize, start, size, this, nxt, pvt, offset, pc, sectors, left,
          bytes, more, got>>

NoExtent == [pstart |-> 0, lstart |-> 0, len |-> 0]

\* The sector where a cluster starts, and the file's sector i on the disk.
ClusterStart(c) == (c - 2) * ClusterSecs + DataArea
Phys(i) ==
  LET m == i \div ClusterSecs
  IN IF m >= Len(chain) THEN NoSector
     ELSE IF chain[m + 1] = Hole THEN EXTENT_ZERO
     ELSE ClusterStart(chain[m + 1]) + (i % ClusterSecs)

\* next_psector: an extent of zeros has no place to advance.
next_psector(p, k) == IF p = EXTENT_ZERO THEN p ELSE p + k

\* get_next_cluster
Fat(c) ==
  IF \E i \in 1 .. Len(chain) - 1 : chain[i] = c
  THEN chain[1 + CHOOSE i \in 1 .. Len(chain) - 1 : chain[i] = c]
  ELSE EOC

(***************************************************************************)
(* vfat_find_entry fills in the inode.  An entry whose first cluster is 0  *)
(* is taken for the root directory; that is also how an empty file looks.  *)
(* sbi->root_cluster, which then becomes the start cluster, is never set.  *)
(***************************************************************************)
InodeSize == IF fs = "fat" /\ chain = <<>> THEN RootSize ELSE entrysize
StartClusters == IF chain = <<>> THEN 0 .. EOC ELSE {chain[1]}
FirstSector ==
  IF fs = "ext2" THEN 0 ELSE IF chain = <<>> THEN Root ELSE ClusterStart(chain[1])

\* The chain is as long as the size says.  A damaged FAT has others; on ext2
\* what is missing is a hole.
Complete == Len(chain) = CeilDiv(entrysize, ClusterBytes)

Init ==
  /\ \/ fs = "fat" /\ chain \in FatChains /\ entrysize \in Sizes
     \/ fs = "ext2" /\ chain \in Ext2Chains /\ entrysize \in Sizes /\ Complete
  /\ start \in StartClusters /\ size = InodeSize
  /\ this = NoExtent /\ nxt = NoExtent
  /\ pvt = [offset |-> 0, here |-> FirstSector]
  /\ offset = 0 /\ pc = "idle"
  /\ sectors = 0 /\ left = 0 /\ bytes = 0 /\ more = TRUE /\ got = <<>>

\* The file, which has been closed, is opened again.
FindEntry ==
  /\ pc = "closed"
  /\ start' \in StartClusters /\ size' = InodeSize
  /\ this' = NoExtent /\ nxt' = NoExtent
  /\ pvt' = [offset |-> 0, here |-> FirstSector]
  /\ offset' = 0 /\ pc' = "idle"
  /\ sectors' = 0 /\ left' = 0 /\ bytes' = 0 /\ more' = TRUE /\ got' = <<>>
  /\ UNCHANGED <<fs, chain, entrysize>>

(***************************************************************************)
(* fat_next_extent: follow the chain from the remembered place, or from    *)
(* the start, to the cluster wanted; then see how far it is contiguous.    *)
(***************************************************************************)
\* The cluster k links further on; a chain that has ended stays ended.
Follow(c, k) ==
  LET f[j \in 0 .. k] == IF j = 0 THEN c
                         ELSE IF f[j - 1] \in Cluster THEN Fat(f[j - 1]) ELSE EOC
  IN f[k]

Remembered(m) == pvt.offset \div ClusterSecs <= m /\ pvt.here >= DataArea

WalkFrom(m) ==
  IF Remembered(m)
  THEN [l |-> pvt.offset \div ClusterSecs, c |-> ((pvt.here - DataArea) \div ClusterSecs) + 2]
  ELSE [l |-> 0, c |-> start]

\* Mutant: a last cluster that is not full does not count.
TotalClustersFull == size \div ClusterBytes

TotalClusters == ((size + ClusterBytes - 1) % Word) \div ClusterBytes

\* Mutant: a run may go on past a jump in the chain.
RunLengthTooFar(c, m) ==
  IF TotalClusters - m > 1 THEN 2 ELSE 1

\* The number of clusters from cluster c, number m of the file, that follow
\* each other on the disk and in the file.
RunLength(c, m) ==
  CHOOSE r \in 1 .. TotalClusters - m :
    /\ \A k \in 1 .. r - 1 : Fat(c + k - 1) = c + k
    /\ r < TotalClusters - m => Fat(c + r - 1) # c + r

\* The place remembered for the next call: the cluster after the run.  At the
\* end of the file, the last cluster that get_next_cluster was asked for.
PlaceAfter(c, r, m) ==
  LET x == IF m + r < TotalClusters THEN Fat(c + r - 1) ELSE IF r = 1 THEN 0 ELSE c + r - 1
  IN [offset |-> (m + r) * ClusterSecs, here |-> (((x - 2) * ClusterSecs) % Word) + DataArea]

\* The result: whether it failed, and the new size, extent and place.
FatNextExtent(lstart) ==
  LET m == lstart \div ClusterSecs
      w == WalkFrom(m)
      c == Follow(w.c, m - w.l)
      bad == {k \in 0 .. m - w.l : Follow(w.c, k) \notin Cluster}
      r == RunLength(c, m)
  IN IF m >= TotalClusters
     THEN [err |-> TRUE, size |-> size, pvt |-> pvt, pstart |-> nxt.pstart, len |-> 0]
     ELSE IF bad # {}
     THEN [err |-> TRUE, pvt |-> pvt, pstart |-> nxt.pstart, len |-> 0,
           size |-> (w.l + CHOOSE k \in bad : \A j \in bad : k <= j) * ClusterSecs]
     ELSE [err |-> FALSE, size |-> size,
           pstart |-> ClusterStart(c), len |-> r * ClusterSecs,
           pvt |-> PlaceAfter(c, r, m)]

(***************************************************************************)
(* ext2_next_extent.  ext2_bmap gives the block and a low estimate of how  *)
(* many blocks follow it, zeros after a hole; the estimate depends on      *)
(* where the indirect blocks end.                                          *)
(***************************************************************************)
Follows(m, k) == IF chain[m + 1] = Hole THEN Hole ELSE chain[m + 1] + k
Estimates(m) ==
  {k \in 1 .. Len(chain) - m : \A j \in 1 .. k - 1 : chain[m + 1 + j] = Follows(m, j)}

Ext2NextExtents(lstart) ==
  LET m == lstart \div ClusterSecs
      c == chain[m + 1]
  IN {[err |-> FALSE, size |-> size, pvt |-> pvt,
       pstart |-> IF c = Hole THEN EXTENT_ZERO
                  ELSE ClusterStart(c) + (lstart % ClusterSecs),
       len |-> nblocks * ClusterSecs - (lstart % ClusterSecs)] : nblocks \in Estimates(m)}

\* fs_ops->next_extent
NextExtents(lstart) ==
  IF fs = "fat" THEN {FatNextExtent(lstart)} ELSE Ext2NextExtents(lstart)

(***************************************************************************)
(* generic_getfssec                                                        *)
(***************************************************************************)
BytesLeft == (size - offset) % Word
SectorsLeft == ((BytesLeft + SectorSize - 1) % Word) \div SectorSize
SectorOf(b) == b \div SectorSize
Contains(e, l) == e.lstart <= l /\ l < e.lstart + e.len

\* Mutant: the length is subtracted the wrong way round.
FromReversed(e, l) == [pstart |-> next_psector(e.pstart, l - e.lstart), lstart |-> l,
                       len |-> (l - e.lstart) - e.len]

\* An extent whose start is moved up to sector l.
From(e, l) == [pstart |-> next_psector(e.pstart, l - e.lstart), lstart |-> l,
               len |-> e.len - (l - e.lstart)]

\* The call begins: what is left of the file, and what is known of its place.
Getfssec(k) ==
  LET want == IF k > SectorsLeft THEN SectorsLeft ELSE k
      l == SectorOf(offset)
  IN
  /\ pc = "idle" /\ want > 0
  /\ sectors' = want /\ left' = BytesLeft /\ bytes' = 0
  /\ this' = IF Contains(this, l) THEN From(this, l)
             ELSE IF Contains(nxt, l) THEN From(nxt, l)
             ELSE [nxt EXCEPT !.lstart = l, !.len = 0]
  /\ pc' = "extent"
  /\ UNCHANGED <<fs, chain, entrysize, start, size, nxt, pvt, offset, more, got>>

\* Nothing to read: the call returns 0 and leaves *have_more, a local variable
\* of the caller that nobody has set, as it is.
GetfssecNothing(k) ==
  /\ pc = "idle"
  /\ k = 0 \/ SectorsLeft = 0
  /\ bytes' = 0 /\ more' \in BOOLEAN
  /\ pc' = "ret"
  /\ UNCHANGED <<fs, chain, entrysize, start, size, this, nxt, pvt, offset, sectors, left, got>>

NextIsStale == nxt.len = 0 \/ nxt.lstart # this.lstart + this.len

\* get_next_extent, if what is known of the next extent is of no use.
LookAhead ==
  /\ pc = "extent" /\ sectors > this.len /\ NextIsStale
  /\ \E r \in NextExtents(this.lstart + this.len) :
     /\ size' = r.size /\ pvt' = r.pvt
     /\ nxt' = [pstart |-> r.pstart, len |-> IF r.err THEN 0 ELSE r.len,
                lstart |-> this.lstart + this.len]
  /\ pc' = "join"
  /\ UNCHANGED <<fs, chain, entrysize, start, this, offset, sectors, left, bytes, more, got>>

KnowNext ==
  /\ pc = "extent" /\ sectors > this.len /\ ~ NextIsStale
  /\ pc' = "join"
  /\ UNCHANGED <<fs, chain, entrysize, start, size, this, nxt, pvt, offset, sectors, left,
                 bytes, more, got>>

Enough ==
  /\ pc = "extent" /\ sectors <= this.len
  /\ pc' = "io"
  /\ UNCHANGED <<fs, chain, entrysize, start, size, this, nxt, pvt, offset, sectors, left,
                 bytes, more, got>>

\* Mutant: the extent looked up is not taken over.
TakeNextForgets ==
  /\ pc = "join" /\ this.len = 0
  /\ IF nxt.len = 0 THEN sectors' = 0 /\ pc' = "io"
                    ELSE UNCHANGED sectors /\ pc' = "extent"
  /\ UNCHANGED <<fs, chain, entrysize, start, size, this, nxt, pvt, offset, left, bytes, more, got>>

\* The first extent of this call; nothing can be read without one.
TakeNext ==
  /\ pc = "join" /\ this.len = 0
  /\ this' = nxt
  /\ IF nxt.len = 0 THEN sectors' = 0 /\ pc' = "io"
                    ELSE UNCHANGED sectors /\ pc' = "extent"
  /\ UNCHANGED <<fs, chain, entrysize, start, size, nxt, pvt, offset, left, bytes, more, got>>

Contiguous == nxt.len > 0 /\ nxt.pstart = next_psector(this.pstart, this.len)

Coalesce ==
  /\ pc = "join" /\ this.len > 0 /\ Contiguous
  /\ this' = [this EXCEPT !.len = @ + nxt.len]
  /\ pc' = "extent"
  /\ UNCHANGED <<fs, chain, entrysize, start, size, nxt, pvt, offset, sectors, left, bytes,
                 more, got>>

Discontiguous ==
  /\ pc = "join" /\ this.len > 0 /\ ~ Contiguous
  /\ pc' = "io"
  /\ UNCHANGED <<fs, chain, entrysize, start, size, this, nxt, pvt, offset, sectors, left,
                 bytes, more, got>>

\* Mutant: the transfer starts one sector late.
ReadChunkOneLate ==
  LET n == IF sectors < this.len THEN sectors ELSE this.len IN
  /\ pc = "io" /\ n > 0
  /\ got' = got \o [i \in 1 .. n |-> next_psector(this.pstart, i)]
  /\ this' = [pstart |-> next_psector(this.pstart, n), lstart |-> this.lstart + n, len |-> this.len - n]
  /\ sectors' = sectors - n /\ bytes' = bytes + n * SectorSize
  /\ pc' = IF sectors = n THEN "end" ELSE "extent"
  /\ UNCHANGED <<fs, chain, entrysize, start, size, nxt, pvt, offset, left, more>>

\* One transfer.
ReadChunk ==
  LET n == IF sectors < this.len THEN sectors ELSE this.len IN
  /\ pc = "io" /\ n > 0
  /\ got' = got \o [i \in 1 .. n |-> next_psector(this.pstart, i - 1)]
  /\ this' = [pstart |-> next_psector(this.pstart, n), lstart |-> this.lstart + n, len |-> this.len - n]
  /\ sectors' = sectors - n /\ bytes' = bytes + n * SectorSize
  /\ pc' = IF sectors = n THEN "end" ELSE "extent"
  /\ UNCHANGED <<fs, chain, entrysize, start, size, nxt, pvt, offset, left, more>>

Dead ==
  /\ pc = "io" /\ sectors = 0
  /\ pc' = "end"
  /\ UNCHANGED <<fs, chain, entrysize, start, size, this, nxt, pvt, offset, sectors, left,
                 bytes, more, got>>

End ==
  LET n == IF bytes < left THEN bytes ELSE left IN
  /\ pc = "end"
  /\ bytes' = n /\ offset' = offset + n /\ more' = (n < left)
  /\ pc' = "ret"
  /\ UNCHANGED <<fs, chain, entrysize, start, size, this, nxt, pvt, sectors, left, got>>

\* The caller: at the end of the file, the file is closed.
Return ==
  /\ pc = "ret"
  /\ pc' = IF more THEN "idle" ELSE "closed"
  /\ UNCHANGED <<fs, chain, entrysize, start, size, this, nxt, pvt, offset, sectors, left,
                 bytes, more, got>>

Inside ==
  \/ LookAhead \/ KnowNext \/ Enough \/ TakeNext \/ Coalesce \/ Discontiguous
  \/ ReadChunk \/ Dead \/ End

Step == Inside \/ Return

Next ==
  \/ \E k \in 0 .. MaxSectors : Getfssec(k) \/ GetfssecNothing(k)
  \/ Step \/ FindEntry

Spec == Init /\ [][Next]_vars /\ WF_vars(Step)

-----------------------------------------------------------------------------
Extent == [pstart : Nat \cup {EXTENT_ZERO}, lstart : Nat, len : Nat]

TypeOK ==
  /\ size \in 0 .. Word - 1 /\ offset \in 0 .. Word - 1
  /\ this \in Extent /\ nxt \in Extent
  /\ pvt \in [offset : Nat, here : Nat]
  /\ pc \in {"idle", "extent", "join", "io", "end", "ret", "closed"}
  /\ sectors \in Nat /\ left \in 0 .. Word - 1 /\ bytes \in Nat /\ more \in BOOLEAN

\* getfssec.c:134-185.  However the reads are cut up, the buffers get the
\* sectors of the file, each once and in order.
ContentInOrder == \A i \in 1 .. Len(got) : got[i] = Phys(i - 1)

\* getfssec.c:109-127, 138-158, fat.c:117-134.  An extent, as looked up,
\* coalesced and cut, maps file sectors to the disk sectors that hold them.
ExtentsTrue ==
  \A e \in {this, nxt} : \A k \in 0 .. e.len - 1 :
    (e.lstart + k) * SectorSize < size => Phys(e.lstart + k) = next_psector(e.pstart, k)

\* fat.c:103-108, 136-138.  The place remembered in the chain is the right one
\* unless it is at or after the end of the file, or the chain is broken.
PlaceTrue ==
  fs = "fat" /\ Complete /\ pvt.offset * SectorSize < size => pvt.here = Phys(pvt.offset)

\* getfssec.c:187-191, fs.c:128-131.  A read of a file that is not empty says
\* that there is no more exactly when the last byte has been delivered, if the
\* clusters for all of it are there.
EndReportedAtEnd ==
  Complete /\ pc = "ret" /\ bytes > 0 => (more <=> offset < entrysize)

\* A file whose clusters are all there and whose size can be rounded up in 32
\* bits, as FileSpec sees it; of any other file FileSpec says nothing.
Sound ==
  Complete /\ (fs = "fat" => chain # <<>>) /\ entrysize + ClusterBytes <= Word
FileSectors == CeilDiv(entrysize, SectorSize)
Content == [i \in 1 .. FileSectors |-> Phys(i - 1)]
CallState == CASE pc = "idle" -> "open" [] pc = "ret" -> "told" [] pc = "closed" -> "closed"
               [] OTHER -> "busy"

FS == INSTANCE FileSpec WITH
        content  <- IF Sound THEN Content ELSE <<>>,
        length   <- IF Sound THEN entrysize ELSE 0,
        state    <- IF Sound THEN CallState ELSE "open",
        given    <- IF Sound THEN got ELSE <<>>,
        owed     <- IF Sound THEN sectors ELSE 0,
        position <- IF Sound THEN offset ELSE 0,
        left     <- IF Sound THEN more ELSE TRUE

\* getfssec.c:88-194, fat.c:86-144, bmap.c:194-228.  Reading implements FileSpec:
\* a call is never given up half-way because an extent is not found; whatever it
\* has asked for it gets, and the offset and the answer are the right ones.
ImplementsFileSpec == FS!Spec

\* getfssec.c:138-159.  The search for extents ends and every read returns.
CallsReturn == (pc \in {"extent", "join", "io", "end", "ret"}) ~> (pc \in {"idle", "closed"})

-----------------------------------------------------------------------------
(* What a comment says and the code does not do. *)

\* pmapi.h:49: size is the "File size".  When the chain ends early, fat.c:113
\* cuts the size down to what the clusters hold: never less than what has been
\* read already.
SizeCoversWhatWasRead == size >= offset

\* pmapi.h:49, getc.inc:52 ("file not found or zero length"): an empty file has
\* no content, so that nothing is ever read from it.
NothingReadFromEmptyFile == entrysize = 0 => got = <<>>
=============================================================================
