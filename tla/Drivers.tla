------------------------------- MODULE Drivers -------------------------------
(***************************************************************************)
(* The file system drivers at work behind struct fs_ops (fs.h): a volume   *)
(* is mounted, names are looked up in its root, the root is listed and a   *)
(* file is read, in any order.  A call runs to its end before the next one *)
(* starts (there is one thread); the drivers themselves are operators of   *)
(* Ext2, FatDir, Btrfs and Ntfs.                                           *)
(*                                                                         *)
(* A volume has kind, img (what the driver reads) and what the image       *)
(* was made from: names (to look up), listing (the names of the root with  *)
(* their inodes, in the order of the driver), expect (the inode of every   *)
(* name looked up, -1: none), file (a name), runs (where its sectors lie:  *)
(* l, p, n) and small (where the units of a small file lie).               *)
(***************************************************************************)
EXTENDS Integers, Sequences, Ext2, FatDir, Btrfs, Ntfs

CONSTANTS
  Volumes,      \* the volumes, one of which is mounted: a sequence
  MaxRead,      \* the most sectors asked for in one read
  MaxListed     \* bound: names a listing returns

ASSUME VolumesAssumption ==
  /\ MaxRead \in Nat /\ MaxListed \in Nat
  /\ \A i \in DOMAIN Volumes :
       LET v == Volumes[i]
       IN CASE v.kind = "ext2"  -> Ext2Image(v.img)
            [] v.kind = "vfat"  -> FatImage(v.img)
            [] v.kind = "btrfs" -> BtrfsImage(v.img)
            [] v.kind = "ntfs"  -> NtfsImage(v.img)

VARIABLES
  vol,      \* the volume
  mnt,      \* struct fs_info and the driver's own data
  ans,      \* the last name looked up and the inode found, -1 is NULL
  dir,      \* the open directory: whether it is open, its handle, the end,
            \* moved: the heap has changed while the handle held an address
  got,      \* the names that readdir returned on it
  rs,       \* NTFS: the one readdir_state
  clean,    \* history: nothing else has used rs since this listing began
  fil,      \* the open file: its inode, how much has been mapped or read
  last      \* what the last call on the file returned

vars == <<vol, mnt, ans, dir, got, rs, clean, fil, last>>

NONE == [ino |-> -1]
NoAnswer == [name |-> <<>>, ino |-> -1]
Closed == [open |-> FALSE]
Nothing == [kind |-> "none"]

-----------------------------------------------------------------------------
(* The calls through fs->fs_ops. *)

\* junk: what an uninitialized fsid of the btrfs driver holds.
fs_init(v, junk) ==
  CASE v.kind = "btrfs" -> btrfs_fs_init(v.img, junk)
    [] v.kind = "ntfs"  -> ntfs_fs_init(v.img)
    [] OTHER -> [ok |-> TRUE]

\* The root's inode, and what fetching it leaves in the driver's own data.
iget_root(v, m) ==
  CASE v.kind = "ext2"  -> [m |-> m, inode |-> [ino |-> ext2_iget_root(v.img)]]
    [] v.kind = "vfat"  -> [m |-> m, inode |-> [ino |-> vfat_iget_root(v.img).start]]
    [] v.kind = "btrfs" -> [m |-> m, inode |-> btrfs_iget_root(v.img, m)]
    [] v.kind = "ntfs"  -> ntfs_iget_root(v.img, m)

iget(v, m, name) ==
  LET inode(n) == IF n \in DOMAIN v.img.inodes
                  THEN [ino |-> n, extents |-> v.img.inodes[n].extents] ELSE NONE
  IN CASE v.kind = "ext2"  -> inode(ext2_iget(v.img, name, v.img.inodes[m.root]))
       [] v.kind = "vfat"  -> vfat_iget(v.img, name, m.root)
       [] v.kind = "btrfs" -> btrfs_iget(v.img, m, name, m.root)
       [] v.kind = "ntfs"  -> ntfs_iget(v.img, m, name, m.root)

\* The handle h is what struct file and its inode keep of the position; there is
\* what an address in it leads to.
readdir(v, m, h, st, there) ==
  LET offset(r) == [r |-> r, h |-> r.offset, rs |-> st]
      f(r) == [r |-> r, h |-> r.f, rs |-> st]
      state(r) == [r |-> r, h |-> r.offset, rs |-> r.rs]
  IN CASE v.kind = "ext2"  -> offset(ext2_readdir(v.img, v.img.inodes[m.root], h))
       [] v.kind = "vfat"  -> f(vfat_readdir(v.img, h))
       [] v.kind = "btrfs" -> offset(btrfs_readdir(v.img, m, m.root, h))
       [] v.kind = "ntfs"  -> state(ntfs_readdir(v.img, m, m.root, h, st, there))

FirstHandle(v, m) ==
  IF v.kind = "vfat" THEN [offset |-> 0, pos |-> 0, here |-> m.root, start |-> m.root] ELSE 0

next_extent(v, m, inode, lstart) ==
  LET with(e) == [err |-> e.err, pstart |-> e.pstart, len |-> e.len, inode |-> inode]
  IN CASE v.kind = "ext2"  -> with(ext2_next_extent(v.img, v.img.inodes[inode.ino], lstart))
       [] v.kind = "btrfs" -> btrfs_next_extent(v.img, m, inode, lstart)
       [] v.kind = "ntfs"  -> ntfs_next_extent(v.img, m, inode, lstart)

getfssec(v, m, inode, foffset, sectors) ==
  LET with(r) == [from |-> r.from, n |-> r.n, foffset |-> r.foffset, inode |-> inode]
  IN CASE v.kind = "btrfs" -> btrfs_getfssec(v.img, m, inode, foffset, sectors)
       [] v.kind = "ntfs"  -> with(ntfs_getfssec(v.img, m, inode, foffset, sectors))

-----------------------------------------------------------------------------
Init ==
  /\ \E i \in DOMAIN Volumes : vol = Volumes[i]
  /\ mnt = [ok |-> FALSE]
  /\ ans = NoAnswer
  /\ dir = Closed /\ got = <<>>
  /\ rs = [mft_no |-> 0, in_idx_root |-> TRUE, blks |-> 1, ents |-> 0, vcn |-> 0]
  /\ clean = TRUE
  /\ fil = NONE /\ last = Nothing

Junk == IF vol.kind = "btrfs" THEN {0} \cup {vol.img.supers[i].fsid : i \in DOMAIN vol.img.supers} ELSE {0}

\* fs_init, then the root's inode is fetched and kept.
Mount ==
  /\ mnt = [ok |-> FALSE]
  /\ \E junk \in Junk : \E m \in {fs_init(vol, junk)} :
       \/ ~m.ok /\ mnt' = [ok |-> FALSE, tried |-> TRUE] /\ UNCHANGED rs
       \/ m.ok /\ \E r \in {iget_root(vol, m)} :
            /\ mnt' = [f \in DOMAIN r.m \cup {"root"} |-> IF f = "root" THEN r.inode.ino ELSE r.m[f]]
            /\ rs' = IF vol.kind = "ntfs" THEN StateAfter(rs, r.inode) ELSE rs
  /\ UNCHANGED <<vol, ans, dir, got, clean, fil, last>>

Mounted == mnt.ok /\ mnt.root # -1

\* Only the handle of an NTFS directory is an address, but for 0.
HoldsAddress == dir.open /\ vol.kind = "ntfs" /\ dir.h # 0

\* Memory is taken from the heap for good, or given back: from now on the record
\* of the directory may be read into another buffer.
HeapMoves == IF HoldsAddress THEN [dir EXCEPT !.moved = TRUE] ELSE dir

\* What lies at the address.  malloc gives out first what has just been freed, so
\* that with nothing in between a call gets the buffer of the last one.
AtAddress ==
  IF ~HoldsAddress THEN {AsWas}
  ELSE IF dir.h = ASTRAY THEN JunkEntries
  ELSE IF dir.moved THEN {AsWas} \cup JunkEntries
  ELSE {AsWas}

\* Whoever lists a directory uses the same heap.
Malloc ==
  /\ HoldsAddress /\ ~dir.moved
  /\ dir' = HeapMoves
  /\ UNCHANGED <<vol, mnt, ans, got, rs, clean, fil, last>>

\* An inode stays allocated; looking for a name that is not there leaves nothing.
Lookup(name) ==
  /\ Mounted
  /\ \E inode \in {iget(vol, mnt, name)} :
        /\ ans' = [name |-> name, ino |-> inode.ino]
        /\ rs' = IF vol.kind = "ntfs" THEN StateAfter(rs, inode) ELSE rs
        /\ dir' = IF inode.ino = -1 THEN dir ELSE HeapMoves
  /\ clean' = (clean /\ rs' = rs)
  /\ UNCHANGED <<vol, mnt, got, fil, last>>

Opendir ==
  /\ Mounted /\ ~dir.open
  /\ dir' = [open |-> TRUE, h |-> FirstHandle(vol, mnt), end |-> FALSE, moved |-> FALSE]
  /\ got' = <<>>
  /\ clean' = rs.in_idx_root
  /\ UNCHANGED <<vol, mnt, ans, rs, fil, last>>

\* Callers stop at the first NULL.
Readdir ==
  /\ dir.open /\ ~dir.end
  /\ Len(got) < MaxListed
  /\ \E there \in AtAddress : \E x \in {readdir(vol, mnt, dir.h, rs, there)} :
        /\ dir' = [dir EXCEPT !.h = x.h, !.end = x.r.end]
        /\ got' = IF x.r.end THEN got ELSE Append(got, [name |-> x.r.name, ino |-> x.r.d_ino])
        /\ rs' = x.rs
  /\ UNCHANGED <<vol, mnt, ans, clean, fil, last>>

Closedir ==
  /\ dir.open
  /\ dir' = Closed
  /\ got' = <<>>
  /\ UNCHANGED <<vol, mnt, ans, rs, clean, fil, last>>

Open ==
  /\ Mounted /\ fil = NONE /\ vol.file # <<>>
  /\ \E inode \in {iget(vol, mnt, vol.file)} :
        /\ inode.ino # -1
        /\ fil' = [ino |-> inode.ino, inode |-> inode, pos |-> 0]
  /\ last' = Nothing
  /\ dir' = HeapMoves
  /\ UNCHANGED <<vol, mnt, ans, got, rs, clean>>

\* The next extent where the last one ended, as generic_getfssec asks for it.  An
\* element of the list of runs is freed.
NextExtent ==
  /\ fil # NONE /\ vol.runs # <<>>
  /\ fil.pos < vol.runs[Len(vol.runs)].l + vol.runs[Len(vol.runs)].n
  /\ last.kind = "extent" => last.n > 0
  /\ \E e \in {next_extent(vol, mnt, fil.inode, fil.pos)} :
        /\ last' = IF e.err THEN [kind |-> "error"]
                   ELSE [kind |-> "extent", l |-> fil.pos, p |-> e.pstart, n |-> e.len]
        /\ fil' = IF e.err THEN fil ELSE [fil EXCEPT !.inode = e.inode, !.pos = @ + e.len]
  /\ dir' = HeapMoves
  /\ UNCHANGED <<vol, mnt, ans, got, rs, clean>>

\* A read of a small file, which lies where its metadata do.  The record that an
\* attribute list leads to is not freed.
Getfssec(sectors) ==
  /\ fil # NONE /\ vol.small # Nothing
  /\ last.kind # "read" \/ fil.pos < fil.inode.size
  /\ \E r \in {getfssec(vol, mnt, fil.inode, fil.pos, sectors)} :
        /\ last' = [kind |-> "read", from |-> r.from, n |-> r.n,
                    least |-> IF last.kind = "read" /\ last.least < sectors THEN last.least ELSE sectors,
                    total |-> IF last.kind = "read" THEN last.total + r.n ELSE r.n]
        /\ fil' = [fil EXCEPT !.inode = r.inode, !.pos = r.foffset]
  /\ dir' = HeapMoves
  /\ UNCHANGED <<vol, mnt, ans, got, rs, clean>>

Close ==
  /\ fil # NONE
  /\ fil' = NONE /\ last' = Nothing
  /\ dir' = HeapMoves
  /\ UNCHANGED <<vol, mnt, ans, got, rs, clean>>

Next ==
  \/ Mount
  \/ \E name \in vol.names : Lookup(name)
  \/ Opendir \/ Readdir \/ Closedir \/ Malloc
  \/ Open \/ NextExtent \/ Close
  \/ \E sectors \in 1 .. MaxRead : Getfssec(sectors)

Spec == Init /\ [][Next]_vars

=============================================================================
