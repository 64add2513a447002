-------------------------------- MODULE Ntfs --------------------------------
(***************************************************************************)
(* The NTFS driver: syslinux/libcore/fs/ntfs/ntfs.c, ntfs.h and runlist.h. *)
(* Operators on a volume v; the calls are made by Drivers.                 *)
(*                                                                         *)
(* A volume is a record:                                                   *)
(*   bpb    the fields of the boot sector                                  *)
(*   blocks how many blocks the disk has                                   *)
(*   disk   what lies at a sector, a record with a magic:                  *)
(*            "FILE": no, dir, attrs (a sequence of attributes)            *)
(*            "INDX": entries                                              *)
(*            "LIST": list (a part of an attribute list)                   *)
(*          and whole: in how many of its sectors the update sequence      *)
(*          number stands where it should                                  *)
(*   int3   the lowest bit of the word at address 12, which ntfs_readdir   *)
(*          reads through a null pointer                                   *)
(* An attribute has a type, nonres and either stream, its data runs as     *)
(* bytes, or its value.  An index entry has name, posix, ref, end, node and*)
(* tail, the sector whose last bytes hold a part of its name (0: none).    *)
(* Sizes are counted in sectors.                                           *)
(***************************************************************************)
EXTENDS Integers, Sequences, FiniteSetsExt, SequencesExt

CONSTANTS
  NTFS_MAX_RUNS,     \* bound: runs of an attribute
  NTFS_MAX_STEPS     \* bound: entries or records looked at in a row

FILE_Volume == 3
FILE_root == 5
NTFS_MAX_HOPS == 2            \* bound: records one attribute is looked for in
NTFS_NULL == [ino |-> -1]
NO_RECORD == [magic |-> "none"]
DOT == 46
DOLLAR == 36

-----------------------------------------------------------------------------
(* ntfs.h: what lies on the disk, as far as the driver looks at it. *)

ntfs_bpb ==
  [zero_fields : BOOLEAN, oem_name : BOOLEAN, sec_per_clust : Nat \ {0},
   clust_per_mft_record : Int, clust_per_idx_record : 1 .. 255, sector_shift : Nat,
   mft_lclust : Nat]
ntfs_attr_list_entry == [type : STRING, ref : Nat]
ntfs_vol_info == [type : {"VOL_INFO"}, major : Nat, minor : Nat]
\* An entry that ends its node has no name.
ntfs_idx_entry ==
  [end : {FALSE}, name : Seq(Nat), posix : BOOLEAN, ref : Nat, tail : Nat]
  \cup [end : {TRUE}, node : BOOLEAN]
ntfs_idx_root == [type : {"INDEX_ROOT"}, entries : Seq(ntfs_idx_entry)]
ntfs_attr_record ==
  [type : {"DATA"}, nonres : {FALSE}, size : Nat, value : Nat]
  \cup [type : {"DATA"}, nonres : {TRUE}, size : Nat, stream : Seq(0 .. 255)]
  \cup [type : {"INDEX_ALLOCATION", "ATTR_LIST"}, nonres : {TRUE}, stream : Seq(0 .. 255)]
  \cup [type : {"ATTR_LIST"}, nonres : {FALSE}, list : Seq(ntfs_attr_list_entry)]
  \cup ntfs_vol_info \cup ntfs_idx_root
ntfs_mft_record ==
  [magic : {"FILE"}, no : Nat, dir : BOOLEAN, attrs : Seq(ntfs_attr_record), whole : Nat]
ntfs_idx_allocation == [magic : {"INDX"}, entries : Seq(ntfs_idx_entry), whole : Nat]

NtfsImage(img) ==
  /\ img.bpb \in ntfs_bpb
  /\ \A s \in DOMAIN img.disk :
       img.disk[s] \in ntfs_mft_record \cup ntfs_idx_allocation
                       \cup [magic : {"LIST"}, list : Seq(ntfs_attr_list_entry)]

\* What ntfs_readdir keeps, for all directories together.
ntfs_readdir_state ==
  [mft_no : Nat, in_idx_root : BOOLEAN, blks : Nat, ents : Nat, vcn : Nat]

RecordAt(v, addr) == IF addr \in DOMAIN v.disk THEN v.disk[addr] ELSE NO_RECORD

ilog2(n) == Max({k \in 0 .. 7 : 2 ^ k <= n})

-----------------------------------------------------------------------------
(* Mounting. *)

ntfs_check_sb_fields(bpb) == bpb.zero_fields /\ bpb.oem_name

\* c, r, b: sectors in a cluster, in an MFT record and in a block.
ntfs_fs_init(v) ==
  LET bpb == v.bpb
      clust_shift == ilog2(bpb.sec_per_clust)
      mft_record_shift == IF bpb.clust_per_mft_record < 0
                          THEN -bpb.clust_per_mft_record - bpb.sector_shift
                          ELSE clust_shift + ilog2(bpb.clust_per_mft_record)
      c == 2 ^ clust_shift
      b == 2 ^ (ilog2(bpb.clust_per_idx_record) + clust_shift)
  IN IF ~ntfs_check_sb_fields(bpb) THEN [ok |-> FALSE]
     ELSE [ok |-> TRUE, c |-> c, r |-> 2 ^ mft_record_shift, b |-> b,
           mft_lcn |-> bpb.mft_lclust, mft_blk |-> (bpb.mft_lclust * c) \div b,
           lookup |-> "3_0"]

-----------------------------------------------------------------------------
(* Reading records. *)

\* Where a read of count sectors starts and what it leaves in its arguments.
ntfs_read(v, m, count, blk, blk_offset, lcn) ==
  LET offset == IF blk_offset = 0 THEN (lcn * m.c) % m.b ELSE blk_offset
      split == m.b - offset < count
  IN [err |-> blk >= v.blocks \/ (split /\ blk + 1 >= v.blocks),
      at |-> blk * m.b + offset,
      blk |-> IF split THEN blk + 1 ELSE blk,
      next |-> IF split THEN offset + count - m.b ELSE offset + count,
      lcn |-> lcn + m.b \div count]

\* The words under the update sequence number are put back up to the first
\* sector where the number is not found; fixed counts them.
ntfs_fixups_writeback(rec) ==
  IF rec.magic \notin {"FILE", "INDX"} THEN rec
  ELSE [f \in DOMAIN rec \cup {"fixed"} |-> IF f = "fixed" THEN rec.whole ELSE rec[f]]

\* Records are read one after the other until one is accepted: any with the
\* right magic, or (3.1) the one that bears the number.  start_blk is relative
\* to the block of the MFT.
ntfs_mft_record_lookup(v, m, file) ==
  LET lcn0 == m.mft_lcn + (file * m.r) \div m.c
      at[n \in 0 .. NTFS_MAX_STEPS] ==
        IF n = 0 THEN [go |-> TRUE, rec |-> NO_RECORD, start_blk |-> 0,
                       blk |-> (lcn0 * m.c) \div m.b, offset |-> (file * m.r) % m.b, lcn |-> lcn0]
        ELSE LET was == at[n - 1]
                 rd == ntfs_read(v, m, m.r, was.blk, was.offset, was.lcn)
                 rec == ntfs_fixups_writeback(RecordAt(v, rd.at))
             IN IF ~was.go THEN was
                ELSE IF rd.err THEN [was EXCEPT !.go = FALSE]
                ELSE IF rec.magic = "FILE" /\ (m.lookup = "3_1" => rec.no = file)
                THEN [was EXCEPT !.go = FALSE, !.rec = rec, !.start_blk = was.blk - m.mft_blk]
                ELSE [was EXCEPT !.lcn = rd.lcn,
                                 !.blk = IF rd.next >= m.b THEN rd.blk + 1 ELSE rd.blk,
                                 !.offset = IF rd.next >= m.b THEN 0 ELSE rd.next]
  IN at[NTFS_MAX_STEPS]

-----------------------------------------------------------------------------
(* Data runs. *)

\* The bytes of a length, from the highest to the lowest.  A byte with the
\* top bit set has 1 added and is then XORed with 1; from 255 on a carry is
\* ORed into what has been read.
RunLength(bytes) ==
  LET v == Len(bytes)
      val(b) == IF b < 128 THEN b ELSE IF b % 2 = 0 THEN b ELSE b + 2
      or(hi, x) == IF x < 256 THEN hi * 256 + x
                   ELSE (hi + (IF hi % 2 = 0 THEN 1 ELSE 0)) * 256 + x - 256
      res[i \in 0 .. v] == IF i = 0 THEN 0 ELSE or(res[i - 1], val(bytes[v - i + 1]))
  IN res[v]

\* The bytes of a change of LCN, the highest first; its sign is the top bit
\* of last, the byte where the run ends.
RunDelta(bytes, last) ==
  LET l == Len(bytes)
      res[i \in 0 .. l] == IF i = 0 THEN (IF last >= 128 THEN -1 ELSE 0)
                           ELSE res[i - 1] * 256 + bytes[l - i + 1]
  IN res[l]

\* The run at an offset of the stream, after a run that started at lcn.
parse_data_run(stream, offset, lcn) ==
  LET count == stream[offset + 1]
      v == count % 16
      l == count \div 16
      to == lcn + RunDelta(SubSeq(stream, offset + v + 2, offset + v + l + 1),
                           stream[offset + v + l + 1])
  IN IF offset >= Len(stream) THEN [kind |-> "end"]
     ELSE IF count = 0 THEN [kind |-> "end"]
     ELSE IF v > 8 \/ l > 8 THEN [kind |-> "error"]
     ELSE [kind |-> IF to = 0 THEN "unallocated" ELSE "allocated", lcn |-> to,
           len |-> RunLength(SubSeq(stream, offset + 2, offset + v + 1)),
           offset |-> offset + v + l + 1]

\* Every run up to the end or the first error, which is the last element.
Runs(stream) ==
  LET at[n \in 1 .. NTFS_MAX_RUNS] ==
        LET was == at[n - 1]
            run == IF n = 1 THEN parse_data_run(stream, 0, 0)
                   ELSE parse_data_run(stream, was[n - 1].offset, was[n - 1].lcn)
        IN IF n = 1 THEN <<run>>
           ELSE IF was[Len(was)].kind \in {"end", "error"} THEN was
           ELSE Append(was, run)
  IN at[NTFS_MAX_RUNS]

Allocated(runs) == SelectSeq(runs, LAMBDA r : r.kind = "allocated")

\* The sectors where the blocks of a run start, and of all the allocated ones.
RunBlocks(m, run) ==
  [i \in 1 .. (run.len * m.c + m.b - 1) \div m.b |-> run.lcn * m.c + (i - 1) * m.b]
Blocks(m, stream) ==
  LET of(runs) == FlattenSeq([k \in 1 .. Len(runs) |-> RunBlocks(m, runs[k])])
  IN of(Allocated(Runs(stream)))

-----------------------------------------------------------------------------
(* Attributes. *)

\* The entries of an attribute list, which may lie in blocks of its own.
AttrList(v, m, attr) ==
  LET in(blocks) == FlattenSeq([k \in 1 .. Len(blocks) |-> RecordAt(v, blocks[k]).list])
  IN IF attr.nonres THEN in(Blocks(m, attr.stream)) ELSE attr.list

\* The record that the first of the entries names, NO_RECORD if there is none.
NamedRecord(v, m, named, rec) ==
  IF named = <<>> THEN NO_RECORD
  ELSE IF named[1].ref = rec.no THEN rec
  ELSE ntfs_mft_record_lookup(v, m, named[1].ref).rec

ntfs_attr_list_lookup(v, m, attr, type, rec) ==
  NamedRecord(v, m, SelectSeq(AttrList(v, m, attr), LAMBDA e : e.type = type), rec)

AttrsOf(rec, type) == {i \in 1 .. Len(rec.attrs) : rec.attrs[i].type = type}

\* The first attribute of the type; rec: the record it lies in, from whose
\* buffer its names are read.
FirstAttr(rec, type) ==
  IF rec = NO_RECORD THEN [type |-> "none"]
  ELSE IF AttrsOf(rec, type) = {} THEN [type |-> "none"]
  ELSE [a |-> rec.attrs[Min(AttrsOf(rec, type))], rec |-> rec, type |-> type]

\* The attribute, in the record or where its attribute list leads.
ntfs_attr_lookup(v, m, type, mrec) ==
  LET hop[n \in 0 .. NTFS_MAX_HOPS] ==
        IF n = 0 THEN mrec
        ELSE LET rec == hop[n - 1]
             IN IF rec = NO_RECORD THEN NO_RECORD
                ELSE IF AttrsOf(rec, type) # {} THEN rec
                ELSE IF AttrsOf(rec, "ATTR_LIST") = {} THEN NO_RECORD
                ELSE ntfs_attr_list_lookup(v, m, rec.attrs[Max(AttrsOf(rec, "ATTR_LIST"))], type, rec)
  IN FirstAttr(hop[NTFS_MAX_HOPS], type)

-----------------------------------------------------------------------------
(* Inodes. *)

runlist_append(rlist, elem) == Append(rlist, [lcn |-> elem.lcn, len |-> elem.len])

\* The runs of a file that lie on the disk; <<>> when one cannot be read.
RunList(runs) ==
  LET rlist[n \in 0 .. Len(runs)] ==
        IF n = 0 THEN <<>>
        ELSE IF runs[n].kind = "allocated" THEN runlist_append(rlist[n - 1], runs[n])
        ELSE rlist[n - 1]
  IN IF runs[Len(runs)].kind = "error" THEN <<>> ELSE rlist[Len(runs)]

\* The inode of record mft whose data or index is attribute at.
InodeOf(mft_no, mft, at) ==
  LET inode(size, nonres, rl) ==
        [ino |-> mft_no, mode |-> IF mft.rec.dir THEN "dir" ELSE "file", here |-> mft.start_blk,
         size |-> size, nonres |-> nonres, rlist |-> rl]
      runs(rl) == IF rl = <<>> THEN NTFS_NULL ELSE inode(at.a.size, TRUE, rl)
  IN IF at.type = "none" THEN NTFS_NULL
     ELSE IF mft.rec.dir THEN inode(0, FALSE, <<>>)
     ELSE IF ~at.a.nonres THEN inode(at.a.size, FALSE, <<>>)
     ELSE runs(RunList(Runs(at.a.stream)))

RecordInode(v, m, mft_no, mft) ==
  IF mft.rec = NO_RECORD THEN NTFS_NULL
  ELSE InodeOf(mft_no, mft,
         ntfs_attr_lookup(v, m, IF mft.rec.dir THEN "INDEX_ROOT" ELSE "DATA", mft.rec))

\* A directory also resets the state of ntfs_readdir, which is one for all.
index_inode_setup(v, m, mft_no) ==
  RecordInode(v, m, mft_no, ntfs_mft_record_lookup(v, m, mft_no))

\* The state of ntfs_readdir after a call that set up the inode.
StateAfter(rs, inode) ==
  IF inode # NTFS_NULL /\ inode.mode = "dir"
  THEN [rs EXCEPT !.mft_no = inode.ino, !.in_idx_root = TRUE] ELSE rs

\* The version in $Volume tells how records are looked up.
Versioned(m, rec, info) ==
  IF info.a.major = 3 /\ info.a.minor = 1 /\ rec.no = FILE_Volume
  THEN [m EXCEPT !.lookup = "3_1"] ELSE [m EXCEPT !.lookup = "3_0"]

RootWith(v, m) == [m |-> m, inode |-> index_inode_setup(v, m, FILE_root)]

RootAfter(v, m, rec, info) ==
  IF info.type = "none" THEN [m |-> m, inode |-> NTFS_NULL]
  ELSE RootWith(v, Versioned(m, rec, info))

\* $Volume itself is looked up the 3.0 way.
ntfs_iget_root(v, m) ==
  LET rec == ntfs_mft_record_lookup(v, m, FILE_Volume).rec
  IN IF rec = NO_RECORD THEN [m |-> m, inode |-> NTFS_NULL]
     ELSE RootAfter(v, m, rec, ntfs_attr_lookup(v, m, "VOL_INFO", rec))

-----------------------------------------------------------------------------
(* Directories. *)

tolower(ch) == IF ch \in 65 .. 90 THEN ch + 32 ELSE ch

\* The name of an entry as it stands in the buffer of its record or block.
NameIn(buf, ie) == IF ie.tail <= buf.fixed THEN ie.name ELSE <<0>>

ntfs_filename_cmp(dname, buf, ie) ==
  LET fn == NameIn(buf, ie)
  IN /\ Len(dname) = Len(fn)
     /\ \A i \in 1 .. Len(fn) :
          IF ie.posix THEN fn[i] = dname[i] ELSE tolower(fn[i]) = tolower(dname[i])

\* The entries before the one that ends the node, and whether one matches.
Keys(entries) ==
  SubSeq(entries, 1, Min({i \in 1 .. Len(entries) : entries[i].end} \cup {Len(entries) + 1}) - 1)
Matches(dname, buf, entries) ==
  {i \in 1 .. Len(Keys(entries)) : ntfs_filename_cmp(dname, buf, entries[i])}

\* The number of the entry found in the blocks of the index, which are read in
\* the order of its runs up to one that is no index block; -1: not found.
InBlocks(v, m, dname, blocks) ==
  LET blk(k) == ntfs_fixups_writeback(RecordAt(v, blocks[k]))
      has(b) == Matches(dname, b, b.entries)
      stop == {k \in 1 .. Len(blocks) : blk(k).magic # "INDX" \/ has(blk(k)) # {}}
      ref(b) == IF b.magic # "INDX" THEN -1 ELSE b.entries[Min(has(b))].ref
  IN IF stop = {} THEN -1 ELSE ref(blk(Min(stop)))

InAllocation(v, m, dname, ia) ==
  IF ia.type = "none" THEN -1 ELSE InBlocks(v, m, dname, Blocks(m, ia.a.stream))

\* The root of the index first, then, when its last entry says so, the blocks.
InIndex(v, m, dname, rec, ir) ==
  LET ents == ir.a.entries
      keys == Len(Keys(ents))
      hit == Matches(dname, ir.rec, ents)
  IN IF ir.type = "none" THEN -1
     ELSE IF hit # {} THEN ents[Min(hit)].ref
     ELSE IF keys = Len(ents) THEN -1                     \* index_err
     ELSE IF ~ents[keys + 1].node THEN -1
     ELSE InAllocation(v, m, dname, ntfs_attr_lookup(v, m, "INDEX_ALLOCATION", rec))

EntryInode(v, m, ref) == IF ref = -1 THEN NTFS_NULL ELSE index_inode_setup(v, m, ref)

ntfs_index_lookup(v, m, dname, dir) ==
  LET rec == ntfs_mft_record_lookup(v, m, dir).rec
  IN IF rec = NO_RECORD THEN NTFS_NULL
     ELSE EntryInode(v, m, InIndex(v, m, dname, rec, ntfs_attr_lookup(v, m, "INDEX_ROOT", rec)))

ntfs_iget(v, m, dname, parent) == ntfs_index_lookup(v, m, dname, parent)

is_filename_printable(s) == s[1] \notin {DOT, DOLLAR}

\* file->offset is the address of an entry in the buffer that the last call read
\* the directory's record into, and freed.  It is represented by what it meant then:
\* the number of the entry, 0 for a null pointer, ASTRAY when the entry before it
\* was no entry.  What stands at the address now is AsWas when the record is in the
\* same buffer again, and otherwise whatever has been left there: junk, taken for
\* an entry of the root.  One that ends the root decides by its flag how to go on;
\* one with a name is returned, its file has a record or none.  Junk without a
\* printable name leads to other junk, or nowhere when the call does not return.
ASTRAY == -1
AsWas == [junk |-> FALSE]
JunkEntries ==
  [junk : {TRUE}, end : {TRUE}, node : BOOLEAN]
  \cup [junk : {TRUE}, end : {FALSE}, name : {<<63>>}, posix : {FALSE}, ref : {0, 99}, tail : {0}]

\* The entries of the index root from the offset on: the next one to return,
\* or the one that ends the root.
RootNext(buf, ents, offset) ==
  Min({i \in offset .. Len(ents) :
         ents[i].end \/ is_filename_printable(NameIn(buf, ents[i]))})

\* The same from the address on, and the address after it.  A null pointer is
\* replaced by the address of the first entry in this call's buffer.
FromAddress(buf, ents, offset, there) ==
  LET i == RootNext(buf, ents, IF offset = 0 THEN 1 ELSE offset)
  IN IF offset # 0 /\ there.junk THEN [ie |-> there, after |-> ASTRAY]
     ELSE [ie |-> ents[i], after |-> i + 1]

\* rs: which run of the index (blks), where in it (vcn), how many entries of
\* the block have been returned (ents).  The runs are read from the first one on,
\* up to the run wanted or a hole; at a hole the code starts over for ever (here:
\* up to the bound).
BlockNext(v, m, stream, rs0) ==
  LET wanted(runs, blks, holes) == IF holes = {} THEN runs[blks] ELSE runs[Min(holes)]
      run(runs, blks) ==
        wanted(runs, blks, {k \in 1 .. Len(runs) : k <= blks /\ runs[k].kind = "unallocated"})
      entry(rs, buf, ie) ==
        IF ie.end \/ ~is_filename_printable(NameIn(buf, ie))
        THEN [go |-> TRUE, end |-> TRUE, rs |-> [rs EXCEPT !.ents = @ + 1]]
        ELSE [go |-> FALSE, end |-> FALSE, rs |-> [rs EXCEPT !.ents = @ + 1],
              name |-> NameIn(buf, ie), ref |-> ie.ref]
      block(was, rs, buf) ==
        IF buf.magic # "INDX" THEN [was EXCEPT !.go = FALSE]
        ELSE IF rs.ents > Len(Keys(buf.entries))       \* the END entry has been counted
        THEN [was EXCEPT !.rs.vcn = @ + m.b \div m.c, !.rs.ents = 0]
        ELSE entry(rs, buf, buf.entries[rs.ents + 1])
      step(was, rs, r) ==
        IF r.kind \in {"end", "error"} THEN [was EXCEPT !.go = FALSE]
        ELSE IF r.kind = "unallocated" THEN [was EXCEPT !.rs.blks = @ + 1]
        ELSE IF rs.vcn >= r.len THEN [was EXCEPT !.rs.vcn = 0, !.rs.blks = @ + 1]
        ELSE block(was, rs, ntfs_fixups_writeback(RecordAt(v, (r.lcn + rs.vcn) * m.c)))
      at[n \in 0 .. NTFS_MAX_STEPS] ==
        IF n = 0 THEN [go |-> TRUE, end |-> TRUE, rs |-> rs0]
        ELSE LET was == at[n - 1]
             IN IF was.go THEN step(was, was.rs, run(Runs(stream), was.rs.blks)) ELSE was
  IN at[NTFS_MAX_STEPS]

\* The entry has no record.
Lost(v, m, ref) == ntfs_mft_record_lookup(v, m, ref).rec = NO_RECORD

\* No more entries: the next call starts over.
Out(offset, rs) == [end |-> TRUE, offset |-> offset, rs |-> [rs EXCEPT !.in_idx_root = TRUE]]

\* b: what BlockNext found.
BlockEntry(v, m, offset, b) ==
  IF b.end THEN Out(offset, b.rs)
  ELSE IF Lost(v, m, b.ref) THEN Out(offset, b.rs)
  ELSE [end |-> FALSE, name |-> b.name, d_ino |-> b.ref, offset |-> offset, rs |-> b.rs]

AllocationEntry(v, m, offset, rs, ia) ==
  IF ia.type = "none" THEN Out(offset, rs)
  ELSE BlockEntry(v, m, offset, BlockNext(v, m, ia.a.stream, rs))

\* x: the entry of the root that is next, and the address after it.
RootEntry(v, m, buf, x, rs) ==
  IF Lost(v, m, x.ie.ref) THEN [end |-> TRUE, offset |-> x.after, rs |-> rs]
  ELSE [end |-> FALSE, name |-> NameIn(buf, x.ie), d_ino |-> x.ie.ref, offset |-> x.after, rs |-> rs]

\* The flag that says whether there are blocks is read from the entry that ended
\* the root, and in later calls through a null pointer.
IndexEntry(v, m, rec, ir, offset, rs, there) ==
  LET x == FromAddress(ir.rec, ir.a.entries, offset, there)
      first == [rs EXCEPT !.in_idx_root = FALSE, !.blks = 1, !.ents = 0, !.vcn = 0]
  IN IF ir.type = "none" THEN Out(offset, rs)
     ELSE IF rs.in_idx_root /\ ~x.ie.end THEN RootEntry(v, m, ir.rec, x, rs)
     ELSE IF rs.in_idx_root /\ ~x.ie.node THEN Out(0, first)
     ELSE IF ~rs.in_idx_root /\ ~v.int3 THEN Out(offset, rs)
     ELSE AllocationEntry(v, m, IF rs.in_idx_root THEN 0 ELSE offset,
                          IF rs.in_idx_root THEN first ELSE rs,
                          ntfs_attr_lookup(v, m, "INDEX_ALLOCATION", rec))

\* offset: what file->offset holds; there: what is found at that address.
ntfs_readdir(v, m, dir, offset, rs, there) ==
  LET rec == ntfs_mft_record_lookup(v, m, dir).rec
  IN IndexEntry(v, m, rec, ntfs_attr_lookup(v, m, "INDEX_ROOT", rec), offset, rs, there)

-----------------------------------------------------------------------------
(* Files. *)

\* A run is taken off the list of the inode; a resident file fakes an extent.
ntfs_next_extent(v, m, inode, lstart) ==
  LET run == Head(inode.rlist)
  IN IF ~inode.nonres
     THEN [err |-> FALSE, pstart |-> (m.mft_blk + inode.here) * m.b, len |-> inode.size,
           inode |-> inode]
     ELSE IF lstart # 0 /\ lstart < inode.here
     THEN [err |-> FALSE, pstart |-> 0, len |-> -1, inode |-> inode]   \* len is not set
     ELSE IF inode.rlist = <<>> THEN [err |-> TRUE, inode |-> inode]
     ELSE [err |-> FALSE, pstart |-> run.lcn * m.c, len |-> run.len * m.c,
           inode |-> [inode EXCEPT !.rlist = Tail(@), !.here = run.len * m.c]]

\* A resident file: whatever has been asked for, all of it is copied from the
\* record.  Other files are generic_getfssec's.
ntfs_getfssec(v, m, inode, foffset, sectors) ==
  IF foffset >= inode.size THEN [n |-> 0, foffset |-> foffset]
  ELSE [from |-> ntfs_attr_lookup(v, m, "DATA", ntfs_mft_record_lookup(v, m, inode.ino).rec).a.value,
        n |-> inode.size, foffset |-> Min({inode.size, foffset + sectors})]
=============================================================================
