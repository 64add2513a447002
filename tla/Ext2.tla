-------------------------------- MODULE Ext2 --------------------------------
(***************************************************************************)
(* The ext2/3/4 driver: syslinux/libcore/fs/ext2/ext2.c and bmap.c.        *)
(* Operators on a volume v; the calls are made by Drivers.                 *)
(*                                                                         *)
(* A volume is a record:                                                   *)
(*   sb      the super block: s_inodes_per_group, s_inode_size,            *)
(*           s_desc_size, s_groups_count                                   *)
(*   tables  the block where the inode table of group g starts             *)
(*   inodes  the inodes by number: mode, size (units), flags, i_block or   *)
(*           the root of the extent tree                                   *)
(*   ind     the indirect blocks: sequences of block numbers               *)
(*   ext     the blocks of extent trees                                    *)
(*   data    the directory blocks: a function from the offset of an entry  *)
(*           to the entry                                                  *)
(* Sizes in a block are counted in units of 12 bytes, the smallest         *)
(* directory entry.                                                        *)
(***************************************************************************)
EXTENDS Integers, Sequences, FiniteSetsExt

CONSTANTS
  EXT2_NDIR_BLOCKS,   \* direct blocks of an inode
  ADDR_COUNT,         \* block numbers in an indirect block
  EXT2_BLOCK,         \* units in a block
  DESC_BYTES,         \* sizeof(struct ext2_group_desc)
  DESC_BLOCK,         \* bytes in a block, for group descriptors
  EXT2_BLKSECS,       \* sectors in a block
  EXT2_INODE_BLOCK    \* bytes in a block, for inodes

EXT2_ROOT_INO == 2
EXT2_WORD == 65536     \* 2^32, small enough for TLC; above every size used
EXT2_NULL == [d_inode |-> -1]
EXT2_ZERO == -1        \* EXTENT_ZERO

-----------------------------------------------------------------------------
(* ext2_fs.h: what lies on the disk, as far as the driver looks at it. *)

ext2_super_block ==
  [s_inodes_per_group : Nat \ {0}, s_inode_size : Nat \ {0}, s_desc_size : Nat,
   s_groups_count : Nat]
ext2_group_desc == Nat                            \* bg_inode_table
ext2_dir_entry == [d_name : Seq(Nat), d_inode : Nat, d_rec_len : Nat \ {0}]
ext4_extent == [block : Nat, start : Nat, len : Nat \ {0}]
ext4_extent_idx == [block : Nat, leaf : Nat]
ext4_extent_header == [depth : {0}, ents : Seq(ext4_extent)]
                      \cup [depth : Nat \ {0}, ents : Seq(ext4_extent_idx)]
ext2_inode == [size : Nat, extents : {FALSE}, i_block : Seq(Nat)]
              \cup [size : Nat, extents : {TRUE}, i_extent_hdr : ext4_extent_header]

Ext2Image(img) ==
  /\ img.sb \in ext2_super_block
  /\ \A g \in DOMAIN img.tables : img.tables[g] \in ext2_group_desc
  /\ \A n \in DOMAIN img.inodes : img.inodes[n] \in ext2_inode
  /\ \A n \in DOMAIN img.ext : img.ext[n] \in ext4_extent_header
  /\ \A n \in DOMAIN img.data : \A o \in DOMAIN img.data[n] : img.data[n][o] \in ext2_dir_entry

-----------------------------------------------------------------------------
(* bmap.c: from the blocks of a file to the blocks of the disk. *)

\* Mutant: the scan counts one block more than it has compared.
scan_set_nblocksOneMore(map) ==
  LET skip == IF map[1] = 0 THEN 0 ELSE 1
      fits == {k \in 1 .. Len(map) : \A j \in 1 .. k - 1 : map[j] = map[1] + (j - 1) * skip}
  IN [blk |-> map[1], n |-> Max(fits)]

\* The first block of a list and how many of the following continue it.
scan_set_nblocks(map) ==
  LET skip == IF map[1] = 0 THEN 0 ELSE 1
      fits == {k \in 1 .. Len(map) : \A j \in 1 .. k : map[j] = map[1] + (j - 1) * skip}
  IN [blk |-> map[1], n |-> Max(fits)]

\* start is the block at the top of a hierarchy of the given number of levels;
\* at[l] is what has been reached when l levels are left.
bmap_indirect(v, start, block, levels) ==
  LET index(l) == (block \div ADDR_COUNT ^ l) % ADDR_COUNT
      at[l \in 0 .. levels] ==
        IF l = levels THEN start
        ELSE IF at[l + 1] = 0 THEN 0 ELSE v.ind[at[l + 1]][index(l) + 1]
      holes == {l \in 1 .. levels : at[l] = 0}
  IN IF holes # {} THEN [blk |-> 0, n |-> ADDR_COUNT ^ Max(holes)]
     ELSE scan_set_nblocks(SubSeq(v.ind[at[1]], index(0) + 1, ADDR_COUNT))

bmap_traditional(v, inode, block) ==
  LET first(l) == EXT2_NDIR_BLOCKS + (IF l > 1 THEN ADDR_COUNT ELSE 0)
                                   + (IF l > 2 THEN ADDR_COUNT ^ 2 ELSE 0)
      levels == {l \in 1 .. 3 : block >= first(l) /\ block < first(l) + ADDR_COUNT ^ l}
  IN IF block < EXT2_NDIR_BLOCKS
     THEN scan_set_nblocks(SubSeq(inode.i_block, block + 1, EXT2_NDIR_BLOCKS))
     ELSE IF levels = {} THEN [blk |-> 0, n |-> 0]
     ELSE LET l == Max(levels)
          IN bmap_indirect(v, inode.i_block[EXT2_NDIR_BLOCKS + l], block - first(l), l)

\* The entry before the first one that starts after the block; 0: none.
LastAtMost(ents, block) ==
  Max({i \in 0 .. Len(ents) : \A j \in 1 .. i : ents[j].block <= block})

\* The leaf of the extent tree where the block would be; depth counts down.
ext4_find_leaf(v, eh, block) ==
  LET NoLeaf == [depth |-> 0, ents |-> <<>>]
      down[d \in 0 .. eh.depth] ==       \* the node d levels above the leaves
        IF d = eh.depth THEN eh
        ELSE LET up == down[d + 1]
                 i == LastAtMost(up.ents, block)
             IN IF i = 0 THEN NoLeaf ELSE v.ext[up.ents[i].leaf]
  IN down[0]

\* A block that no extent covers: 0, and nblocks stays what it was.
bmap_extent(v, inode, block) ==
  LET leaf == ext4_find_leaf(v, inode.i_extent_hdr, block)
      i == LastAtMost(leaf.ents, block)
  IN IF i = 0 \/ block - leaf.ents[i].block >= leaf.ents[i].len
     THEN [blk |-> 0, n |-> 0]
     ELSE LET skip == block - leaf.ents[i].block
          IN [blk |-> leaf.ents[i].start + skip, n |-> leaf.ents[i].len - skip]

\* The extent has the block.
Covers(e, block) == e.block <= block /\ block < e.block + e.len

\* What the search expects of a tree of extents.  T: the headers of its blocks,
\* Exts: for each of them the extents in the leaves below it.  Entries are in
\* order; what is below an entry starts at the entry's block or after it and ends
\* before the block of the next entry.
ExtentBlock(v, T, Exts, eh) ==
  LET slots == 1 .. Len(eh.ents)
      below(i) == IF eh.depth = 0 THEN {eh.ents[i]} ELSE Exts[v.ext[eh.ents[i].leaf]]
  IN /\ eh \in ext4_extent_header /\ Exts[eh] \subseteq ext4_extent
     /\ Exts[eh] = UNION {below(i) : i \in slots}
     /\ \A i, j \in slots : i < j => eh.ents[i].block < eh.ents[j].block
     /\ \A i, j \in slots : \A e \in below(i) :
          /\ eh.ents[i].block <= e.block
          /\ i < j => e.block + e.len <= eh.ents[j].block
     /\ eh.depth # 0 =>
          \A i \in slots : LET child == v.ext[eh.ents[i].leaf]
                           IN child \in T /\ child.depth = eh.depth - 1

ExtentTree(v, T, Exts) == \A eh \in T : ExtentBlock(v, T, Exts, eh)

ext2_bmap(v, inode, block) ==
  IF inode.extents THEN bmap_extent(v, inode, block) ELSE bmap_traditional(v, inode, block)

ext2_next_extent(v, inode, lstart) ==
  LET m == ext2_bmap(v, inode, lstart \div EXT2_BLKSECS)
      in == lstart % EXT2_BLKSECS
  IN [err |-> FALSE,
      pstart |-> IF m.blk = 0 THEN EXT2_ZERO ELSE m.blk * EXT2_BLKSECS + in,
      len |-> (m.n * EXT2_BLKSECS - in) % EXT2_WORD]

-----------------------------------------------------------------------------
(* ext2.c: inodes. *)

s_desc_per_block(v) ==
  DESC_BLOCK \div (IF v.sb.s_desc_size < DESC_BYTES THEN DESC_BYTES ELSE v.sb.s_desc_size)
s_inodes_per_block(v) == EXT2_INODE_BLOCK \div v.sb.s_inode_size

\* What stands at descriptor index i of a descriptor block, whose descriptors
\* are s_desc_size bytes apart while the code's array has DESC_BYTES: bg_inode_table.
DescAt(v, blk, i) ==
  LET step == (IF v.sb.s_desc_size < DESC_BYTES THEN DESC_BYTES ELSE v.sb.s_desc_size)
              \div DESC_BYTES
      g == blk * s_desc_per_block(v) + i \div step
  IN IF i % step = 0 /\ g \in DOMAIN v.tables THEN v.tables[g] ELSE 0

ext2_get_group_desc(v, group) ==
  DescAt(v, group \div s_desc_per_block(v), group % s_desc_per_block(v))

\* The inode whose place is computed: its number, or 0 where none is stored.
ext2_get_inode(v, inr) ==
  LET g == (inr - 1) \div v.sb.s_inodes_per_group
      o == (inr - 1) % v.sb.s_inodes_per_group
      blk == ext2_get_group_desc(v, g) + o \div s_inodes_per_block(v)
      at == {n \in DOMAIN v.inodes :
               LET gn == (n - 1) \div v.sb.s_inodes_per_group
                   on == (n - 1) % v.sb.s_inodes_per_group
               IN /\ v.tables[gn] + on \div s_inodes_per_block(v) = blk
                  /\ on % s_inodes_per_block(v) = o % s_inodes_per_block(v)}
  IN IF inr = 0 \/ g >= v.sb.s_groups_count THEN -1 ELSE Max({0} \cup at)

\* The inode's number stands for what fill_inode copies; -1 is NULL.
ext2_iget_by_inr(v, inr) == ext2_get_inode(v, inr)
ext2_iget_root(v) == ext2_iget_by_inr(v, EXT2_ROOT_INO)

-----------------------------------------------------------------------------
(* ext2.c: directories.  dir is a directory's inode. *)

ext2_match_entry(name, de) == de.d_inode # 0 /\ de.d_name = name

ext2_get_cache(v, dir, lblock) == v.data[ext2_bmap(v, dir, lblock).blk]

\* Mutant: the search stops at a deleted entry.
ext2_find_entryStops(v, dir, name) ==
  LET block[i \in 0 .. dir.size] ==
        LET data == ext2_get_cache(v, dir, i \div EXT2_BLOCK)
            scan[o \in 0 .. EXT2_BLOCK] ==
              IF o >= EXT2_BLOCK \/ data[o].d_inode = 0 THEN EXT2_NULL
              ELSE IF ext2_match_entry(name, data[o]) THEN data[o] ELSE scan[o + data[o].d_rec_len]
        IN IF i >= dir.size THEN EXT2_NULL
           ELSE IF scan[0] # EXT2_NULL THEN scan[0]
           ELSE block[i + EXT2_BLOCK]
  IN block[0]

\* i - inode->size wraps: the whole block is searched.
ext2_find_entry(v, dir, name) ==
  LET block[i \in 0 .. dir.size] ==
        LET data == ext2_get_cache(v, dir, i \div EXT2_BLOCK)
            maxoffset == Min({EXT2_BLOCK, (i - dir.size) % EXT2_WORD})
            scan[o \in 0 .. EXT2_BLOCK] ==
              IF o >= maxoffset \/ data[o].d_rec_len > maxoffset - o THEN EXT2_NULL
              ELSE IF ext2_match_entry(name, data[o]) THEN data[o]
              ELSE scan[o + data[o].d_rec_len]
        IN IF i >= dir.size THEN EXT2_NULL
           ELSE IF scan[0] # EXT2_NULL THEN scan[0]
           ELSE block[i + EXT2_BLOCK]
  IN block[0]

ext2_iget(v, name, dir) ==
  LET de == ext2_find_entry(v, dir, name)
  IN IF de = EXT2_NULL THEN -1 ELSE ext2_iget_by_inr(v, de.d_inode)

\* The entry at the offset of the file and the offset that follows.
ext2_readdir(v, dir, offset) ==
  LET de == ext2_get_cache(v, dir, offset \div EXT2_BLOCK)[offset % EXT2_BLOCK]
  IN IF offset >= dir.size THEN [end |-> TRUE, offset |-> offset]
     ELSE [end |-> FALSE, name |-> de.d_name, d_ino |-> de.d_inode,
           offset |-> offset + de.d_rec_len]
=============================================================================
