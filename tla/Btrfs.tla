-------------------------------- MODULE Btrfs --------------------------------
(***************************************************************************)
(* The btrfs driver: syslinux/libcore/fs/btrfs/btrfs.c, btrfs.h and        *)
(* crc32c.h.  Operators on a volume v; the calls are made by Drivers.      *)
(*                                                                         *)
(* A volume is a record:                                                   *)
(*   supers  the copies of the super block: valid (address and magic are   *)
(*           right), fsid, generation, mirrors (how many copies lie within *)
(*           total_bytes) and the fields root, chunk_root, sys_chunk_array,*)
(*           metadump                                                      *)
(*   nodes   the tree blocks by physical address: level and items          *)
(*   hash    the CRC of every name (several names may share one)           *)
(*   subvol  the subvolume the installer filled in; <<>>: none             *)
(* An item has a key and, in a node, blockptr; in a leaf, the fields of    *)
(* what it holds and data, its place in the block.  Addresses are counted  *)
(* in units of which a sector has BTRFS_SECTOR.                            *)
(***************************************************************************)
EXTENDS Integers, Sequences, FiniteSetsExt

CONSTANTS
  BTRFS_SECTOR,             \* units in a sector
  BTRFS_HEADER,             \* units in struct btrfs_header
  BTRFS_MAX_CHUNK_ENTRIES,  \* entries of the chunk map
  BTRFS_MAX_ITEMS           \* bound: items of a tree read in a row

ASSUME BtrfsAssumption ==
  BTRFS_SECTOR \in Nat \ {0} /\ BTRFS_HEADER \in Nat
  /\ BTRFS_MAX_CHUNK_ENTRIES \in Nat \ {0} /\ BTRFS_MAX_ITEMS \in Nat

BTRFS_SUPER_MIRROR_MAX == 3
BTRFS_MAX_LEVEL == 8
BTRFS_HIGHEST == 999        \* 2^32 - 1, the highest hash
BTRFS_INODE_ITEM_KEY == 1
BTRFS_DIR_ITEM_KEY == 84
BTRFS_EXTENT_DATA_KEY == 108
BTRFS_ROOT_ITEM_KEY == 132
BTRFS_ROOT_REF_KEY == 156
BTRFS_DEV_ITEM_KEY == 216
BTRFS_CHUNK_ITEM_KEY == 228
BTRFS_FS_TREE_OBJECTID == 5
BTRFS_FIRST_CHUNK_TREE_OBJECTID == 256
BTRFS_NULL == [ino |-> -1]
BTRFS_NOWHERE == 999999      \* 2^64 - 1 in sectors

\* btrfs.h: what lies on the disk, as far as the driver looks at it.
btrfs_disk_key == Nat \X Nat \X Nat               \* objectid, type, offset
btrfs_chunk == [key : btrfs_disk_key, length : Nat, stripe : Nat]
btrfs_super_block ==
  [valid : BOOLEAN, readable : BOOLEAN, fsid : Nat, generation : Nat, mirrors : 1 .. 3,
   root : Nat, chunk_root : Nat, sys_chunk_array : Seq(btrfs_chunk), metadump : BOOLEAN]
btrfs_inode_item == [key : btrfs_disk_key, mode : {"dir", "file"}, size : Nat]
btrfs_root_item == [key : btrfs_disk_key, bytenr : Nat]
btrfs_dir_item == [key : btrfs_disk_key, name : Seq(Nat), location : Nat]
btrfs_file_extent_item ==
  [key : btrfs_disk_key, inline : {FALSE}, compressed : BOOLEAN, disk_bytenr : Nat,
   offset : Nat, num_bytes : Nat]
  \cup [key : btrfs_disk_key, inline : {TRUE}, compressed : BOOLEAN, data : Nat, offset : {0}]
btrfs_root_ref == [key : btrfs_disk_key, name : Seq(Nat)]
btrfs_item ==
  btrfs_chunk \cup btrfs_inode_item \cup btrfs_root_item \cup btrfs_dir_item
  \cup btrfs_file_extent_item \cup btrfs_root_ref \cup [key : btrfs_disk_key]
btrfs_leaf == [level : {0}, items : Seq(btrfs_item)]
btrfs_node == [level : 1 .. BTRFS_MAX_LEVEL - 1,
               items : Seq([key : btrfs_disk_key, blockptr : Nat])]
btrfs_chunk_map_item == [logical : Nat, length : Nat, physical : Nat]

BtrfsImage(img) ==
  /\ \A i \in 1 .. BTRFS_SUPER_MIRROR_MAX : img.supers[i] \in btrfs_super_block
  /\ \A q \in DOMAIN img.nodes : img.nodes[q] \in btrfs_leaf \cup btrfs_node

-----------------------------------------------------------------------------
(* Searching. *)

\* order[i] compares the item in slot i with what is looked for: -1, 0 or 1.
bin_search(order, min, max) ==
  LET loop[r \in (min .. max) \X (min .. max)] ==
        LET low == r[1]
            high == r[2]
            mid == (low + high) \div 2
        IN IF low >= high THEN [slot |-> low, found |-> FALSE]
           ELSE CASE order[mid] < 0 -> loop[<<mid + 1, high>>]
                  [] order[mid] > 0 -> loop[<<low, mid>>]
                  [] OTHER -> [slot |-> mid, found |-> TRUE]
  IN IF min >= max THEN [slot |-> min, found |-> FALSE] ELSE loop[<<min, max>>]

Sign(a, b) == IF a > b THEN 1 ELSE IF a < b THEN -1 ELSE 0

btrfs_comp_chunk_map(m1, m2) == Sign(m1.logical, m2.logical)

\* Keys are triples: objectid, type, offset.
btrfs_comp_keys_type(k1, k2) ==
  IF k1[1] # k2[1] THEN Sign(k1[1], k2[1]) ELSE Sign(k1[2], k2[2])

btrfs_comp_keys(k1, k2) ==
  IF btrfs_comp_keys_type(k1, k2) # 0 THEN btrfs_comp_keys_type(k1, k2)
  ELSE Sign(k1[3], k2[3])

-----------------------------------------------------------------------------
(* The chunk map: a sequence of chunks ordered by logical address. *)

FindChunk(map, item) ==
  bin_search([i \in 0 .. Len(map) - 1 |-> btrfs_comp_chunk_map(map[i + 1], item)],
             0, Len(map))

insert_map(map, item) ==
  LET s == FindChunk(map, item)
  IN IF s.found \/ Len(map) = BTRFS_MAX_CHUNK_ENTRIES THEN map
     ELSE SubSeq(map, 1, s.slot) \o <<item>> \o SubSeq(map, s.slot + 1, Len(map))

\* -1: the address is in no chunk.
logical_physical(map, logical) ==
  LET s == FindChunk(map, [logical |-> logical])
      slot == IF s.found THEN s.slot + 1 ELSE s.slot
  IN IF slot = 0 THEN -1
     ELSE IF logical >= map[slot].logical + map[slot].length THEN -1
     ELSE map[slot].physical + logical - map[slot].logical

-----------------------------------------------------------------------------
(* The trees.  A path remembers, for each level, the block and the slot.   *)

clear_path == LET zero == [l \in 0 .. BTRFS_MAX_LEVEL - 1 |-> 0]
              IN [offsets |-> zero, itemsnr |-> zero, slots |-> zero]

NodeAt(v, map, lo) == v.nodes[logical_physical(map, lo)]

\* The last item of the node that is at most the key, from the slot of the path on.
Visit(nd, lo, key, p) ==
  LET l == nd.level
      n == Len(nd.items)
      at(s) == IF ~s.found /\ s.slot > p.slots[l] THEN s.slot - 1 ELSE s.slot
      to(slot, found) ==
        [offsets |-> [p.offsets EXCEPT ![l] = lo],
         itemsnr |-> [p.itemsnr EXCEPT ![l] = n],
         slots   |-> [p.slots EXCEPT ![l] = slot],
         item    |-> nd.items[slot + 1],
         found   |-> found]
      from(s) == to(at(s), s.found)
  IN from(bin_search([i \in 0 .. n - 1 |-> btrfs_comp_keys(nd.items[i + 1].key, key)], p.slots[l], n))

\* From the block at loffset down to a leaf.
search_tree(v, map, loffset, key, path) ==
  LET top == NodeAt(v, map, loffset).level
      down[l \in 0 .. top] ==
        IF l = top THEN Visit(NodeAt(v, map, loffset), loffset, key, path)
        ELSE LET up == down[l + 1]
             IN Visit(NodeAt(v, map, up.item.blockptr), up.item.blockptr, key, up)
  IN down[0]

\* The level that still has a slot to the right; 0: none.
next_leaf(v, map, key, path) ==
  LET l == Min({BTRFS_MAX_LEVEL}
               \cup {k \in 1 .. BTRFS_MAX_LEVEL - 1 :
                       path.itemsnr[k] = 0 \/ path.slots[k] + 1 < path.itemsnr[k]})
  IN IF l = BTRFS_MAX_LEVEL THEN [more |-> FALSE, path |-> path]
     ELSE IF path.itemsnr[l] = 0 THEN [more |-> FALSE, path |-> path]
     ELSE [more |-> TRUE,
           path |-> search_tree(v, map, path.offsets[l], key,
                                [path EXCEPT !.slots[l] = @ + 1, !.slots[l - 1] = 0])]

next_slot(v, map, key, path) ==
  IF path.slots[0] + 1 >= path.itemsnr[0] THEN [more |-> FALSE, path |-> path]
  ELSE [more |-> TRUE,
        path |-> search_tree(v, map, path.offsets[0], key, [path EXCEPT !.slots[0] = @ + 1])]

OrNextLeaf(v, map, key, path, s) == IF s.more THEN s ELSE next_leaf(v, map, key, path)

\* What both loops over a tree do after an item: the next slot, or the next leaf.
NextItem(v, map, key, path) == OrNextLeaf(v, map, key, path, next_slot(v, map, key, path))

-----------------------------------------------------------------------------
(* What the searches expect of a tree. *)

\* The order of keys.
Before(k1, k2) == btrfs_comp_keys(k1, k2) < 0
NotAfter(k1, k2) == Before(k1, k2) \/ k1 = k2

\* T: the logical addresses of the blocks of a tree, Keys: for each of them the
\* keys of the items in the leaves below it.  The keys of a block are in order;
\* the key of a pointer is the least key below it, and all keys below it are
\* before that of the next pointer.
TreeBlock(v, map, T, Keys, lo, nd) ==
  LET it == nd.items
  IN /\ nd \in btrfs_leaf \cup btrfs_node
     /\ it # <<>> /\ Keys[lo] \subseteq btrfs_disk_key
     /\ \A i, j \in 1 .. Len(it) : i < j => Before(it[i].key, it[j].key)
     /\ nd.level = 0 => Keys[lo] = {it[i].key : i \in 1 .. Len(it)}
     /\ nd.level # 0 =>
          /\ Keys[lo] = UNION {Keys[it[i].blockptr] : i \in 1 .. Len(it)}
          /\ \A i \in 1 .. Len(it) :
               /\ it[i].blockptr \in T
               /\ NodeAt(v, map, it[i].blockptr).level = nd.level - 1
               /\ it[i].key \in Keys[it[i].blockptr]
               /\ \A k \in Keys[it[i].blockptr] :
                    /\ NotAfter(it[i].key, k)
                    /\ i < Len(it) => Before(k, it[i + 1].key)

SearchTree(v, map, T, Keys) ==
  \A lo \in T : TreeBlock(v, map, T, Keys, lo, NodeAt(v, map, lo))

-----------------------------------------------------------------------------
(* Mounting. *)

\* The newest super block; [generation |-> 0] when no copy is good.  junk is
\* what fsid holds before it is assigned.
btrfs_read_super_block(v, junk) ==
  LET try[i \in 0 .. BTRFS_SUPER_MIRROR_MAX] ==     \* after copies 0 .. i - 1
        IF i = 0 THEN [sb |-> [generation |-> 0], fsid |-> junk, go |-> TRUE]
        ELSE LET was == try[i - 1]
                 buf == v.supers[i]
                 inside == was.sb.generation = 0 \/ i - 1 < was.sb.mirrors
                 fsid == IF i = 1 THEN buf.fsid ELSE was.fsid
             IN IF ~was.go \/ ~inside \/ ~buf.readable THEN [was EXCEPT !.go = FALSE]
                ELSE IF ~buf.valid \/ fsid # buf.fsid THEN was
                ELSE [sb |-> IF buf.generation > was.sb.generation THEN buf ELSE was.sb,
                      fsid |-> fsid, go |-> TRUE]
  IN try[BTRFS_SUPER_MIRROR_MAX].sb

ChunkItem(logical, chunk) ==
  [logical |-> logical, length |-> chunk.length, physical |-> chunk.stripe]

btrfs_read_sys_chunk_array(sb) ==
  LET arr == sb.sys_chunk_array
      map[i \in 0 .. Len(arr)] ==
        IF i = 0 THEN <<>>
        ELSE insert_map(map[i - 1], ChunkItem(arr[i].key[3], arr[i]))
  IN map[Len(arr)]

\* The loop ends at the first item that is not a chunk; the map grows while
\* it is used to read the tree.
btrfs_read_chunk_tree(v, sb, map0) ==
  LET key == <<BTRFS_FIRST_CHUNK_TREE_OBJECTID, BTRFS_CHUNK_ITEM_KEY, 0>>
      at[n \in 0 .. BTRFS_MAX_ITEMS] ==
        IF n = 0
        THEN [more |-> TRUE, map |-> map0,
              path |-> search_tree(v, map0, sb.chunk_root, key, clear_path)]
        ELSE LET was == at[n - 1]
                 it == was.path.item
                 map == insert_map(was.map, ChunkItem(it.key[3], it))
                 to(nx) == [more |-> nx.more, map |-> map, path |-> nx.path]
             IN IF ~was.more \/ btrfs_comp_keys_type(key, it.key) # 0
                THEN [was EXCEPT !.more = FALSE]
                ELSE to(NextItem(v, map, key, was.path))
  IN IF sb.metadump THEN map0 ELSE at[BTRFS_MAX_ITEMS].map

\* Mutant: strncmp over the length of the wanted name.
RefMatchesWanted(ref, subvol) ==
  Len(subvol) <= Len(ref) /\ SubSeq(ref, 1, Len(subvol)) = subvol

\* strncmp over the length of the reference's name.
RefMatches(ref, subvol) ==
  Len(ref) <= Len(subvol) /\ SubSeq(subvol, 1, Len(ref)) = ref

\* The objectid of the subvolume; the default tree when it is not found.
FindSubvol(v, sb, map) ==
  LET key == <<BTRFS_FS_TREE_OBJECTID, BTRFS_ROOT_REF_KEY, 0>>
      first(p) == IF p.found THEN p ELSE next_slot(v, map, key, p).path
      at[n \in 0 .. BTRFS_MAX_ITEMS] ==
        IF n = 0
        THEN [more |-> TRUE, id |-> BTRFS_FS_TREE_OBJECTID,
              path |-> first(search_tree(v, map, sb.root, key, clear_path))]
        ELSE LET was == at[n - 1]
                 it == was.path.item
                 to(nx) == [was EXCEPT !.more = nx.more, !.path = nx.path]
             IN IF ~was.more \/ btrfs_comp_keys_type(key, it.key) # 0
                THEN [was EXCEPT !.more = FALSE]
                ELSE IF RefMatches(it.name, v.subvol)
                THEN [was EXCEPT !.more = FALSE, !.id = it.key[3]]
                ELSE to(NextItem(v, map, key, was.path))
  IN IF v.subvol = <<>> THEN BTRFS_FS_TREE_OBJECTID ELSE at[BTRFS_MAX_ITEMS].id

btrfs_get_fs_tree(v, sb, map) ==
  search_tree(v, map, sb.root,
              <<FindSubvol(v, sb, map), BTRFS_ROOT_ITEM_KEY, BTRFS_HIGHEST>>,
              clear_path).item.bytenr

Opened(v, sb, map) ==
  [ok |-> TRUE, sb |-> sb, map |-> map, fs_tree |-> btrfs_get_fs_tree(v, sb, map)]

btrfs_fs_init(v, junk) ==
  LET sb == btrfs_read_super_block(v, junk)
  IN IF sb.generation = 0 THEN [ok |-> FALSE]
     ELSE Opened(v, sb, btrfs_read_chunk_tree(v, sb, btrfs_read_sys_chunk_array(sb)))

-----------------------------------------------------------------------------
(* Inodes, directories and files; m is what btrfs_fs_init returned. *)

btrfs_name_hash(v, name) == v.hash[name]

Search(v, m, key) == search_tree(v, m.map, m.fs_tree, key, clear_path)

\* Mutant: the header of the block is forgotten.
ExtentOffsetNoHeader(p, skip) ==
  IF p.item.inline THEN p.offsets[0] + p.item.data ELSE p.item.disk_bytenr + skip

\* The logical address of what an EXTENT_DATA item says; p is its path.
ExtentOffset(p, skip) ==
  IF p.item.inline THEN p.offsets[0] + BTRFS_HEADER + p.item.data
  ELSE p.item.disk_bytenr + skip

\* e: where the item of the file's first bytes is; an empty file has none, nor
\* has one that begins with a hole for which there is no item.
FileInode(inr, p, e) ==
  IF ~e.found THEN BTRFS_NULL
  ELSE [ino |-> inr, size |-> p.item.size, offset |-> ExtentOffset(e, 0)]

\* p: where the INODE_ITEM is.
ItemInode(v, m, inr, p) ==
  IF ~p.found THEN BTRFS_NULL
  ELSE IF p.item.mode = "dir" THEN [ino |-> inr, size |-> p.item.size, offset |-> 0]
  ELSE FileInode(inr, p, Search(v, m, <<inr, BTRFS_EXTENT_DATA_KEY, 0>>))

btrfs_iget_by_inr(v, m, inr) ==
  ItemInode(v, m, inr, Search(v, m, <<inr, BTRFS_INODE_ITEM_KEY, 0>>))

btrfs_iget_root(v, m) == btrfs_iget_by_inr(v, m, BTRFS_FIRST_CHUNK_TREE_OBJECTID)

\* p: where the DIR_ITEM is; the name itself is never compared.
DirItemInode(v, m, p) == IF ~p.found THEN BTRFS_NULL ELSE btrfs_iget_by_inr(v, m, p.item.location)

btrfs_iget(v, m, name, parent) ==
  DirItemInode(v, m, Search(v, m, <<parent, BTRFS_DIR_ITEM_KEY, btrfs_name_hash(v, name)>>))

\* From the highest hash to the lowest; the offset is the last one returned.
btrfs_readdir(v, m, parent, offset) ==
  LET key == <<parent, BTRFS_DIR_ITEM_KEY, IF offset = 0 THEN BTRFS_HIGHEST ELSE offset - 1>>
      of(p) == IF ~p.found /\ btrfs_comp_keys_type(key, p.item.key) # 0
               THEN [end |-> TRUE, offset |-> offset]
               ELSE [end |-> FALSE, name |-> p.item.name, d_ino |-> p.item.location,
                     offset |-> p.item.key[3]]
  IN of(Search(v, m, key))

Sectors(n) == (n + BTRFS_SECTOR - 1) \div BTRFS_SECTOR

\* The sector of an address; that of no address lies past the end of any disk.
SectorOf(physical) == IF physical = -1 THEN BTRFS_NOWHERE ELSE physical \div BTRFS_SECTOR

\* The inode keeps the address of the extent.  That of a hole is 0, as for any
\* other extent; a sector that no item speaks of, or not from its start, is an error.
btrfs_next_extent(v, m, inode, lstart) ==
  LET to(p, offset) ==
        [err |-> FALSE,
         pstart |-> SectorOf(logical_physical(m.map, offset)),
         len |-> Sectors(IF p.item.inline THEN inode.size ELSE p.item.num_bytes),
         inode |-> [inode EXCEPT !.offset = offset]]
      of(p) == IF ~p.found \/ p.item.compressed THEN [err |-> TRUE, inode |-> inode]
               ELSE to(p, ExtentOffset(p, p.item.offset))
  IN of(Search(v, m, <<inode.ino, BTRFS_EXTENT_DATA_KEY, lstart * BTRFS_SECTOR>>))

\* A read of an inline file from its start: the part of the sector before the
\* data is added to the size, read, and removed.  Other reads are
\* generic_getfssec's.  from, n: the physical units delivered.
btrfs_getfssec(v, m, inode, foffset, sectors) ==
  LET off == inode.offset % BTRFS_SECTOR
      patch == off # 0 /\ foffset = 0
      file == IF patch THEN [inode EXCEPT !.size = @ + off] ELSE inode
      n == Min({sectors * BTRFS_SECTOR, file.size - foffset})
      from(ext, lost) ==
        [from |-> ext.pstart * BTRFS_SECTOR + foffset + lost, n |-> n - lost,
         inode |-> [file EXCEPT !.offset = ext.inode.offset], foffset |-> foffset + n]
      of(ext) == from(ext, IF patch THEN ext.inode.offset % BTRFS_SECTOR ELSE 0)
  IN of(btrfs_next_extent(v, m, file, 0))
=============================================================================
