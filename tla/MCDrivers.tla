------------------------------ MODULE MCDrivers ------------------------------
(***************************************************************************)
(* Small volumes for Drivers, made from what they are to hold, and what    *)
(* the drivers must say about them.                                        *)
(***************************************************************************)
EXTENDS Drivers, SequencesExt, FiniteSetsExt

a == <<97>>
b == <<98>>
c == <<99>>
z == <<122>>

\* All pairs of elements of two sequences; a sequence mapped.
Cross(s, t) == [i \in 1 .. Len(s) * Len(t) |->
                  <<s[((i - 1) \div Len(t)) + 1], t[((i - 1) % Len(t)) + 1]>>]
Map(s, F(_)) == [i \in DOMAIN s |-> F(s[i])]

-----------------------------------------------------------------------------
(* ext2: the root's entries lie in one or two blocks. *)

Ent(name, ino, len) == [d_name |-> name, d_inode |-> ino, d_rec_len |-> len]

\* Entries of a block by their offsets.
EntryStart(ents, i) == FoldFunction(+, 0, [j \in 1 .. i - 1 |-> ents[j].d_rec_len])
DirBlock(ents) ==
  [o \in {EntryStart(ents, i) : i \in 1 .. Len(ents)} |->
     ents[CHOOSE i \in 1 .. Len(ents) : EntryStart(ents, i) = o]]

Ext2First == << <<Ent(a, 3, 1), Ent(b, 4, 3)>>, <<Ent(a, 3, 4)>>,
               <<Ent(z, 0, 2), Ent(a, 3, 2)>>, <<Ent(a, 3, 1), Ent(b, 0, 1), Ent(b, 4, 2)>> >>
Ext2Second == << <<>>, <<Ent(c, 5, 4)>>, <<Ent(c, 0, 1), Ent(c, 5, 3)>> >>

\* The lists of block numbers of a file as the blocks of the three hierarchies:
\* f is the list, chunk j the j-th part of it after the direct ones.
Chunk(f, j) == [i \in 1 .. ADDR_COUNT |->
                  LET n == EXT2_NDIR_BLOCKS + j * ADDR_COUNT + i
                  IN IF n \in DOMAIN f THEN f[n] ELSE 0]
AllHoles(s) == \A i \in DOMAIN s : s[i] = 0
L1(f, j) == IF AllHoles(Chunk(f, j)) THEN 0 ELSE 300 + j
L2Block(f, k) == [i \in 1 .. ADDR_COUNT |-> L1(f, k * ADDR_COUNT - 2 + i)]
L2(f, k) == IF AllHoles(L2Block(f, k)) THEN 0 ELSE 400 + k
L3Block(f) == [i \in 1 .. ADDR_COUNT |-> L2(f, i + 1)]
Indirect(f) ==
  [n \in (300 .. 306) \cup (401 .. 403) \cup {500} |->
     IF n < 400 THEN Chunk(f, n - 300) ELSE IF n < 500 THEN L2Block(f, n - 400) ELSE L3Block(f)]
IBlock(f) ==
  [i \in 1 .. EXT2_NDIR_BLOCKS |-> IF i \in DOMAIN f THEN f[i] ELSE 0]
  \o <<L1(f, 0), L2(f, 1), IF AllHoles(L3Block(f)) THEN 0 ELSE 500>>

\* The same list as a tree of extents of the given depth.
Starts(f) == {i \in DOMAIN f : f[i] # 0 /\ (i = 1 \/ f[i - 1] = 0 \/ f[i - 1] + 1 # f[i])}
ExtentAt(f, i) ==
  [block |-> i - 1, start |-> f[i],
   len |-> Max({n \in 1 .. Len(f) - i + 1 : \A k \in 0 .. n - 1 : f[i + k] = f[i] + k})]
ExtentList(f) == LET s == SetToSortSeq(Starts(f), <)
                 IN [k \in 1 .. Len(s) |-> ExtentAt(f, s[k])]
\* Leaves of one extent each; above them a node, and a root over that.
Leaves(f) == [n \in 600 .. 599 + Len(ExtentList(f)) |->
                [depth |-> 0, ents |-> <<ExtentList(f)[n - 599]>>]]
Pointers(f) == [k \in 1 .. Len(ExtentList(f)) |->
                  [block |-> ExtentList(f)[k].block, leaf |-> 599 + k]]
ExtBlocks(f) == [n \in DOMAIN Leaves(f) \cup {700} |->
                   IF n = 700 THEN [depth |-> 1, ents |-> Pointers(f)] ELSE Leaves(f)[n]]
ExtRoot(f, depth) ==
  CASE depth = 0 -> [depth |-> 0, ents |-> ExtentList(f)]
    [] depth = 1 -> [depth |-> 1, ents |-> Pointers(f)]
    [] depth = 2 -> [depth |-> 2, ents |-> <<[block |-> ExtentList(f)[1].block, leaf |-> 700]>>]

\* A file as long as the map reaches, with holes and one break.
Frag(n, holes, cut) ==
  [i \in 1 .. n |-> IF i \in holes THEN 0 ELSE IF i > cut THEN 30 + i ELSE 20 + i]

Dir(blocks) == [size |-> Len(blocks) * EXT2_BLOCK, extents |-> FALSE,
                i_block |-> blocks \o [i \in 1 .. EXT2_NDIR_BLOCKS + 3 - Len(blocks) |-> 0]]

\* The driver names a file by the inode of the entry, so entry a is the file.
Ext2Volume(d1, d2, f, inode, desc, isize) ==
  LET blocks == IF d2 = <<>> THEN <<50>> ELSE <<50, 51>>
      live == SelectSeq(d1 \o d2, LAMBDA e : e.d_inode # 0)
      find(n) == {i \in DOMAIN live : live[i].d_name = n}
  IN [kind |-> "ext2",
      img |-> [sb |-> [s_inodes_per_group |-> 2, s_inode_size |-> isize, s_desc_size |-> desc,
                       s_groups_count |-> 3],
               tables |-> [g \in 0 .. 2 |-> 100 + 10 * g],
               inodes |-> [n \in 2 .. 5 |-> IF n = 2 THEN Dir(blocks) ELSE inode],
               ind |-> Indirect(f), ext |-> ExtBlocks(f),
               data |-> [n \in {blocks[i] : i \in DOMAIN blocks} |->
                           DirBlock(IF n = 50 THEN d1 ELSE d2)]],
      names |-> {a, b, c, z},
      listing |-> [i \in DOMAIN live |-> [name |-> live[i].d_name, ino |-> live[i].d_inode]],
      expect |-> [n \in {a, b, c, z} |-> IF find(n) = {} THEN -1 ELSE live[Min(find(n))].d_inode],
      file |-> a,
      runs |-> [i \in DOMAIN f |-> [l |-> (i - 1) * EXT2_BLKSECS, n |-> EXT2_BLKSECS,
                                    p |-> IF f[i] = 0 THEN -1 ELSE f[i] * EXT2_BLKSECS]],
      small |-> Nothing]

Mapped(f) == [size |-> Len(f), extents |-> FALSE, i_block |-> IBlock(f)]
InExtents(f, depth) == [size |-> Len(f), extents |-> TRUE, i_extent_hdr |-> ExtRoot(f, depth)]

Short == Frag(2, {}, 2)
OneFile(f, inode) == Ext2Volume(<<Ent(a, 3, 4)>>, <<>>, f, inode, 32, 128)
Ext2Volumes ==
  Map(Cross(Cross(Ext2First, Ext2Second), Cross(<<0, 32, 64>>, <<128, 256>>)),
      LAMBDA x : Ext2Volume(x[1][1], x[1][2], Short, Mapped(Short), x[2][1], x[2][2]))
  \o Map(Cross(<<{}, 1 .. 4, 3 .. 10, 6 .. 15, {2, 5, 9}, 5 .. 6, 11 .. 16, {3}, {15}>>, <<1, 3, 9, 16>>),
         LAMBDA x : OneFile(Frag(16, x[1], x[2]), Mapped(Frag(16, x[1], x[2]))))
  \o Map(Cross(Cross(<<{}, {3}, {1}>>, <<1, 2, 3>>), <<0, 1, 2>>),
         LAMBDA x : LET f == Frag(4, x[1][1], x[1][2]) IN OneFile(f, InExtents(f, x[2])))

\* The headers of a tree of extents, which has at most three levels, and the
\* extents below each.
ExtentBlocksOf(v, root) ==
  LET below(S) == S \cup UNION {{v.ext[eh.ents[i].leaf] : i \in DOMAIN eh.ents} :
                                  eh \in {x \in S : x.depth # 0}}
  IN below(below({root}))
ExtentsBelow(v, T) ==
  LET exts[eh \in T] == IF eh.depth = 0 THEN {eh.ents[i] : i \in DOMAIN eh.ents}
                        ELSE UNION {exts[v.ext[eh.ents[i].leaf]] : i \in DOMAIN eh.ents}
  IN exts

\* These are trees that the theorem about extents speaks of.
ASSUME ExtentTreesAssumption ==
  \A i \in DOMAIN Ext2Volumes :
     LET v == Ext2Volumes[i].img
         T == ExtentBlocksOf(v, v.inodes[3].i_extent_hdr)
     IN v.inodes[3].extents => ExtentTree(v, T, ExtentsBelow(v, T))

-----------------------------------------------------------------------------
(* FAT: the root is made from a sequence of files, deleted files, orphaned *)
(* long names and a label.                                                 *)

Chunks(name) == (Len(name) + FAT_CHUNK - 1) \div FAT_CHUNK
Padded(name) ==
  [i \in 1 .. Chunks(name) * FAT_CHUNK |->
     IF i <= Len(name) THEN name[i] ELSE IF i = Len(name) + 1 THEN 0 ELSE FFFF]
LongEntries(name, sum) ==
  LET n == Chunks(name)
  IN [k \in 1 .. n |->
        [first |-> IF k = 1 THEN LAST_LONG + n ELSE n - k + 1, attr |-> "long", checksum |-> sum,
         chunk |-> SubSeq(Padded(name), (n - k) * FAT_CHUNK + 1, (n - k + 1) * FAT_CHUNK)]]
ShortEntry(short, cluster, low) ==
  [first |-> short[1], attr |-> "file", name |-> short, cluster |-> cluster, size |-> 1,
   lcase_base |-> low, lcase_ext |-> FALSE]
Delete(ents) ==
  [i \in DOMAIN ents |-> IF ents[i].attr = "long" THEN [ents[i] EXCEPT !.first = DELETED]
                         ELSE [ents[i] EXCEPT !.first = DELETED, !.name[1] = DELETED]]

\* The checksum as a formatter computes it: rotate right, add, in 8 bits.
Sum3(n) == LET rot(s) == (s % 2) * 128 + s \div 2
           IN (rot((rot(n[1]) + n[2]) % 256) + n[3]) % 256

abc == <<97, 98, 99>>
abcd == <<97, 98, 99, 100>>
abcde == <<97, 98, 99, 100, 101>>
AB == <<65, 66>>
A_B == <<65, 46, 66>>
ABx == <<65, 66, 46, 126>>

\* long: <<>> for a file that has only its short name.
FatFile(long, short, cluster, low, shown) ==
  [kind |-> "file", long |-> long, shown |-> shown, ino |-> cluster,
   ents |-> (IF long = <<>> THEN <<>> ELSE LongEntries(long, Sum3(short)))
            \o <<ShortEntry(short, cluster, low)>>]
FatItems ==
  LET f1 == FatFile(abc, <<65, 66, 126>>, 20, FALSE, ABx)
      f2 == FatFile(<<>>, <<65, 66, 32>>, 21, FALSE, AB)
      junk(kind, ents) == [kind |-> kind, ents |-> ents]
  IN <<f1, f2, junk("deleted", Delete(f1.ents)), junk("deleted", Delete(f2.ents)),
       junk("orphan", LongEntries(abc, 1)),
       junk("broken", <<LongEntries(abc, Sum3(<<65, 66, 32>>))[1]>>),
       junk("label", <<[first |-> 65, attr |-> "label", name |-> <<65, 66, 32>>]>>),
       FatFile(abcd, <<65, 66, 51>>, 22, FALSE, <<65, 66, 46, 51>>),
       FatFile(abcde, <<65, 51, 32>>, 23, FALSE, <<65, 51>>),
       FatFile(<<>>, <<65, 32, 66>>, 24, TRUE, <<97, 46, 66>>)>>

EndEntry == [first |-> 0, attr |-> "file"]
\* A sector that is no directory, read as one.
BootSector == [i \in 1 .. FAT_SECTOR |-> ShortEntry(<<235, 88, 144>>, 0, FALSE)]

\* chain: the sectors of the root, in a region of their own or in clusters.
FatVolume(items, chain, data) ==
  LET ents == FlattenSeq([i \in DOMAIN items |-> items[i].ents])
      need == (Len(ents) + FAT_SECTOR - 1) \div FAT_SECTOR
      files == SelectSeq(items, LAMBDA x : x.kind = "file")
      hit(f, n) == n = f.long \/ [i \in DOMAIN n |-> upper(n[i])] = [i \in DOMAIN f.shown |-> upper(f.shown[i])]
      names == {abc, abcd, abcde, AB, A_B, ABx, <<97, 98>>}
      find(n) == {i \in DOMAIN files : hit(files[i], n)}
      slot(k) == IF k <= Len(ents) THEN ents[k] ELSE EndEntry
      used == SubSeq(chain, 1, IF need = 0 THEN 1 ELSE need)
  IN [kind |-> "vfat",
      img |-> [root |-> chain[1], data |-> data, csecs |-> 1, clusters |-> 9, root_size |-> Len(chain),
               fat |-> [cl \in 2 .. 10 |->
                          LET at == {i \in DOMAIN used : used[i] = data + cl - 2}
                          IN IF at = {} \/ at = {Len(used)} THEN 4095
                             ELSE used[Max(at) + 1] - data + 2],
               sec |-> [s \in 0 .. 12 |->
                          IF s \notin Range(chain) THEN BootSector
                          ELSE LET i == CHOOSE j \in DOMAIN chain : chain[j] = s
                               IN [k \in 1 .. FAT_SECTOR |-> slot((i - 1) * FAT_SECTOR + k)]]],
      items |-> items,
      full |-> Len(ents) = Len(IF data > chain[1] THEN chain ELSE used) * FAT_SECTOR,
      names |-> names,
      listing |-> [i \in DOMAIN files |->
                     [ino |-> files[i].ino,
                      name |-> IF files[i].long = <<>> \/ Chunks(files[i].long) = FAT_SLOTS
                               THEN files[i].shown ELSE files[i].long]],
      expect |-> [n \in names |-> IF find(n) = {} THEN -1 ELSE files[Min(find(n))].ino],
      file |-> <<>>, runs |-> <<>>, small |-> Nothing]

\* Pairs in a root of its own region, triples in one that is a chain of clusters.
FatVolumes ==
  <<FatVolume(<<>>, <<5, 6, 7, 8>>, 9)>>
  \o Map(Cross(FatItems, FatItems), LAMBDA x : FatVolume(x, <<5, 6, 7, 8>>, 9))
  \o Map(Cross(Cross(SubSeq(FatItems, 3, 7), SubSeq(FatItems, 3, 7)), SubSeq(FatItems, 1, 2)),
         LAMBDA x : FatVolume(<<x[1][1], x[1][2], x[2]>>, <<9, 7, 12, 10>>, 5))
  \o Map(FatItems, LAMBDA x : FatVolume(<<x, FatItems[2]>>, <<9, 7, 12, 10>>, 5))

-----------------------------------------------------------------------------
(* btrfs: trees made from their items by cutting these into leaves. *)

Node == 8                        \* units in a tree block
BtrfsChunk(logical, length, stripe) ==
  [key |-> <<BTRFS_FIRST_CHUNK_TREE_OBJECTID, BTRFS_CHUNK_ITEM_KEY, logical>>,
   length |-> length, stripe |-> stripe]
Phys(chunks, l) ==
  LET k == CHOOSE i \in DOMAIN chunks : l - chunks[i].key[3] \in 0 .. chunks[i].length - 1
  IN chunks[k].stripe + l - chunks[k].key[3]

\* The blocks of a tree from base on, as pairs of address and block, the root
\* last: leaves, a node over them if there are several and, for deep trees, a
\* root over one node for the first leaf and one for the others.
TreeBlocks(items, cuts, base, deep) ==
  LET bounds == SortSeq(<<0, Len(items)>> \o SetToSortSeq(cuts, <), <)
      n == Len(bounds) - 1
      addr(k) == base + (k - 1) * Node
      leaf(k) == [level |-> 0, items |-> SubSeq(items, bounds[k] + 1, bounds[k + 1])]
      ptr(k) == [key |-> leaf(k).items[1].key, blockptr |-> addr(k)]
      over(ks) == [level |-> 1, items |-> ks]
      leaves == [k \in 1 .. n |-> <<addr(k), leaf(k)>>]
      tail == [k \in 1 .. n - 1 |-> ptr(k + 1)]
  IN IF n = 1 THEN leaves
     ELSE IF ~deep THEN leaves \o << <<addr(n + 1), over([k \in 1 .. n |-> ptr(k)])>> >>
     ELSE leaves \o << <<addr(n + 1), over(<<ptr(1)>>)>>, <<addr(n + 2), over(tail)>>,
                       <<addr(n + 3), [level |-> 2,
                          items |-> <<[key |-> ptr(1).key, blockptr |-> addr(n + 1)],
                                      [key |-> ptr(2).key, blockptr |-> addr(n + 2)]>>]>> >>
RootOf(blocks) == blocks[Len(blocks)][1]

DirItem(hash, name, ino) ==
  [key |-> <<256, BTRFS_DIR_ITEM_KEY, hash>>, name |-> name, location |-> ino]
InodeItem(ino, mode, size) ==
  [key |-> <<ino, BTRFS_INODE_ITEM_KEY, 0>>, mode |-> mode, size |-> size]
DataItem(ino, at, bytenr, off, n) ==
  [key |-> <<ino, BTRFS_EXTENT_DATA_KEY, at>>, inline |-> FALSE, compressed |-> FALSE,
   disk_bytenr |-> bytenr, offset |-> off, num_bytes |-> n]
InlineItem(ino, data) ==
  [key |-> <<ino, BTRFS_EXTENT_DATA_KEY, 0>>, inline |-> TRUE, compressed |-> FALSE,
   data |-> data, offset |-> 0]
RootItem(id, bytenr) == [key |-> <<id, BTRFS_ROOT_ITEM_KEY, 0>>, bytenr |-> bytenr]
RootRef(id, name) == [key |-> <<BTRFS_FS_TREE_OBJECTID, BTRFS_ROOT_REF_KEY, id>>, name |-> name]
DevItem == [key |-> <<1, BTRFS_DEV_ITEM_KEY, 1>>]

ByKey(items) == SortSeq(items, LAMBDA x, y : btrfs_comp_keys(x.key, y.key) < 0)

\* The tree of the root directory: a is a file of two parts, b an inline one of 5
\* units at place data of its leaf or an empty one, c a directory.  A part is data,
\* a hole with an item (address 0) or a hole without one.
FsItems(p) ==
  LET part(i, at, bytenr, off) ==
        CASE p.parts[i] = "data" -> <<DataItem(257, at, bytenr, off, 8)>>
          [] p.parts[i] = "hole" -> <<DataItem(257, at, 0, 0, 8)>>
          [] p.parts[i] = "gap"  -> <<>>
  IN ByKey(<<InodeItem(256, "dir", 0), InodeItem(257, "file", 16),
             InodeItem(258, "file", IF p.empty THEN 0 ELSE 5), InodeItem(259, "dir", 0),
             DirItem(p.hash[a], a, 257), DirItem(p.hash[b], b, 258), DirItem(p.hash[c], c, 259)>>
           \o part(1, 0, 504, 4) \o part(2, 8, 544, 0)
           \o (IF p.empty THEN <<>> ELSE <<InlineItem(258, p.data)>>))

\* The subvolumes s and st have empty trees of their own.
S1 == 300
S2 == 308
s_ == <<115>>
st_ == <<115, 116>>
RootItems(fs, order) ==
  ByKey(<<RootItem(2, 0), RootItem(5, fs), RootItem(256, S1), RootItem(257, S2),
          RootRef(256, order[1]), RootRef(257, order[2])>>)

SuperBlock(valid, fsid, gen, mirrors) ==
  [valid |-> valid, readable |-> TRUE, fsid |-> fsid, generation |-> gen, mirrors |-> mirrors]

\* p: hash, fscuts, deep, data, parts (of file a), empty (file b), zero (a chunk
\* starts at logical 0), extra (one chunk more), rootcuts, order, subvol, supers.
BtrfsVolume(p) ==
  LET first == IF p.zero THEN 0 ELSE 8
      sys == BtrfsChunk(first, 100 - first, 700)
      meta == BtrfsChunk(100, 300, 1000)
      chunks == <<sys, meta, BtrfsChunk(500, 20, 300)>>
                \o (IF p.extra THEN <<BtrfsChunk(520, 20, 400)>> ELSE <<>>)
                \o <<BtrfsChunk(540, 20, 200)>>
      chunk == TreeBlocks(<<DevItem>> \o chunks, p.chunkcuts, 8, FALSE)
      fs == TreeBlocks(FsItems(p), p.fscuts, 100, p.deep)
      roots == TreeBlocks(RootItems(RootOf(fs), p.order), p.rootcuts, 200, FALSE)
      sub(at) == << <<at, [level |-> 0, items |-> <<InodeItem(256, "dir", 0)>>]>> >>
      all == chunk \o roots \o fs \o sub(S1) \o sub(S2)
      hashes == {p.hash[n] : n \in {a, b, c}}
      place(n) == CASE n = a -> 257 [] n = b -> 258 [] n = c -> 259 [] OTHER -> -1
      inl == CHOOSE i \in DOMAIN fs : \E j \in DOMAIN fs[i][2].items :
                fs[i][2].level = 0 /\ fs[i][2].items[j].key = <<258, BTRFS_EXTENT_DATA_KEY, 0>>
  IN [kind |-> "btrfs", p |-> p, chunks |-> chunks,
      img |-> [supers |-> [i \in 1 .. 3 |->
                 [f \in DOMAIN p.supers[i] \cup {"root", "chunk_root", "sys_chunk_array", "metadump"} |->
                    CASE f = "root" -> RootOf(roots)
                      [] f = "chunk_root" -> RootOf(chunk)
                      [] f = "sys_chunk_array" -> IF p.zero THEN <<sys>> ELSE <<meta, sys>>
                      [] f = "metadump" -> FALSE
                      [] OTHER -> p.supers[i][f]]],
               nodes |-> [q \in {Phys(chunks, all[i][1]) : i \in DOMAIN all} |->
                            all[CHOOSE i \in DOMAIN all : Phys(chunks, all[i][1]) = q][2]],
               hash |-> p.hash, subvol |-> p.subvol],
      want |-> IF p.subvol = <<>> THEN RootOf(fs) ELSE IF p.subvol = p.order[1] THEN S1 ELSE S2,
      names |-> {a, b, c, z},
      listing |-> IF p.subvol # <<>> THEN <<>> ELSE Map(SetToSortSeq(hashes, >),
                      LAMBDA h : LET n == CHOOSE x \in {a, b, c} : p.hash[x] = h
                                 IN [name |-> n, ino |-> place(n)]),
      expect |-> [n \in {a, b, c, z} |-> IF p.subvol = <<>> THEN place(n) ELSE -1],
      file |-> p.file,
      runs |-> IF p.file = b THEN <<>>
               ELSE [i \in 1 .. 2 |->
                       [l |-> 2 * (i - 1), n |-> 2,
                        p |-> IF p.parts[i] = "data" THEN <<308, 204>>[i] \div 4 ELSE -1]],
      small |-> IF p.file = b
                THEN [from |-> Phys(chunks, fs[inl][1]) + BTRFS_HEADER + p.data, n |-> 5]
                ELSE Nothing]

Hashes(ha, hb, hc, hz) == [n \in {a, b, c, z} |->
  CASE n = a -> ha [] n = b -> hb [] n = c -> hc [] n = z -> hz]
Good == <<SuperBlock(TRUE, 1, 5, 3), SuperBlock(TRUE, 1, 5, 3), SuperBlock(TRUE, 1, 5, 3)>>
BtrfsBase ==
  [hash |-> Hashes(5, 9, 3, 7), fscuts |-> {}, deep |-> FALSE, data |-> 2, zero |-> TRUE,
   parts |-> <<"data", "data">>, empty |-> FALSE, extra |-> FALSE, chunkcuts |-> {}, rootcuts |-> {}, order |-> <<s_, st_>>, subvol |-> <<>>,
   supers |-> Good, file |-> a]
BtrfsParams ==
  Map(Cross(Cross(<<{}, {1}, {2}, {3}, {4}, {5}, {6}, {7}, {8}, {9}, {2, 4}, {3, 5, 8}, {1, 4, 7, 9}>>, <<TRUE, FALSE>>),
            <<a, b>>),
      LAMBDA x : [BtrfsBase EXCEPT !.fscuts = x[1][1], !.deep = x[1][2] /\ x[1][1] # {}, !.file = x[2],
                                   !.data = Cardinality(x[1][1])])
  \o Map(Cross(<<Hashes(3, 9, 5, 1), Hashes(1, 2, 3, 9), Hashes(5, 9, 3, 9), Hashes(5, 9, 0, 1), Hashes(4, 3, 2, 0)>>, <<{}, {2}>>),
         LAMBDA x : [BtrfsBase EXCEPT !.hash = x[1], !.fscuts = x[2]])
  \o Map(Cross(Cross(<<{}, {1}, {2}, {3}>>, <<TRUE, FALSE>>), <<TRUE, FALSE>>),
         LAMBDA x : [BtrfsBase EXCEPT !.chunkcuts = x[1][1], !.zero = x[1][2], !.extra = x[2]])
  \o Map(Cross(Cross(<<{}, {1}, {2}, {3}, {4}, {2, 4}, {3, 5}>>, << <<s_, st_>>, <<st_, s_>> >>), <<s_, st_>>),
         LAMBDA x : [BtrfsBase EXCEPT !.rootcuts = x[1][1], !.order = x[1][2], !.subvol = x[2]])
  \o Map(<< [Good EXCEPT ![1] = SuperBlock(TRUE, 1, 4, 3)], [Good EXCEPT ![3] = SuperBlock(TRUE, 2, 9, 3)],
            [Good EXCEPT ![1] = SuperBlock(FALSE, 1, 5, 3)],
            <<SuperBlock(TRUE, 1, 5, 1), SuperBlock(TRUE, 1, 9, 1), SuperBlock(TRUE, 1, 9, 1)>>,
            <<SuperBlock(TRUE, 1, 5, 3), SuperBlock(FALSE, 1, 9, 3), SuperBlock(TRUE, 1, 7, 3)>> >>,
         LAMBDA x : [BtrfsBase EXCEPT !.supers = x])
  \o Map(Cross(Cross(<< <<"hole", "data">>, <<"data", "hole">>, <<"gap", "data">>, <<"data", "gap">> >>,
                     <<TRUE, FALSE>>), <<{}, {4}, {7}>>),
         LAMBDA x : [BtrfsBase EXCEPT !.parts = x[1][1], !.empty = x[1][2], !.fscuts = x[2]])
BtrfsVolumes == Map(BtrfsParams, BtrfsVolume)

\* The blocks of the tree of files, which has at most three levels, and the keys
\* below each.
TreeBlocksOf(v, m) ==
  LET ptrs(nd) == IF nd.level = 0 THEN {} ELSE {nd.items[i].blockptr : i \in DOMAIN nd.items}
      below(S) == S \cup UNION {ptrs(NodeAt(v, m.map, lo)) : lo \in S}
  IN below(below({m.fs_tree}))
KeysBelow(v, m, T) ==
  LET keys[lo \in T] ==
        LET nd == NodeAt(v, m.map, lo)
        IN IF nd.level = 0 THEN {nd.items[i].key : i \in DOMAIN nd.items}
           ELSE UNION {keys[nd.items[i].blockptr] : i \in DOMAIN nd.items}
  IN keys

\* These are trees that the search theorems speak of.
ASSUME BtrfsTreesAssumption ==
  \A i \in DOMAIN BtrfsVolumes :
     LET v == BtrfsVolumes[i].img
         m == btrfs_fs_init(v, 0)
         T == TreeBlocksOf(v, m)
     IN BtrfsParams[i].supers[1].valid =>
          /\ SearchTree(v, m.map, T, KeysBelow(v, m, T))
          /\ <<BTRFS_FIRST_CHUNK_TREE_OBJECTID, BTRFS_INODE_ITEM_KEY, 0>>
                \in KeysBelow(v, m, T)[m.fs_tree]

-----------------------------------------------------------------------------
(* NTFS: a master file table, index blocks in runs of clusters, one file. *)

A == <<65>>
Hidden == <<36, 77>>

\* Data runs as they are stored: signed, the lowest byte first.
Width(n) == IF n \in -128 .. 127 THEN 1 ELSE 2
Bytes(n) == [i \in 1 .. Width(n) |-> (n \div 256 ^ (i - 1)) % 256]
EncodeRun(len, delta) == <<Width(len) + 16 * Width(delta)>> \o Bytes(len) \o Bytes(delta)
SparseRun(len) == <<Width(len)>> \o Bytes(len)
\* A run without an lcn is a hole.
EncodeRuns(runs) ==
  LET mapped(i) == {j \in 1 .. i - 1 : runs[j].lcn # 0}
      from(i) == IF mapped(i) = {} THEN 0 ELSE runs[Max(mapped(i))].lcn
  IN FlattenSeq([i \in DOMAIN runs |-> IF runs[i].lcn = 0 THEN SparseRun(runs[i].len)
                                       ELSE EncodeRun(runs[i].len, runs[i].lcn - from(i))])
     \o <<0>>

Key(name, ref, tail, posix) ==
  [name |-> name, ref |-> ref, posix |-> posix, tail |-> tail, end |-> FALSE]
KeyA == Key(a, 8, 0, FALSE)
KeyB == Key(b, 9, 1, FALSE)
KeyC == Key(c, 10, 2, FALSE)
KeyM == Key(Hidden, 0, 0, FALSE)
WithEnd(keys, node) ==
  Append(keys, [end |-> TRUE, node |-> node])

\* A directory: the keys of its root, those of its blocks, how many blocks each
\* run has.
Layouts ==
  << [root |-> <<KeyM, KeyA, KeyB, KeyC>>, blocks |-> <<>>, runs |-> <<>>],
     [root |-> <<KeyB>>, blocks |-> << <<KeyM, KeyA>>, <<KeyC>> >>, runs |-> <<2>>],
     [root |-> <<>>, blocks |-> << <<KeyM, KeyA, KeyB>>, <<KeyC>> >>, runs |-> <<1, 1>>],
     [root |-> <<>>, blocks |-> << <<KeyA>>, <<>>, <<KeyB, KeyC>> >>, runs |-> <<2, 1>>],
     [root |-> <<Key(a, 8, 2, TRUE)>>, blocks |-> << <<KeyB>>, <<KeyC>> >>, runs |-> <<1, 1>>] >>

Attr(type, value) == [f \in DOMAIN value \cup {"type"} |-> IF f = "type" THEN type ELSE value[f]]
Resident(size, value) == [nonres |-> FALSE, size |-> size, value |-> value]
FileRecord(no, isdir, attrs) ==
  [magic |-> "FILE", no |-> no, dir |-> isdir, attrs |-> attrs, whole |-> 2]

\* p: c, base (the sector of the MFT), idx (clusters in an index block as the
\* boot sector says), mft (clusters in a record), minor, layout, file (its runs;
\* <<>>: a file of size sectors in its record), size, list, int3, topic (what
\* is asked of the volume).
NtfsVolume(p) ==
  LET b4 == 4                                  \* sectors of an index block
      count == Len(p.layout.blocks)
      cuts == [k \in DOMAIN p.layout.runs |-> FoldFunction(+, 0, SubSeq(p.layout.runs, 1, k - 1))]
      \* The second run lies before the first one.
      place(k) == IF k = 1 THEN 80 ELSE 60
      runs == [k \in DOMAIN cuts |-> [lcn |-> place(k) \div p.c, len |-> p.layout.runs[k] * (b4 \div p.c)]]
      at(i) == LET k == Max({j \in DOMAIN cuts : cuts[j] < i})
               IN place(k) + (i - 1 - cuts[k]) * b4
      indx == [s \in {at(i) : i \in 1 .. count} |->
                 [magic |-> "INDX", whole |-> b4,
                  entries |-> WithEnd(p.layout.blocks[CHOOSE i \in 1 .. count : at(i) = s], FALSE)]]
      no(n) == IF p.minor = 1 THEN n ELSE 0
      data == Attr("DATA", IF p.file = <<>> THEN Resident(p.size, 700)
                           ELSE [nonres |-> TRUE, size |-> 1, stream |-> EncodeRuns(p.file)])
      ia == Attr("INDEX_ALLOCATION", [nonres |-> TRUE, stream |-> EncodeRuns(runs)])
      list == <<[type |-> "STANDARD", ref |-> 8], [type |-> "DATA", ref |-> 11]>>
      lists == [s \in {96} |-> [magic |-> "LIST", list |-> list]]
      main ==
        CASE p.list = "none" -> data
          [] p.list = "resident" -> Attr("ATTR_LIST", [nonres |-> FALSE, list |-> list])
          [] p.list = "runs" -> Attr("ATTR_LIST", [nonres |-> TRUE,
               stream |-> EncodeRuns(<<[lcn |-> 96 \div p.c, len |-> b4 \div p.c]>>)])
      attrs(n) ==
        CASE n = 3 -> <<Attr("VOL_INFO", [major |-> 3, minor |-> p.minor])>>
          [] n = 5 -> <<Attr("INDEX_ROOT", [entries |-> WithEnd(p.layout.root, count > 0)])>>
                      \o (IF count > 0 THEN <<ia>> ELSE <<>>)
          [] n = 8 -> <<main>>
          [] n = 9 -> <<Attr("DATA", Resident(1, 800))>>
          [] n = 10 -> <<Attr("INDEX_ROOT", [entries |-> WithEnd(<<>>, FALSE)])>>
          [] n = 11 -> <<data>>
          [] OTHER -> <<>>
      mft == [s \in {p.base + 2 * n : n \in 0 .. 11} |->
                LET n == (s - p.base) \div 2 IN FileRecord(no(n), n \in {5, 10}, attrs(n))]
      keys == p.layout.root \o FlattenSeq(p.layout.blocks)
      small_(n) == [i \in DOMAIN n |-> tolower(n[i])]
      hit(k, n) == k.name = n \/ (~k.posix /\ small_(k.name) = small_(n))
      find(n) == {i \in DOMAIN keys : hit(keys[i], n)}
      shown == SelectSeq(keys, LAMBDA k : k.name[1] \notin {DOT, DOLLAR})
      start(i) == FoldFunction(+, 0, [j \in 1 .. i - 1 |-> p.file[j].len]) * p.c
  IN [kind |-> "ntfs", p |-> p,
      img |-> [bpb |-> [zero_fields |-> TRUE, oem_name |-> TRUE, sec_per_clust |-> p.c,
                        clust_per_mft_record |-> p.mft, clust_per_idx_record |-> p.idx,
                        sector_shift |-> 9, mft_lclust |-> p.base \div p.c],
               blocks |-> 40, disk |-> mft @@ indx @@ lists, int3 |-> p.int3],
      names |-> IF p.topic = "dir" THEN {a, b, c, z, A} ELSE {a},
      listing |-> Map(shown, LAMBDA k : [name |-> k.name, ino |-> k.ref]),
      expect |-> [n \in {a, b, c, z, A} |-> IF find(n) = {} THEN -1 ELSE keys[Min(find(n))].ref],
      file |-> IF p.topic = "dir" THEN <<>> ELSE a,
      runs |-> [i \in DOMAIN p.file |->
                  [l |-> start(i), n |-> p.file[i].len * p.c,
                   p |-> IF p.file[i].lcn = 0 THEN -1 ELSE p.file[i].lcn * p.c]],
      small |-> IF p.file = <<>> THEN [from |-> 700, n |-> p.size] ELSE Nothing]

Run(lcn, len) == [lcn |-> lcn, len |-> len]
NtfsBase ==
  [c |-> 2, base |-> 16, idx |-> 2, mft |-> -10, minor |-> 1, layout |-> Layouts[2],
   file |-> <<Run(300, 3), Run(200, 2)>>, size |-> 1, list |-> "none", int3 |-> TRUE,
   topic |-> "file"]
NtfsParams ==
  Map(Cross(Cross(Layouts, << <<1, 4>>, <<2, 2>>, <<4, 1>> >>), Cross(<<0, 1>>, <<TRUE, FALSE>>)),
      LAMBDA x : [NtfsBase EXCEPT !.layout = x[1][1], !.c = x[1][2][1], !.idx = x[1][2][2],
                                  !.minor = x[2][1], !.int3 = x[2][2], !.topic = "dir"])
  \o Map(Cross(<< <<Run(300, 3), Run(200, 2), Run(500, 1)>>, <<Run(300, 129), Run(600, 2)>>,
                  <<Run(90, 128), Run(600, 384), Run(40, 1)>>,
                  <<Run(300, 2), Run(0, 2), Run(310, 2)>>, <<Run(0, 2), Run(310, 2)>>, <<>> >>,
               Cross(<<"none", "resident", "runs">>, <<1, 2>>)),
         LAMBDA x : [NtfsBase EXCEPT !.file = x[1], !.list = x[2][1], !.size = x[2][2]])
  \o << [NtfsBase EXCEPT !.base = 18], [NtfsBase EXCEPT !.base = 18, !.minor = 0],
        [NtfsBase EXCEPT !.idx = 244], [NtfsBase EXCEPT !.mft = 1] >>
NtfsVolumes == Map(NtfsParams, NtfsVolume)

MCVolumes == Ext2Volumes \o FatVolumes \o BtrfsVolumes \o NtfsVolumes

-----------------------------------------------------------------------------
(* What must hold. *)

\* btrfs: the name of a subvolume with a lower number is a prefix of the wanted
\* one, or the names of the subvolumes begin a leaf.
WrongTree ==
  /\ vol.p.subvol # <<>>
  /\ \/ vol.p.subvol = vol.p.order[2] /\ IsPrefix(vol.p.order[1], vol.p.order[2])
     \/ 2 \in vol.p.rootcuts
\* btrfs
NewestSuper ==
  LET sup == vol.p.supers
  IN Max({sup[i].generation : i \in {i \in 1 .. 3 :
            /\ sup[i].valid /\ sup[i].fsid = sup[1].fsid
            /\ i <= sup[1].mirrors}})
\* NTFS: a block of 2^7 clusters is taken for one of 2^12 bytes, or the MFT
\* does not start at a block.
Misplaced == vol.p.idx > 127 \/ vol.p.base % 4 # 0

\* btrfs.c:155-202, 333-390, 587-637; ntfs.c:1239-1373.  A volume is mounted
\* from what is valid on it: for btrfs the newest copy of the super block, a
\* chunk map that sends every logical address to where its chunk lies, in
\* whatever order and leaves the chunks are read, and the tree of the wanted
\* subvolume; for NTFS the sizes of the boot sector, the root directory and
\* the way records are looked up that the version of the volume calls for.  Nothing
\* is said of a btrfs volume whose first super block is bad, where the driver goes
\* by an fsid that has not been assigned, nor of the cases named above.
MountRight ==
  mnt # [ok |-> FALSE] =>
    /\ vol.kind = "btrfs" /\ vol.p.supers[1].valid =>
         /\ mnt.ok
         /\ mnt.sb.generation = NewestSuper
         /\ vol.p.zero /\ ~vol.p.extra => \A i \in DOMAIN vol.chunks :
              logical_physical(mnt.map, vol.chunks[i].key[3]) = vol.chunks[i].stripe
         /\ WrongTree \/ mnt.fs_tree = vol.want
         /\ mnt.map \in Seq(btrfs_chunk_map_item)
    /\ vol.kind = "ntfs" /\ ~Misplaced =>
         /\ Mounted /\ mnt.root = FILE_root
         /\ mnt.c = vol.p.c /\ mnt.r = 2 /\ mnt.b = 4
         /\ mnt.lookup = IF vol.p.minor = 1 THEN "3_1" ELSE "3_0"

\* What a caller sees of a listing: on ext2 deleted entries come with inode 0.
Seen == SelectSeq(got, LAMBDA e : vol.kind = "ext2" => e.ino # 0)

SameHash(name) == \E n \in {a, b, c} \ {name} : vol.p.hash[n] = vol.p.hash[name]

\* btrfs: an empty file, and one that begins with a hole for which there is no item.
NoFirstItem(name) ==
  \/ name = a /\ vol.p.parts[1] = "gap"
  \/ name = b /\ vol.p.empty

\* Names that are looked up wrong: ext2 inodes behind a descriptor of 64 bytes
\* that is not the first of its block; FAT files after a leftover long name;
\* names of a btrfs directory with the same hash, files without a first item.
Excused(name) ==
  CASE vol.kind = "ext2" ->
         /\ vol.img.sb.s_desc_size > DESC_BYTES
         /\ ((vol.expect[name] - 1) \div vol.img.sb.s_inodes_per_group) % s_desc_per_block(vol.img) # 0
    [] vol.kind = "vfat" ->
         \E i \in 1 .. Len(vol.items) - 1 :
            /\ vol.items[i].kind \in {"orphan", "broken"}
            /\ vol.items[i + 1].kind = "file" /\ vol.items[i + 1].ino = vol.expect[name]
    [] vol.kind = "btrfs" -> WrongTree \/ SameHash(name) \/ NoFirstItem(name)
    [] vol.kind = "ntfs" -> Misplaced

\* ext2.c:91-192, fat.c:436-563, btrfs.c:397-468, ntfs.c:734-903.  But for the
\* cases of Excused, a name is found if and only if it is in the directory, and
\* with its own inode, however the entries are spread over blocks, sectors, leaves
\* and runs and whatever deleted or leftover entries lie between them.  A lookup
\* does not depend on the calls made before it.
LookupRight == ans # NoAnswer => Excused(ans.name) \/ ans.ino = vol.expect[ans.name]

\* FAT directories that are listed wrong: one without a free entry at its end,
\* one where the longest possible name follows a name that was cut short, and
\* one with two leftover names in a row, the second of them cut short.
ListedWrong ==
  \/ /\ vol.kind = "vfat"
     /\ \/ vol.full
        \/ \E i \in 1 .. Len(vol.items) - 1 :
             \/ vol.items[i].kind = "orphan" /\ vol.items[i + 1].kind = "broken"
             \/ /\ vol.items[i].kind = "broken" /\ vol.items[i + 1].kind = "file"
                /\ Chunks(vol.items[i + 1].long) = FAT_SLOTS
  \/ vol.kind = "btrfs" /\ (WrongTree \/ \E n \in {a, b, c} : vol.p.hash[n] = 0)
  \/ vol.kind = "ntfs" /\ (~clean \/ dir.moved \/ (~vol.p.int3 /\ vol.p.layout.blocks # <<>>))

\* ext2.c:242-267, fat.c:587-718, btrfs.c:477-513, ntfs.c:1029-1232.  But for the
\* cases of ListedWrong, a directory that is read to its end has returned every
\* entry once and in order, with its own name and inode, and no entry that is not
\* there, whatever was looked up or read between two calls.  For NTFS that is only
\* said of a listing between whose calls no directory is looked up, and during
\* which the heap does not change while file->offset is the address of an entry of
\* the root; it may change before the first call and once the root is done.
ListingRight ==
  /\ rs \in ntfs_readdir_state
  /\ dir.open /\ ~ListedWrong => IF dir.end THEN Seen = vol.listing ELSE IsPrefix(Seen, vol.listing)

HoleAt(l) == \E i \in DOMAIN vol.runs : vol.runs[i].l = l /\ vol.runs[i].p = -1

\* btrfs: the driver knows no chunk of a volume without one at address 0.
ChunksLost == vol.kind = "btrfs" /\ (~vol.p.zero \/ vol.p.extra)

\* NTFS: a hole in the file, or a length with an odd byte above 128.
RunsMisread ==
  /\ vol.kind = "ntfs"
  /\ \E i \in DOMAIN vol.p.file :
       \/ vol.p.file[i].lcn = 0
       \/ \E k \in 1 .. Width(vol.p.file[i].len) : Bytes(vol.p.file[i].len)[k] \in {n \in 129 .. 255 : n % 2 = 1}

\* bmap.c:15-228, btrfs.c:515-562, ntfs.c:344-416, 924-970.  Every extent lies
\* where the file's data lie: no sector of it belongs to another part of the
\* file, and there is progress, but for holes in ext2 files with extents.  ext2
\* reports holes as holes.  btrfs does not: a hole with an item is mapped to what
\* lies at address 0, and one without an item is an error; nothing is said of these
\* sectors.  No other call fails.
FileSectorsTrue ==
  ~ChunksLost /\ ~RunsMisread =>
    /\ last.kind = "error" => vol.kind = "btrfs" /\ HoleAt(fil.pos)
    /\ last.kind = "extent" =>
         /\ last.n > 0 \/ (vol.kind = "ext2" /\ fil.inode.extents /\ HoleAt(last.l))
         /\ \A i \in DOMAIN vol.runs :
              LET r == vol.runs[i]
              IN r.l < last.l + last.n /\ last.l < r.l + r.n
                 => IF r.p = -1 THEN last.p = -1 \/ vol.kind = "btrfs"
                    ELSE last.p # -1 /\ last.p - last.l = r.p - r.l

\* btrfs.c:564-585, ntfs.c:972-1022.  A file that is kept within its metadata is
\* read from there, each unit once and in order, and completely when the end is
\* reached.  For NTFS only when every read asks for the whole file: the code
\* copies all of it at each call.
SmallFileTrue ==
  last.kind = "read" /\ (vol.kind = "ntfs" => last.least >= vol.small.n) =>
    /\ last.from = vol.small.from + last.total - last.n
    /\ fil.pos >= fil.inode.size => last.total = vol.small.n

=============================================================================
