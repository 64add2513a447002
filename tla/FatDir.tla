------------------------------- MODULE FatDir -------------------------------
(***************************************************************************)
(* Directories of the FAT driver: syslinux/libcore/fs/fat/fat.c and        *)
(* fat_fs.h.  Operators on a volume v; the calls are made by Drivers.      *)
(* (The extents of FAT files are in FileRead.)                             *)
(*                                                                         *)
(* A volume is a record:                                                   *)
(*   root, data, csecs, clusters, root_size  fields of struct fat_sb_info  *)
(*   fat     the cluster that follows each cluster                         *)
(*   sec     the directory entries in a sector (sector 0 included)         *)
(* An entry has first (its first byte: 0 ends the directory, E5 is deleted,*)
(* for a long name it is the id) and attr: "long" with chunk and checksum; *)
(* "label"; "file" or "dir" with name, cluster and size.  Characters are   *)
(* numbers.  Names have FAT_BASE and FAT_EXT characters (8 and 3) and a    *)
(* long name entry has FAT_CHUNK (13).                                     *)
(***************************************************************************)
EXTENDS Integers, Sequences, FiniteSetsExt

CONSTANTS
  FAT_BASE, FAT_EXT, FAT_CHUNK,
  FAT_SLOTS,         \* entries of the longest name (20)
  FAT_SECTOR,        \* entries in a sector
  FAT_MAX_STEPS      \* bound: entries or sectors looked at in a row

FAT_NULL == [ino |-> -1]
SPACE == 32
PERIOD == 46
DELETED == 229         \* E5
LAST_LONG == 64        \* 0x40, in the id of the first entry of a long name
FFFF == 65535
UNKNOWN == 1000        \* a character that the codepage does not have

\* fat_fs.h: struct fat_sb_info and the entries, as far as they are looked at.
fat_sb_info == [root : Nat, data : Nat, csecs : Nat \ {0}, clusters : Nat, root_size : Nat]
fat_long_name_entry ==
  [first : Nat, attr : {"long"}, checksum : 0 .. 255, chunk : Seq(Nat)]
fat_dir_entry ==
  [first : Nat, attr : {"file", "dir"}, name : Seq(Nat), cluster : Nat, size : Nat,
   lcase_base : BOOLEAN, lcase_ext : BOOLEAN]
  \cup [first : Nat, attr : {"label"}, name : Seq(Nat)]
  \cup [first : {0}, attr : {"file"}]

FatImage(img) ==
  /\ [f \in {"root", "data", "csecs", "clusters", "root_size"} |-> img[f]] \in fat_sb_info
  /\ \A s \in DOMAIN img.sec : \A k \in 1 .. FAT_SECTOR :
       img.sec[s][k] \in fat_dir_entry \cup fat_long_name_entry

upper(ch) == IF ch \in 97 .. 122 THEN ch - 32 ELSE ch
lower(ch) == IF ch \in 65 .. 90 THEN ch + 32 ELSE ch

-----------------------------------------------------------------------------
(* Sectors. *)

\* 0: the end.  A sector before the data area is in the root directory.
get_next_sector(v, sector) ==
  LET d == sector - v.data
      cluster == v.fat[d \div v.csecs + 2] - 2
  IN IF sector < v.data THEN (IF sector + 1 >= v.data THEN 0 ELSE sector + 1)
     ELSE IF (d + 1) % v.csecs # 0 THEN sector + 1
     ELSE IF cluster \notin 0 .. v.clusters - 1 THEN 0
     ELSE cluster * v.csecs + v.data

\* f is an open directory: its offset (in entries) and the sector remembered:
\* pos is its number in the directory, here its address, start the first one.
get_the_right_sector(v, f) ==
  LET want == f.offset \div FAT_SECTOR
      back == want < f.pos
      from == IF back THEN 0 ELSE f.pos
      at[w \in from .. want] ==
        IF w = from THEN (IF back THEN f.start ELSE f.here)
        ELSE get_next_sector(v, at[w - 1])
  IN [f EXCEPT !.pos = want, !.here = at[want]]

next_sector(v, f) == [f EXCEPT !.pos = @ + 1, !.here = get_next_sector(v, f.here)]

first_sector(v, cluster) == IF cluster = 0 THEN v.root ELSE (cluster - 2) * v.csecs + v.data

-----------------------------------------------------------------------------
(* Names. *)

Blanks(n) == [i \in 1 .. n |-> SPACE]

\* The name up to the first blank or slash; a dot moves to the extension, as
\* often as it comes.
mangle_dos_name(src) ==
  LET n == FAT_BASE + FAT_EXT
      pad(s) == SubSeq(s \o Blanks(n), 1, n)
      put(s, ch) == Append(s, IF s = <<>> /\ upper(ch) = DELETED THEN 5 ELSE upper(ch))
      at[i \in 0 .. Len(src)] ==
        LET was == at[i - 1]
        IN IF i = 0 THEN <<>>
           ELSE IF Len(was) >= n THEN was
           ELSE IF src[i] = PERIOD
           THEN (IF Len(was) < FAT_BASE THEN SubSeq(was \o Blanks(n), 1, FAT_BASE)
                 ELSE SubSeq(was, 1, FAT_BASE))
           ELSE put(was, src[i])
  IN IF src \in {<<PERIOD>>, <<PERIOD, PERIOD>>} THEN pad(src) ELSE pad(at[Len(src)])

\* match is a whole number of entries long, ended by 0 and padded with FFFF.
vfat_match_longname(str, match) ==
  LET end == Min({i \in 1 .. Len(match) : match[i] = 0} \cup {Len(match) + 1})
  IN /\ Len(str) = end - 1
     /\ \A i \in 1 .. end - 1 : upper(str[i]) = upper(match[i]) /\ match[i] # UNKNOWN
     /\ \A i \in end + 1 .. Len(match) : match[i] = FFFF

\* <<>> where the code returns -1 or 0: the name cannot be shown.
vfat_cvt_longname(long_name) ==
  LET end == Min({i \in 1 .. Len(long_name) : long_name[i] = 0} \cup {Len(long_name) + 1})
      name == SubSeq(long_name, 1, end - 1)
  IN IF \E i \in 1 .. end - 1 : name[i] \in {UNKNOWN, FFFF} THEN <<>> ELSE name

\* buf grows from its end: entries come with the highest id first.
copy_long_chunk(buf, id, de) ==
  SubSeq(buf, 1, id * FAT_CHUNK) \o de.chunk \o SubSeq(buf, (id + 1) * FAT_CHUNK + 1, Len(buf))

\* Mutant: the bit that is rotated out is lost.
get_checksumShift(name) ==
  LET sum[i \in 0 .. Len(name)] ==
        IF i = 0 THEN 0 ELSE (sum[i - 1] \div 2 + name[i]) % 256
  IN sum[Len(name)]

\* A rotation to the right and an addition for every character, in 8 bits.
get_checksum(name) ==
  LET sum[i \in 0 .. Len(name)] ==
        IF i = 0 THEN 0
        ELSE LET s == sum[i - 1] IN ((s % 2) * 128 + s \div 2 + name[i]) % 256
  IN sum[Len(name)]

Zeros(n) == [i \in 1 .. n |-> 0]
LongSize == FAT_SLOTS * FAT_CHUNK

-----------------------------------------------------------------------------
(* Looking a name up. *)

FatInode(v, de) ==
  LET start == IF de.cluster = 0 THEN v.root ELSE first_sector(v, de.cluster)
  IN [ino |-> de.cluster, start |-> start, here |-> start, mode |-> de.attr,
      size |-> IF de.cluster = 0 THEN v.root_size ELSE de.size]

\* What is known of the long name that is being read, after each entry.
vfat_find_entry(v, dname, dir) ==
  LET slots == (Len(dname) + FAT_CHUNK - 1) \div FAT_CHUNK
      init == slots + LAST_LONG
      mangled == mangle_dos_name(dname)
      Start == [go |-> TRUE, found |-> FAT_NULL, sector |-> dir, k |-> 1, next |-> init,
                csum |-> 0, long |-> Zeros(LongSize), len |-> slots * FAT_CHUNK, match |-> FALSE]
      Long(st, de) ==         \* a long name entry: the new state, or no match
        LET first == de.first >= LAST_LONG
            id == (de.first % LAST_LONG) - 1
            buf == copy_long_chunk(IF first THEN Zeros(LongSize) ELSE st.long, id, de)
            len == IF first THEN (id + 1) * FAT_CHUNK ELSE st.len
            ok == /\ de.first = st.next
                  /\ first \/ de.checksum = st.csum
                  /\ id = 0 => vfat_match_longname(dname, SubSeq(buf, 1, len))
        IN IF ok
           THEN [st EXCEPT !.csum = IF first THEN de.checksum ELSE @, !.next = id,
                           !.long = buf, !.len = len, !.match = @ \/ id = 0]
           ELSE [st EXCEPT !.next = init, !.match = FALSE]
      at[n \in 0 .. FAT_MAX_STEPS] ==
        IF n = 0 THEN Start
        ELSE LET st == at[n - 1]
                 de == v.sec[st.sector][st.k]
                 hit == /\ de.attr # "label"
                        /\ IF st.match THEN get_checksum(de.name) = st.csum
                           ELSE mangled = de.name
             IN IF ~st.go \/ st.sector = 0 THEN st
                ELSE IF st.k > FAT_SECTOR
                THEN [st EXCEPT !.k = 1, !.sector = get_next_sector(v, @)]
                ELSE IF de.first = 0 THEN [st EXCEPT !.go = FALSE]
                ELSE IF de.attr = "long" THEN [Long(st, de) EXCEPT !.k = @ + 1]
                ELSE IF hit THEN [st EXCEPT !.go = FALSE, !.found = FatInode(v, de)]
                ELSE [st EXCEPT !.next = init, !.match = FALSE, !.k = @ + 1]
  IN IF slots > FAT_SLOTS THEN FAT_NULL ELSE at[FAT_MAX_STEPS].found

vfat_iget_root(v) ==
  [ino |-> 0, start |-> v.root, here |-> v.root, mode |-> "dir", size |-> v.root_size]

vfat_iget(v, dname, parent) == vfat_find_entry(v, dname, parent)

-----------------------------------------------------------------------------
(* Listing. *)

\* A short name as it is shown: base, dot and extension without their blanks.
ShortName(de) ==
  LET part(from, to, low) ==
        LET end == Min({i \in from .. to : de.name[i] = SPACE} \cup {to + 1})
        IN [i \in 1 .. end - from |->
              IF low THEN lower(de.name[from + i - 1]) ELSE de.name[from + i - 1]]
      ext == part(FAT_BASE + 1, FAT_BASE + FAT_EXT, de.lcase_ext)
  IN part(1, FAT_BASE, de.lcase_base) \o (IF ext = <<>> THEN <<>> ELSE <<PERIOD>> \o ext)

\* The next entry from the offset on.  What was read of a long name is kept
\* in local variables: a long name always precedes its entry in one call.
vfat_readdir(v, f0) ==
  LET Start == [go |-> TRUE, end |-> TRUE, f |-> get_the_right_sector(v, f0),
                k |-> (f0.offset % FAT_SECTOR) + 1, ino |-> 0, next |-> 255, csum |-> 255,
                long |-> Zeros(LongSize), name |-> <<>>, long_entry |-> FALSE]
      Skip(st) == [st EXCEPT !.f.offset = @ + 1, !.k = @ + 1]
      Invalid(st) == Skip([st EXCEPT !.long_entry = FALSE])
      Long(st, de) ==
        LET first == de.first >= LAST_LONG
            id == (de.first % LAST_LONG) - 1
            buf == copy_long_chunk(IF first THEN Zeros(LongSize) ELSE st.long, id, de)
            name == IF id = 0 THEN vfat_cvt_longname(buf) ELSE st.name
        IN IF first /\ id + 1 >= FAT_SLOTS
           THEN Invalid([st EXCEPT !.csum = de.checksum])
           ELSE IF ~first /\ (de.checksum # st.csum \/ de.first # st.next) THEN Invalid(st)
           ELSE Skip([st EXCEPT !.csum = IF first THEN de.checksum ELSE @, !.next = id,
                                !.long = buf, !.name = name,
                                !.long_entry = @ \/ (id = 0 /\ name # <<>>)])
      at[n \in 0 .. FAT_MAX_STEPS] ==
        IF n = 0 THEN Start
        ELSE LET st == at[n - 1]
                 de == v.sec[st.f.here][st.k]
                 nf == next_sector(v, st.f)
             IN IF ~st.go THEN st
                ELSE IF st.k > FAT_SECTOR
                THEN [st EXCEPT !.f = nf, !.k = 1, !.go = nf.here # 0]
                ELSE IF de.first = 0 THEN [st EXCEPT !.go = FALSE]
                ELSE IF de.first = DELETED THEN Invalid(st)
                ELSE IF de.attr = "long" THEN Long(st, de)
                ELSE IF de.attr = "label" THEN Invalid(st)
                ELSE [st EXCEPT !.go = FALSE, !.end = FALSE, !.f.offset = @ + 1,
                        !.name = IF st.long_entry /\ get_checksum(de.name) = st.csum
                                 THEN st.name ELSE ShortName(de),
                        !.ino = de.cluster]
      st == at[FAT_MAX_STEPS]
  IN [end |-> st.end, name |-> st.name, d_ino |-> st.ino, f |-> st.f]
=============================================================================
