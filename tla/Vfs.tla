-------------------------------- MODULE Vfs --------------------------------
(***************************************************************************)
(* Open files, inodes and path lookup: syslinux/libcore/fs/fs.c, chdir.c,  *)
(* readdir.c and lib/close.c.                                              *)
(*                                                                         *)
(* Inodes are reference counted.  An inode is held by the file structures  *)
(* that point to it, by fs->cwd and fs->root, by every inode whose parent  *)
(* it is, and by the local variables of a running searchdir.  Nothing but  *)
(* the counters says when an inode may be freed.                           *)
(*                                                                         *)
(* A path is a sequence of components; "/" stands for a leading slash.     *)
(* The directory tree is a constant.  put_inode walks up the parents, one  *)
(* step per inode; cont says where the caller goes on.  The code is        *)
(* sequential: a new call starts when the last one has returned.           *)
(***************************************************************************)
EXTENDS Integers, Sequences, FiniteSets

CONSTANTS
  Node,             \* the files, directories and symbolic links on the disk
  RootNode,         \* the root directory
  Entries,          \* Entries[d]: function from names to nodes, for a directory d
  Mode,             \* Mode[x] \in {"REG", "DIR", "LNK"}
  Target,           \* Target[x]: the path a symbolic link holds
  Paths,            \* the paths that callers pass
  Name,             \* names, and "/", "." and ".."
  MAX_OPEN,         \* size of the file table
  MAX_SYMLINK_CNT,
  NInode,           \* bound: inodes the heap has room for
  Resolve(_, _, _)  \* the reference: the node that a path means, see ResolveLaws

Inode == 1 .. NInode
Slot == 1 .. MAX_OPEN
NULL == 0
Ops == {"none", "open_file", "pm_open_file", "opendir", "chdir", "realpath"}

ASSUME VfsAssumption ==
  /\ RootNode \in Node /\ Mode \in [Node -> {"REG", "DIR", "LNK"}]
  /\ Mode[RootNode] = "DIR"
  /\ \A d \in Node : \A nm \in DOMAIN Entries[d] : Entries[d][nm] \in Node
  /\ MAX_OPEN \in Nat /\ MAX_SYMLINK_CNT \in Nat \ {0} /\ NInode \in Nat \ {0}

ASSUME PathAssumption ==
  /\ Paths \subseteq Seq(Name)
  /\ \A x \in Node : Mode[x] = "LNK" => Target[x] \in Seq(Name)

VARIABLES
  refcnt, parent, node,    \* the inodes; refcnt 0: not allocated
  root, cwd,               \* this_fs->root, this_fs->cwd
  files,                   \* files[s].used (file->fs set) and files[s].inode
  handles,                 \* the file handles that callers hold
  pc,                      \* where the running call is
  op, file, inode, path,   \* the running call: kind, file, inode, rest of the path
  links,                   \* symlink_count
  dying, cont              \* the cursor of put_inode and where it returns to

vars == <<refcnt, parent, node, root, cwd, files, handles, pc, op, file,
          inode, path, links, dying, cont>>

ModeOf(i) == Mode[node[i]]
Closed == [used |-> FALSE, inode |-> NULL]

\* fs_init: the root inode is held twice, by fs.root and by fs.cwd.
Init ==
  /\ refcnt = [i \in Inode |-> IF i = 1 THEN 2 ELSE 0]
  /\ parent = [i \in Inode |-> NULL]
  /\ node = [i \in Inode |-> RootNode]
  /\ root = 1 /\ cwd = 1
  /\ files = [s \in Slot |-> Closed] /\ handles = {}
  /\ pc = "idle" /\ op = "none" /\ file = NULL /\ inode = NULL /\ path = <<>>
  /\ links = MAX_SYMLINK_CNT /\ dying = NULL /\ cont = "idle"

(***************************************************************************)
(* put_inode                                                               *)
(***************************************************************************)
\* put_inode(i), and then the caller goes on at c.
Put(i, c) == pc' = "put" /\ dying' = i /\ cont' = c

\* The call returns; its local variables are gone.
Returned ==
  /\ pc' = "idle" /\ cont' = "idle"
  /\ op' = "none" /\ file' = NULL /\ path' = <<>> /\ links' = MAX_SYMLINK_CNT

\* Mutant: the inode is freed while there is a reference left.
PutInodeEarly ==
  /\ pc = "put" /\ dying # NULL
  /\ refcnt' = [refcnt EXCEPT ![dying] = @ - 1]
  /\ IF refcnt[dying] <= 2
     THEN /\ dying' = parent[dying]
          /\ parent' = [parent EXCEPT ![dying] = NULL]
          /\ node' = [node EXCEPT ![dying] = RootNode]
     ELSE dying' = NULL /\ UNCHANGED <<parent, node>>
  /\ UNCHANGED <<root, cwd, files, handles, pc, op, file, inode, path,
                 links, cont>>

\* One round of the loop: the last reference frees the inode and releases
\* its parent.
PutInode ==
  /\ pc = "put" /\ dying # NULL
  /\ refcnt' = [refcnt EXCEPT ![dying] = @ - 1]
  /\ IF refcnt[dying] = 1
     THEN /\ dying' = parent[dying]
          /\ parent' = [parent EXCEPT ![dying] = NULL]
          /\ node' = [node EXCEPT ![dying] = RootNode]
     ELSE dying' = NULL /\ UNCHANGED <<parent, node>>
  /\ UNCHANGED <<root, cwd, files, handles, pc, op, file, inode, path,
                 links, cont>>

PutDone ==
  /\ pc = "put" /\ dying = NULL
  /\ IF cont = "idle" THEN Returned
     ELSE /\ pc' = cont /\ cont' = "idle"
          /\ UNCHANGED <<op, file, path, links>>
  /\ UNCHANGED <<refcnt, parent, node, root, cwd, files, handles, inode, dying>>

(***************************************************************************)
(* searchdir                                                               *)
(***************************************************************************)
FreeSlots == {s \in Slot : ~ files[s].used}

\* alloc_file fails: the call returns -1 and changes nothing.
NoFile(o, p) == pc = "idle" /\ FreeSlots = {} /\ UNCHANGED vars

Search(o, p) ==
  /\ pc = "idle" /\ FreeSlots # {}
  /\ file' = CHOOSE s \in FreeSlots : \A t \in FreeSlots : s <= t
  /\ files' = [files EXCEPT ![file'].used = TRUE]
  /\ refcnt' = [refcnt EXCEPT ![cwd] = @ + 1]
  /\ inode' = cwd
  /\ op' = o /\ path' = p /\ links' = MAX_SYMLINK_CNT
  /\ pc' = "walk"
  /\ UNCHANGED <<parent, node, root, cwd, handles, dying, cont>>

\* searchdir cannot copy the path.
SearchNoMemory(o, p) ==
  /\ pc = "idle" /\ FreeSlots # {}
  /\ file' = CHOOSE s \in FreeSlots : \A t \in FreeSlots : s <= t
  /\ files' = [files EXCEPT ![file'].used = TRUE]
  /\ op' = o /\ path' = p /\ links' = MAX_SYMLINK_CNT
  /\ pc' = "fail"
  /\ UNCHANGED <<refcnt, parent, node, root, cwd, handles, inode, dying, cont>>

Component(c) == pc = "walk" /\ path # <<>> /\ Head(path) = c

\* Mutant: the chain walked so far is forgotten.
RootComponentLeaks ==
  /\ Component("/")
  /\ refcnt' = [refcnt EXCEPT ![root] = @ + 1]
  /\ inode' = root /\ path' = Tail(path)
  /\ UNCHANGED <<parent, node, root, cwd, files, handles, pc, op, file, links,
                 dying, cont>>

\* "/": the chain walked so far is released, the walk goes on at the root.
\* (this_fs->root holds the root, so that it cannot die in between.)
RootComponent ==
  /\ Component("/")
  /\ refcnt' = [refcnt EXCEPT ![root] = @ + 1]
  /\ Put(inode, "walk")
  /\ inode' = root /\ path' = Tail(path)
  /\ UNCHANGED <<parent, node, root, cwd, files, handles, op, file, links>>

DotComponent ==
  /\ Component(".")
  /\ path' = Tail(path)
  /\ UNCHANGED <<refcnt, parent, node, root, cwd, files, handles, pc, op, file,
                 inode, links, dying, cont>>

\* "..": a reference to the parent first, so that the child can be released.
ParentComponent ==
  /\ Component("..") /\ parent[inode] # NULL
  /\ refcnt' = [refcnt EXCEPT ![parent[inode]] = @ + 1]
  /\ Put(inode, "walk")
  /\ inode' = parent[inode] /\ path' = Tail(path)
  /\ UNCHANGED <<parent, node, root, cwd, files, handles, op, file, links>>

RootParentComponent ==
  /\ Component("..") /\ parent[inode] = NULL
  /\ path' = Tail(path)
  /\ UNCHANGED <<refcnt, parent, node, root, cwd, files, handles, pc, op, file,
                 inode, links, dying, cont>>

Named == pc = "walk" /\ path # <<>> /\ Head(path) \notin {"/", ".", ".."}
Exists == Head(path) \in DOMAIN Entries[node[inode]]
FreeInodes == {i \in Inode : refcnt[i] = 0}

\* Mutant: the root is recorded as the parent.
IgetParentIsRoot(i) ==
  /\ Named /\ Exists /\ i \in FreeInodes /\ \A j \in FreeInodes : i <= j
  /\ refcnt' = [[refcnt EXCEPT ![root] = @ + 1] EXCEPT ![i] = 1]
  /\ parent' = [parent EXCEPT ![i] = root]
  /\ node' = [node EXCEPT ![i] = Entries[node[inode]][Head(path)]]
  /\ Put(inode, "entry") /\ inode' = i
  /\ UNCHANGED <<root, cwd, files, handles, op, file, path, links>>

\* iget: a fresh inode with one reference.  Its parent is the inode of the
\* directory, whose reference it takes over.
Iget(i) ==
  /\ Named /\ Exists /\ i \in FreeInodes /\ \A j \in FreeInodes : i <= j
  /\ refcnt' = [refcnt EXCEPT ![i] = 1]
  /\ parent' = [parent EXCEPT ![i] = inode]
  /\ node' = [node EXCEPT ![i] = Entries[node[inode]][Head(path)]]
  /\ inode' = i
  /\ pc' = "entry"
  /\ UNCHANGED <<root, cwd, files, handles, op, file, path, links, dying, cont>>

\* iget returns NULL: no such name, or the directory cannot be read, or (ext2,
\* btrfs) there is no memory.  On FAT and NTFS, no memory is the end: "kaboom".
IgetFails ==
  /\ Named
  /\ Put(inode, "fail") /\ inode' = NULL
  /\ UNCHANGED <<refcnt, parent, node, root, cwd, files, handles, op, file,
                 path, links>>

\* Mutant: there is no limit on links.
FollowLinkUnlimited ==
  /\ pc = "entry" /\ ModeOf(inode) = "LNK"
  /\ links' = links - 1
  /\ path' = Target[node[inode]] \o Tail(path)
  /\ refcnt' = [refcnt EXCEPT ![parent[inode]] = @ + 1]
  /\ Put(inode, "walk") /\ inode' = parent[inode]
  /\ UNCHANGED <<parent, node, root, cwd, files, handles, op, file>>

\* Mutant: a relative link is taken from the root.
FollowLinkAtRoot ==
  /\ pc = "entry" /\ ModeOf(inode) = "LNK" /\ links > 1
  /\ links' = links - 1
  /\ path' = Target[node[inode]] \o Tail(path)
  /\ refcnt' = [refcnt EXCEPT ![root] = @ + 1]
  /\ Put(inode, "walk") /\ inode' = root
  /\ UNCHANGED <<parent, node, root, cwd, files, handles, op, file>>

\* Mutant: symlink_count is not decremented.
FollowLinkForever ==
  /\ pc = "entry" /\ ModeOf(inode) = "LNK" /\ links > 1
  /\ path' = Target[node[inode]] \o Tail(path)
  /\ refcnt' = [refcnt EXCEPT ![parent[inode]] = @ + 1]
  /\ Put(inode, "walk") /\ inode' = parent[inode]
  /\ UNCHANGED <<parent, node, root, cwd, files, handles, op, file, links>>

\* A symbolic link: its target is put in front of the rest of the path and
\* the walk goes on in the directory that holds the link.
FollowLink ==
  /\ pc = "entry" /\ ModeOf(inode) = "LNK" /\ links > 1
  /\ links' = links - 1
  /\ path' = Target[node[inode]] \o Tail(path)
  /\ refcnt' = [refcnt EXCEPT ![parent[inode]] = @ + 1]
  /\ Put(inode, "walk") /\ inode' = parent[inode]
  /\ UNCHANGED <<parent, node, root, cwd, files, handles, op, file>>

\* Too many links, no memory for the new path, or an unreadable link; or a
\* file where the path goes on.
EntryFails ==
  /\ pc = "entry"
  /\ ModeOf(inode) = "LNK" \/ (Tail(path) # <<>> /\ ModeOf(inode) # "DIR")
  /\ links' = IF ModeOf(inode) = "LNK" THEN links - 1 ELSE links
  /\ Put(inode, "fail") /\ inode' = NULL
  /\ UNCHANGED <<refcnt, parent, node, root, cwd, files, handles, op, file, path>>

\* Mutant: a file will do where the path goes on.
EntryAnything ==
  /\ pc = "entry" /\ ModeOf(inode) # "LNK"
  /\ path' = Tail(path) /\ pc' = "walk"
  /\ UNCHANGED <<refcnt, parent, node, root, cwd, files, handles, op, file,
                 inode, links, dying, cont>>

EntryGood ==
  /\ pc = "entry" /\ ModeOf(inode) # "LNK"
  /\ Tail(path) = <<>> \/ ModeOf(inode) = "DIR"
  /\ path' = Tail(path) /\ pc' = "walk"
  /\ UNCHANGED <<refcnt, parent, node, root, cwd, files, handles, op, file,
                 inode, links, dying, cont>>

\* Mutant: the file structure stays taken.
FailKeepsFile ==
  /\ pc = "fail"
  /\ Returned
  /\ UNCHANGED <<refcnt, parent, node, root, cwd, files, handles, inode, dying>>

\* _close_file on a file without an inode; the call returns -1.
Fail ==
  /\ pc = "fail"
  /\ files' = [files EXCEPT ![file] = Closed]
  /\ Returned
  /\ UNCHANGED <<refcnt, parent, node, root, cwd, handles, inode, dying>>

Found ==
  /\ pc = "walk" /\ path = <<>>
  /\ files' = [files EXCEPT ![file].inode = inode]
  /\ inode' = NULL /\ pc' = "found"
  /\ UNCHANGED <<refcnt, parent, node, root, cwd, handles, op, file, path,
                 links, dying, cont>>

(***************************************************************************)
(* What the callers of searchdir do with the file.                         *)
(***************************************************************************)
FoundMode == ModeOf(files[file].inode)

\* open_file wants a regular file, opendir and chdir a directory; pm_open_file
\* takes anything.
Wanted(o) ==
  CASE o = "open_file" -> {"REG"}
    [] o = "pm_open_file" -> {"REG", "DIR"}
    [] o \in {"opendir", "chdir"} -> {"DIR"}
    [] OTHER -> {}

Deliver ==
  /\ pc = "found" /\ op \in {"open_file", "pm_open_file", "opendir"}
  /\ FoundMode \in Wanted(op)
  /\ handles' = handles \cup {file}
  /\ Returned
  /\ UNCHANGED <<refcnt, parent, node, root, cwd, files, inode, dying>>

\* realpath has copied the names; the others refuse the file.  _close_file.
Drop ==
  /\ pc = "found" /\ FoundMode \notin Wanted(op)
  /\ Put(files[file].inode, "idle")
  /\ files' = [files EXCEPT ![file] = Closed] /\ file' = NULL
  /\ UNCHANGED <<refcnt, parent, node, root, cwd, handles, op, inode, path, links>>

\* chdir: the old directory is released, the new one taken, the file closed.
Chdir ==
  /\ pc = "found" /\ op = "chdir" /\ FoundMode \in Wanted(op)
  /\ Put(cwd, "chdir") /\ cwd' = NULL
  /\ UNCHANGED <<refcnt, parent, node, root, files, handles, op, file, inode,
                 path, links>>

ChdirEnds ==
  /\ pc = "chdir"
  /\ cwd' = files[file].inode
  /\ refcnt' = [refcnt EXCEPT ![files[file].inode] = @ + 1]
  /\ Put(files[file].inode, "idle")
  /\ files' = [files EXCEPT ![file] = Closed] /\ file' = NULL
  /\ UNCHANGED <<parent, node, root, handles, op, inode, path, links>>

\* close_file and closedir, and getfssec when a read reaches the end of the
\* file: the file is closed and the handle becomes 0.
Close(h) ==
  /\ pc = "idle" /\ h \in handles
  /\ Put(files[h].inode, "idle")
  /\ files' = [files EXCEPT ![h] = Closed]
  /\ handles' = handles \ {h}
  /\ UNCHANGED <<refcnt, parent, node, root, cwd, op, file, inode, path, links>>

Step ==
  \/ PutInode \/ PutDone
  \/ RootComponent \/ DotComponent \/ ParentComponent \/ RootParentComponent
  \/ \E i \in Inode : Iget(i)
  \/ IgetFails \/ FollowLink \/ EntryFails \/ EntryGood \/ Fail \/ Found
  \/ Deliver \/ Drop \/ Chdir \/ ChdirEnds

Next ==
  \/ \E o \in Ops \ {"none"}, p \in Paths : Search(o, p) \/ SearchNoMemory(o, p) \/ NoFile(o, p)
  \/ \E h \in Slot : Close(h)
  \/ Step

Spec == Init /\ [][Next]_vars /\ WF_vars(Step)

-----------------------------------------------------------------------------
Live == {i \in Inode : refcnt[i] > 0}

TypeOK ==
  /\ refcnt \in [Inode -> Nat] /\ parent \in [Inode -> Inode \cup {NULL}]
  /\ node \in [Inode -> Node]
  /\ root \in Inode /\ cwd \in Inode \cup {NULL}
  /\ files \in [Slot -> [used : BOOLEAN, inode : Inode \cup {NULL}]]
  /\ handles \subseteq Slot
  /\ pc \in {"idle", "walk", "entry", "put", "fail", "found", "chdir"}
  /\ op \in Ops /\ file \in Slot \cup {NULL} /\ inode \in Inode \cup {NULL}
  /\ links \in 0 .. MAX_SYMLINK_CNT
  /\ dying \in Inode \cup {NULL}

\* How many pointers hold inode i.
Points(v, i) == IF v = i THEN 1 ELSE 0
Holders(i) ==
  Cardinality({s \in Slot : files[s].inode = i})
  + Cardinality({j \in Live : parent[j] = i})
  + Points(root, i) + Points(cwd, i) + Points(inode, i) + Points(dying, i)

\* fs.c:35-44, 244-381.  The counter of every inode is the number of pointers
\* to it, at every step of every call and on every error path.  So nothing is
\* used after it is freed and nothing stays allocated that nobody can reach.
RefcountExact == \A i \in Inode : refcnt[i] = Holders(i)

\* fs.c:396-425.  Between calls, the file structures in use are those whose
\* handles callers hold: no error path loses one of the MAX_OPEN structures.
NoFileLeak ==
  pc = "idle" => {s \in Slot : files[s].used} = handles

\* fs.c:300-316, 358-363.  An inode's parent is the inode of a directory that has
\* the node in it, however many links led there; the root alone has none.  So
\* ".." goes where the tree says, and the names collected by
\* generic_inode_to_path are a path of the node.
ParentsFollowTree ==
  \A i \in Live : IF parent[i] = NULL THEN node[i] = RootNode
                 ELSE \E nm \in DOMAIN Entries[node[parent[i]]] :
                        Entries[node[parent[i]]][nm] = node[i]

\* fs.c:340-373, chdir.c:95-110.  Names are looked up in directories only: what
\* a path goes on from, the current directory and every parent is one.
OnlyDirectoriesSearched == Named => ModeOf(inode) = "DIR"

\* fs.c:35-44, 358-363.  An open file stays the file it was when it was opened,
\* and the current directory stays where it is, while inodes are released and
\* their memory is used for others.
HeldStays ==
  [][/\ \A h \in handles \cap handles' :
           /\ files'[h].inode = files[h].inode
           /\ node'[files[h].inode] = node[files[h].inode]
     /\ cwd # NULL /\ cwd' = cwd => node'[cwd] = node[cwd]]_vars

-----------------------------------------------------------------------------
(* What paths mean, on nodes instead of inodes.  These laws say all there is *)
(* to say about Resolve(x, p, k), the node that p means from x when links may *)
(* be followed k - 1 times, on a tree in which every directory is in one      *)
(* other.                                                                     *)
Special == {"/", ".", ".."}

ResolveLaw(x, p, k) ==
  LET c == Head(p) rest == Tail(p) IN
  /\ c = "/" => Resolve(x, p, k) = Resolve(RootNode, rest, k)
  /\ c = "." => Resolve(x, p, k) = Resolve(x, rest, k)
  /\ c = ".." /\ x = RootNode => Resolve(x, p, k) = Resolve(x, rest, k)
  /\ c = ".." /\ Mode[x] = "DIR" =>
       \A d \in Node : (\E nm \in DOMAIN Entries[d] : Entries[d][nm] = x)
                      => Resolve(x, p, k) = Resolve(d, rest, k)
  /\ c \notin Special /\ c \in DOMAIN Entries[x] =>
       LET y == Entries[x][c] IN
       /\ Mode[y] # "LNK" => Resolve(x, p, k) = Resolve(y, rest, k)
       /\ Mode[y] = "LNK" /\ k > 1 =>
            Resolve(x, p, k) = Resolve(x, Target[y] \o rest, k - 1)

ResolveLaws(S) ==
  \A x \in Node, k \in 0 .. MAX_SYMLINK_CNT :
    /\ Resolve(x, <<>>, k) = x
    /\ \A p \in S \ {<<>>} : ResolveLaw(x, p, k)

Searching == pc \in {"walk", "entry", "found"} \/ (pc = "put" /\ cont = "walk")

\* What the rest of the path means from here.  An entry that has just been
\* looked up is still the first component of the path.
Meaning ==
  IF pc = "found" THEN node[files[file].inode]
  ELSE Resolve(node[IF pc = "entry" THEN parent[inode] ELSE inode], path, links)

\* fs.c:244-381.  Every step of searchdir keeps what the path means: the inode
\* reached so far and the rest of the path resolve to the same node.  So a
\* lookup that succeeds has found the node that the path named at first.
WalkKeepsMeaning == [][Searching /\ Searching' => Meaning' = Meaning]_vars

-----------------------------------------------------------------------------
\* fs.c:332-336.  Symbolic links that lead in circles do not hang a lookup:
\* every call returns.
CallsReturn == (pc # "idle") ~> (pc = "idle")
=============================================================================
