# TLA+ verification of liigboot

liigboot is a boot manager for BIOS PCs: an installer that copies an image onto
a disk, a boot sector, and a loader that is a patched Syslinux 4 (an assembly
core that runs the user interface and starts kernels, and a C library that
reads files from FAT, ext2/3/4, NTFS and Btrfs partitions).  This directory
holds TLA+ models of the parts of the program that carry its logic, the TLC
configurations that check them, and TLAPS proofs of the results that matter most.

All paths below are relative to the repository.

## 1. Inventory

| component | state it keeps | operations | hard behaviours | what makes it correct |
|---|---|---|---|---|
| memory allocator (`syslinux/libcore/mem`) | two heaps, an all-blocks chain and a free chain in block headers | `malloc`, `lmalloc`, `pmapi_lmalloc`, `free`, `comboot_cleanup_lowmem` | long call sequences; a sweep that frees the chain it walks | blocks tile the heap, chains intact, nothing handed out is disturbed, failure only when full |
| metadata cache (`fs/cache.c`) | LRU ring of blocks, a lock mark | `cache_init`, `cache_lock_block`, `get_cache` | eviction order, locked entries, failed reads, a second `cache_init` after the driver's | ring intact, no block twice, data belongs to its block, pointers stay good |
| disk I/O (`fs/diskio.c`) | remembered `maxtransfer`, CHS or EDD mode | `chs_rdwr_sectors`, `edd_rdwr_sectors`, `disk_init` | retries, halving, fallback after partial progress, 64 KiB boundary | every sector at its place, termination, honest count |
| files and inodes (`fs/fs.c`, `chdir.c`, `readdir.c`) | open-file table, inode reference counts, current directory | `open_file`, `close_file`, `searchdir`, `chdir`, `opendir` | error paths half way through a path walk, table full | reference count = holders; no use after free, no leak |
| file reading (`fs/getfssec.c`, `fs/fat/fat.c`, `fs/loadhigh.c`) | extent cursor, offsets, cluster chain | `getfssec`, `fat_next_extent`, `pm_load_high` | truncated chains, extent boundaries, end of file, memory limits | the bytes of the file, in order, once |
| ext2/3/4 driver (`fs/ext2`) | none beyond the super block | `ext2_iget`, `ext2_readdir`, `ext2_next_extent` | deleted entries, holes, levels of indirection, trees of extents | names, inodes and sectors are those of the volume |
| FAT directories (`fs/fat/fat.c`) | the sector where a listing is | `vfat_find_entry`, `vfat_readdir` | long names cut short or left behind, full directories | as above |
| btrfs driver (`fs/btrfs`) | super block, chunk map, root of the tree | `btrfs_fs_init`, `btrfs_iget`, `btrfs_readdir`, `btrfs_next_extent`, `btrfs_getfssec` | copies of the super block, a map that grows while it is used, hash collisions, inline files | as above |
| NTFS driver (`fs/ntfs`) | sizes, one `readdir_state` for all directories, run lists | `ntfs_fs_init`, `ntfs_iget`, `ntfs_readdir`, `ntfs_next_extent`, `ntfs_getfssec` | signed run encoding, attribute lists, a listing that resumes in the middle of an index | as above |
| auxiliary data vector (`core/adv.inc`, boot-once in `core/ui.inc`) | a memory copy; the disk copies are unreachable, nothing ever stores a location in `ADVSec0` | `adv_init`, `adv_verify`, `adv_get`, `adv_set`, `adv_write` | none that this build can reach | - |
| serial console (`core/conio.inc`, `core/serirq.inc`) | receive ring, flow control | IRQ handler, `pollchar`, `getchar` | interrupt at any instruction, ring overflow | bytes in order, none twice |
| user interface and config parser (`core/ui.inc`, `parseconfig.inc`, `parsecmd.inc`, `getc.inc`) | timeouts, label records, a stack of open config files, unget buffers | key loop, `load_kernel`, `parse_config`, `core_open`/`getc`/`close`/`ungetc` | time-outs racing keys, include nesting, error recovery | default entry boots, files are closed, input is not lost |
| kernel loading (`core/runkernel.inc`, `bootsect.inc`, `bcopyxx.inc`) | load addresses, move descriptors | `is_linux_kernel`, `loadinitrd`, `pm_shuffle`, `pm_bcopy` | overlapping moves, memory limits | what runs is what was read |
| memory map (`core/highmem.inc`) | `HighMemSize` | E820 scan with fallbacks | unordered ranges, restarts | never above usable memory |
| mode switching and call-backs (`core/pm.inc`, `callback.inc`, `comboot.inc`, `com32.inc`) | saved stacks, A20 state | `_pm_call`, `core_intcall`, A20 enable | nested calls, interrupts in protected mode | registers and stacks restored |
| RLL packing (`libcore/rllpack.c`) | none | `rllpack`, `rllunpack` | run-length boundaries | unpack inverts pack |
| installer (`install.c`) | the target disk | `main`, `find_device_name`, `install` | crash or I/O error mid-way, partition overlap | partition table preserved |
| build tools (`mkzip.py`, `patch_grldr.py`, `elftool.py`, ...) | images being built | one-shot scripts | layout arithmetic | FAT images consistent |
| boot sectors and loaders (`liigboot_boot.nasm`, `hiiimain.nasm`, `core/diskstart.inc`) | registers, sectors read so far | read the loader, jump to it | BIOS errors | whole loader in memory |

The components call each other top-down: user interface and parser call the
file layer through protected-mode calls, the file layer calls the disk layer
through the metadata cache, and everything in C takes its memory from the
allocator.  The only true concurrency is between the serial interrupt handler
and the console code; the rest of the hard behaviour is failure: disk errors,
truncated files, power loss, full tables.

## 2. Modules

Every action is the code between two points where something else could happen
or where a loop invariant is wanted; the map in `PROJECT.json` names the lines of
each.  Text, messages and register shuffling are left out.

### Malloc, HeapSpec, MCMalloc, MallocProofs

`Malloc` models `mem/init.c`, `malloc.c` and `free.c` at the level of the
pointers: `next`, `prev`, `next_free`, `prev_free` and the bit fields of `attrs`
are functions of the block address, counted in units of
`sizeof(struct arena_header)`.  The loops of `_malloc` and `__free_tagged` and
the two halves of `__free_block` are separate steps with the loop's cursor `fp`
as a variable, because their loop invariants are what the proofs need.
`malloc(0)`, which returns NULL and changes nothing, has no action.
`HeapSpec` is what the allocator promises: disjoint extents inside a heap.

### Cache, MCCache, CacheProofs

`Cache` models `fs/cache.c` with its links as functions on descriptor numbers
(0 is the head node), `get_cache` with reads that may fail, and the life of the
cache: the driver's `fs_init` calls `cache_init`, ext2 locks a zeroed block,
btrfs reads its super block through the cache and may turn the disk down, and
`fs_init` calls `cache_init` again.  The content of a block is the number of the
block it was read from.  `failed` and `recent` are history: the blocks whose last
read failed, and the last `n` requests with the descriptors they were given.

### DiskIO, MCDiskIO, DiskIOProofs

`DiskIO` models `chs_rdwr_sectors` and `edd_rdwr_sectors` as one loop with the
variable `mode`: choosing a chunk, the BIOS call, retries, halving, the bounce
buffer, the hand-over from EDD to CHS and what is remembered for later calls
(`maxtransfer`, `rdwr`).  The BIOS is external: each call succeeds or fails.
Addresses are in units of half a sector, so that a buffer can be unaligned.
`mem` is what the caller's buffer holds afterwards.  `disk_init` is the choice of
initial states.

### Vfs, MCVfs, VfsProofs

`Vfs` models the reference counts and the generic path walk of `fs.c`, with
`chdir`, `realpath`, `opendir`, `open_file`, `pm_open_file` and `close_file` as
the callers.  A path is a sequence of components.  Each component is a step, and
so is each inode that `put_inode` frees on its way up, so that a counter that is
wrong in the middle of a call is seen.  Any lookup may run out of memory or find
the disk unreadable.  What a path means is the constant `Resolve`, of which
`ResolveLaws` says all that path lookup may rely on: the empty path, `.`, `..`, names
and links, as equations between nodes of the tree.  `MCVfs` has a directory tree
with links and gives `Resolve` a recursive definition, `MCResolve`, which TLC finds to
obey these laws (`MCResolveAssumption`).

### FileRead, FileSpec, MCFileRead, FileReadProofs

`FileRead` models `generic_getfssec` with its two cached extents, on top of
`fat_next_extent`, with the place in the chain that it remembers, or of
`ext2_next_extent`, whose `ext2_bmap` may cut a run of blocks anywhere it likes.
A sector's content is its number.  FAT chains need not be as long as the size in
the directory entry says; ext2 files have holes.  Sizes are unsigned and wrap at
`Word`, also where the code rounds them up to sectors or clusters.  `have_more`, which
is not set when there is nothing to read, is then any value.

`FileSpec` is what a reader is promised, without sizes in clusters, extents or chains:
a file is a sequence of sectors, a call that asks for some gets all of them in as
many transfers as it takes, and its answer says whether bytes are left.  `FileRead`
implements it for files that are `Sound`: their clusters are all there and the size
can be rounded up.  For the others the findings say what happens.

### LoadHigh, LoadHighProofs

`LoadHigh` extends `FileRead` with `pm_load_high`: a loop that calls `getfssec`,
as `FileRead` has it, until it has the bytes asked for, the memory is full or the
file ends.  Other reads of the same file may come before and between loads.  The
routine that is called between chunks only polls the keyboard and is left out;
addresses do not wrap.

### Ext2, FatDir, Btrfs, Ntfs, Drivers, MCDrivers, DriverProofs

The four drivers have hardly any state, and a call runs to its end before the
next one starts; what is hard about them is the shape of the data on the disk.
So each driver is a module of operators on a volume, one for each function of
the source, loops as recursive functions, and `Drivers` is the state machine that
calls them through `struct fs_ops`: a volume is mounted, names are looked up, the
root is listed and closed half way, a file is opened and its extents are asked
for, in any order.  What the drivers keep between calls is in `mnt`, in the handle
of the open directory, in the inode of the open file and, for NTFS, in `rs`, the
one `readdir_state`; a lookup that finds a directory resets it, as in the code.

A volume is a record of what the driver reads: directory entries at their
offsets, tree blocks with their items, records with their attributes, data runs as
bytes.  The header files' structures are types that `VolumesAssumption` requires
of every volume.  Names are sequences of numbers; long FAT names have chunks of
two characters, blocks of addresses two addresses, and so on, so that every
boundary is crossed by small volumes.  The CRC of a btrfs name is any function.
Uninitialised or dangling data are choices: the `fsid` that `btrfs_read_super_block`
compares with when the first copy is bad (`Junk`), the flag that `ntfs_readdir`
reads through a null pointer (`int3`), and what lies at the address that
`ntfs_readdir` keeps in `file->offset`.  This is the address of an entry in the buffer
of the directory's record, which is freed before the call returns (`ntfs.c:1078`, `1088`,
`1210`).  The next call reads the record into a buffer of its own.  `free` puts a block,
together with a free one after it, at the front of the chain in which `malloc` looks
for the first fit (`free.c:41`), so that with nothing in between the buffer and
the entry are the same (`AsWas`).  Anything that takes memory for good or gives it back
may end that (`HeapMoves`): an inode found by a lookup, the elements of a list of runs,
a record to which an attribute list leads, and the caller's own requests (`Malloc`).  From
then on the address may lead to junk (`JunkEntries`), and once it has, the
address after it always does (`ASTRAY`).

`MCDrivers` makes the volumes from what they are to hold (a list of names, a list
of block numbers, a list of chunks) by encoders that follow the formats and not
the drivers, and states what the drivers must answer.

`SearchTree` in `Btrfs` and `ExtentTree` in `Ext2` say what the searches expect of a
tree on the disk, of any depth and width; they are what the theorems of `DriverProofs`
assume.  That the trees of the volumes are of this kind is assumed and checked in
`MCDrivers` (`BtrfsTreesAssumption`, `ExtentTreesAssumption`).

### Serial, ByteStream, MCSerial, SerialProofs

`Serial` models the receive ring between the interrupt handler (`serirq.inc`)
and `pollchar` and `getchar` (`conio.inc`), and the "serial" command that
installs and removes the handler (`parseconfig.inc`).  The handler may run
between any two instructions of the main program that touch what they share,
except between `cli` and `sti`; the main program does nothing while it runs.
New bytes arrive at any time.  With flow control, the status bits may be set or
not whenever they are read.  The "serial" command always names the same port.
`overflow` and `damaged` are history: the queue properties end where the code is
known to break its queue (see the findings below).

`ByteStream` is what the input promises `getchar`: bytes come out once each, in the
order in which they came in.  Its variable `health` says from when on less is
promised: after an overflow (`torn`), which needs as many waiting bytes as the ring has
slots, only the order, and after an interrupt while the port is being set up or with
flow control (`spoiled`) nothing, until the ring is erased.  `steady` is true while a
port is in use, without flow control and not being set up: then nothing but an
overflow can do damage.

## 3. Runs

| run | bounds | distinct states |
|---|---|---|
| `malloc` | heaps of 4 and 8 units, requests of up to 3 | 26 thousand |
| `cache` | four blocks; caches of one, two and three | 685 thousand |
| `diskio` | calls of up to 5 sectors, 2 tries, limits 2 and 4, tracks of 3, segments of 4 sectors | 13 thousand |
| `vfs` | 2 file structures, 5 inodes, 3 link expansions, 9 paths | 88 thousand |
| `file_read` | 5 clusters of 2 sectors of 2 bytes, 16 chains, sizes 1 to 16 and one that overflows when it is rounded up, up to 4 sectors a call; loads with and without chunks, limits and padding | 96 thousand |
| `drivers` | 524 volumes: 130 ext2, 161 FAT, 133 btrfs, 100 NTFS; listings of up to 6 names | 118 thousand |
| `serial` | a ring of 4 slots, a UART of 2 bytes, 5 bytes | 940 thousand |

What they show:

- `malloc`: blocks tile the heaps and the chains are intact at every step
  (`ArenaInv`), neighbours are merged (`Coalesced`), the clean-up after a module
  misses no block (`SweepMissesNothing`) and touches no other
  (`AllocatedStable`), a request fails only when no block fits
  (`NoSpuriousFailure`), and `HeapSpec` is implemented.  Heaps of 4 and
  8 units hold up to four blocks, enough for a free between two used, two free
  and one of each, and for a remainder too small to split.
- `cache`: the links stay inverse and no block is held twice (`RingInv`), a pointer
  stays good until as many other blocks as there are descriptors have been
  asked for (`PointerStaysValid`), and data belongs to its block unless its read
  failed (`DataMatchesBlock`).  More blocks than
  descriptors make every eviction happen.
- `diskio`: requests to the BIOS are legal (`ChunkLegal`), sectors end up in their
  places (`TransferCorrect`), a call comes back short only after single sectors
  failed (`ShortOnlyWhenHopeless`), and calls end.  The buffers are aligned,
  unaligned so close to a segment's end that no sector fits, and above the limit; the
  sectors include some past the last CHS cylinder.
- `vfs`: each counter equals the number of pointers to the inode at every step
  and on every error path (`RefcountExact`), no file structure is lost
  (`NoFileLeak`), parents are those of the tree (`ParentsFollowTree`), names are looked up
  in directories only (`OnlyDirectoriesSearched`), open files and the current directory
  stay what they are while other inodes come and go (`HeldStays`), every step of a walk
  keeps what the path means, up to the node that it finds (`WalkKeepsMeaning`), and
  calls return although a link leads to itself.
- `file_read`: however reads are cut up, the buffers get the file's sectors, once and
  in order (`ContentInOrder`), every cached extent is true (`ExtentsTrue`), reads
  return, and `FileSpec` is implemented (`ImplementsFileSpec`): a call gets all it
  asks for, and the end is reported exactly at the end.  The chains have runs, jumps
  in both directions and, since every chain meets every size, too few and too many
  clusters.  A load into high memory never reads past its limit and has, at its end,
  what was asked for, the rest of the file, or as many sectors as fit
  (`HighLoadRight`), and it ends if the clusters of the file are all there
  (`HighLoadEnds`).
- `drivers`: but for the cases named below, volumes are mounted from what is valid
  on them (`MountRight`), names are found if and only if they are there
  (`LookupRight`), a listing has every name once, whatever happens between its
  calls (`ListingRight`; not so for NTFS), extents lie where the data of the file
  lie and no call for one fails (`FileSectorsTrue`), and so do files within their
  metadata (`SmallFileTrue`).  There are deleted entries, holes at all levels, trees of up
  to three levels cut at every item, colliding hashes, bad copies of the super
  block, attribute lists in and outside their record.  A run of the driver has no
  deadlock to look for: a volume that cannot be mounted ends it.
- `serial`: ring, handler, UART and `getchar` together implement `ByteStream`
  (`ImplementsByteStream`): until the ring overflows no byte is lost, and bytes come out
  in order and none twice, though some come from the ring and some from the UART.
  What `pollchar` promised is there (`PollIsHonest`), and a `getchar` for which there is
  input returns.  Five bytes fill a ring of four
  slots, overflow it and wrap around it.

`RingIsQueue`, `GivenInOrder`, `PlaceTrue` and `EndReportedAtEnd` have no place in these
runs, since the two refinements fail as soon as one of them does in a way that
matters to a caller; they are theorems (section 4), and what the proofs of the
refinements rest on.

Fairness.  The steps of a running call (`Step`; in `Serial` the handler and
`getchar`) are weakly fair: the code is sequential, its loops go on by
themselves, and BIOS calls return.  Nothing obliges a caller to call again, a
byte to arrive or a BIOS call to succeed.

Deadlock is checked in all runs but `drivers`, which also states no fairness: each
call is one step, and its loops are bounded by the recursive functions.

### Where the drivers are known to go wrong

`MountRight`, `LookupRight`, `ListingRight`, `FileSectorsTrue` and `SmallFileTrue` do
not hold on every volume.  `MCDrivers` names the cases met on the volumes of the run
where they do not, as narrowly as they could be stated (without any one of these
exceptions the run fails):

- ext2: with descriptors of 64 bytes, inodes of a group whose descriptor is not the
  first of its block (`Excused`; `ext2.c:53`); a hole in a file with extents is an
  extent without sectors (`FileSectorsTrue`; `bmap.c:73`).  A listing has deleted
  entries, with inode 0 (`Seen`; `ext2.c:257`).
- FAT: a file after a long name that is cut short or belongs to no file is not
  found (`Excused`; `fat.c:480`, `519`); a directory without a free entry is listed
  on into the boot sector, and some leftovers mix into the next name
  (`ListedWrong`; `fat.c:626`, `700`).
- btrfs: a subvolume whose name begins with that of another one, or whose entry
  begins a leaf, gives the wrong tree (`WrongTree`; `btrfs.c:600`, `613`); names with
  the same hash are not told apart (`SameHash`; `btrfs.c:450`), and hash 0 starts a
  listing over; without a chunk at address 0 the chunk tree is not read
  (`ChunksLost`; `btrfs.c:372`); an empty file, or one that begins with a hole for
  which there is no item, is not found (`NoFirstItem`; `btrfs.c:429`); a hole with an
  item is read from logical address 0, one without an item is an error
  (`FileSectorsTrue`; `btrfs.c:531`, `554`).  With a bad first super block the driver
  goes by an unassigned `fsid` (`MountRight`; `btrfs.c:155`).
- NTFS: index blocks smaller than a cluster, or an MFT that does not start at a
  block (`Misplaced`; `ntfs.c:1347`); odd bytes from 129 on in the length of a run,
  and holes (`RunsMisread`; `ntfs.c:387`); a listing during which a directory is
  looked up, or that was not finished (`clean`; `ntfs.c:660`), during which the heap
  changes while `file->offset` is an address (`dir.moved`; `ntfs.c:1078`), or for which address 12
  holds an even number (`ntfs.c:1097`); a resident file read in parts
  (`SmallFileTrue`; `ntfs.c:1009`).

### Findings

These runs state what a comment says and find that the code does otherwise:

- `disk_fallback` (`FallbackCompletesTransfer`): when EDD fails after it has
  transferred something, the CHS routine gets the start of the buffer with the
  address of the rest (`diskio.c:238`).
- `file_read_cut` (`SizeCoversWhatWasRead`): for a chain that ends early the size,
  in bytes, is set to a number of sectors (`fat.c:113`); `size - offset` wraps.
- `file_read_empty` (`NothingReadFromEmptyFile`): an empty file on FAT is taken for
  the root directory (`fat.c:550`).
- `serial_overflow` (`OverflowKeepsQueue`): a second byte that comes with the one
  that finds the ring full destroys the queue (`serirq.inc:64`).
- `cache_ext2_zero` (`BlockZeroIsZero`): the zero block that ext2 prepares is never
  found, since its descriptor has no block number and `fs_init` empties the cache
  again (`fs.c:526`).

More disagreements of this kind were met, which no run is made for: a block whose
read failed counts as cached (`cache.c:121`, in the model, and on the list of
hazards); and, only noted here, a block size of 64 KiB is 0 in 16 bits (`fs.h:133`),
sectors are compared with bytes before a disk is declared a CHS disk
(`diskio.c:240`), the handler looks for the modem bits in the line status register
(`serirq.inc:67`), and a faulty "serial" command leaves the handler without a port
(`parseconfig.inc:207`).

## 4. Proofs

Every safety property of the runs `malloc`, `cache`, `diskio`, `vfs`, `file_read` and
`serial` is also a theorem, for every value of the constants that satisfies the
module's assumption, but for those listed under "Only model-checked".  Each of their
proof modules has one inductive invariant `IInv` (in `LoadHighProofs`, `HighInv` on top
of that of `FileReadProofs`), a lemma for each action that says that it preserves `IInv`,
and theorems that follow from it; smaller invariants that only one theorem needs are
proved on top of it.  The invariants were checked with TLC on the instances of
section 3 before they were proved.  `DriverProofs` has no state machine: its theorems
are about what the functions of the drivers return.

### MallocProofs

For any number of disjoint heaps of at least two units and requests of any size
(`HeapAssumption`):

- `MallocTypeCorrect`, `ArenaAlwaysWellFormed`, `NeighboursCoalesced`: the arena is
  well formed and merged in every state;
- `CleanupIsComplete`: the sweep after a module overlooks no block of it;
- `FailureIsHonest`: a failed request could not have been served;
- `OthersBlocksUntouched`: no step changes a block that is handed out, except the one
  that frees it (`AllocatedStable`, an action property);
- `MallocImplementsHeapSpec`: the allocator implements `HeapSpec`.

`IInv` is the type invariant, `ArenaInv`, `Coalesced`, `SweepMissesNothing`, and two
parts that are only there for the induction.  `CursorInv` keeps the cursor of a
running loop on the chain it walks; without it a step could split or merge a header
that is no longer there.  `SearchOrder` says that a free chain has an order along
which the search moves and that what it has passed was too small: that both links
are inverse to each other would also be true of a ring of free blocks that misses
the head, and then a search that came back to the head would prove nothing.  The
order is a ghost: each step that changes the chain gives the new order from the old
one.  The refinement needs of `IInv` that used blocks lie in their heaps and do not
overlap.

### CacheProofs

For every size of the cache, set of blocks and block size that leaves at least one
descriptor and whose size fits its variable (`CacheAssumption`, which leaves out the
64 KiB block): `CacheTypeCorrect`, `RingAlwaysLinked`,
`PointersStayValid`, `DataBelongsToBlock`.

That the links are inverse does not make one ring of them, and that a pointer
stays good depends on the order of the ring.  `LruInv` supplies both: there is an
order of all descriptors that the links follow, and the last requests are its most
recent part, each with the descriptor it was given.  `MovedFollows` shows that
unlinking a descriptor and linking it in at the end is a rotation of that order,
`ChosenAt` that `get_cache` takes the least recent one for a new block.

### DiskIOProofs

For every geometry, segment size, limit, number of retries and pattern of BIOS
failures (`DiskAssumption`: a sector is at least two bytes and fits in a segment):
`DiskTypeCorrect`, `ChunksAlwaysLegal`, `TransfersCorrect`, `ShortIsHopeless`.

`PositionInv` ties the pointer, the address and the count of the loop to what has
been transferred, `BufferInv` says what is in the buffer in the middle of a call,
and `LimitInv` that halving never reaches 0 and that failures and retries add up.
`TransferCorrect` speaks of finished calls only and is not inductive without them.
It excludes what `disk_fallback` shows.

### VfsProofs

For every directory tree, set of paths, table size and heap (`VfsAssumption`: the
root is a directory and entries lead to nodes): `VfsTypeCorrect`, `ReferencesExact`,
`FilesNeverLeak`, `NoUseAfterFree` (every pointer that the code follows leads to
an inode with a counter above 0) and `ParentsAreRight` (the parent of an inode is a
directory of the tree that holds it), `HeldIsStable` (`HeldStays`, an action property),
`DirectoriesSearched` and `WalkIsRight`: for every `Resolve` that obeys `ResolveLaws`,
`WalkKeepsMeaning`.

`RefcountExact` equates a counter with a number of pointers, so that each step needs
to know which pointer it sets or clears.  `ControlInv` says which of the local
variables are in use at each point, `FileInv` which file structures are.  The
counting lemmas (`CountChange`, `CountSame`) say what one changed pointer does to a
cardinality.  `ParentsFollowTree` is about inodes in use; `Placed` adds that unused
ones have no parent, and is kept because a slot that is filled or freed is nobody's
parent: pointers only lead to inodes in use.

`WalkIsRight` needs to know at each step that the laws apply: that the inode reached
is a directory, that the entry just looked up is the one that the path names, and
that the root has no parent, so that `..` stays there.  This is `WalkInv`; it is
inductive only together with `Placed` and `PointersLive`, since an inode that is
freed may become another node.

### SerialProofs

For every size of the ring and of the UART and every interleaving
(`SerialAssumption`: the index register can count one past the ring):
`SerialTypeCorrect`, `RingAlwaysQueue`, `BytesInOrder`, `PollKeepsItsWord`, and
`SerialImplementsByteStream`, the refinement.

The handler stores a byte before it knows that there is room and keeps the head in a
register, and `getchar` does the same with the tail.  `MainInv` and `HandlerInv` say
how the registers of one side relate to memory while the other runs, `OrderInv` that
all that is on its way (the byte in `getchar`'s register, the queue, the byte just
stored, the UART) is in the order of arrival, also while the oldest byte has just
been overwritten, which is a state that the queue property does not speak of.

For the refinement the abstract stream is the ring, what the handler has in its
hands (`Hand`) and the UART, one after the other; `WayInv` gives it from the history
variables, so that the steps that only move a byte from one place to the next are
stutters.  `ReadInv` adds that the byte in `getchar`'s register is still the oldest
one when the tail moves past it.

### FileReadProofs

For every geometry, every FAT chain and ext2 block map, every size and every way to
cut up the reads: `FileTypeCorrect`, `ContentArrives`, `ExtentsAlwaysTrue`,
`EndIsReported`, `PlaceIsRight`, and `FileReadImplementsFileSpec`, the refinement.
`ReadAssumption` requires that sectors can be counted
in `Word`, that a chain has no cluster twice (the table gives a cluster one successor,
so that a chain with a repetition has no end) and that what ends a chain is
not the number after a cluster.  All but the last are about files with clusters
(`HasClusters`): what an empty file on FAT does is the finding `file_read_empty`.
Broken chains, shorter than the size, are included.

An extent has to be true for all its sectors, also for those past the end of the
file (`ExtentInv`), since the size may be cut while it is cached.  `PositionInv` says
that the current extent starts with the sector that comes next, and how the offset,
the bytes read and the bytes left relate.  `PlaceInv` says where the remembered place
is, in terms of links of the chain (`Link`), for as long as it is inside the file;
`SizeInv` that the size is cut only if the chain is too short.  `FollowLinks`
(`fat_next_extent` walks the chain), `RunTrue` (a run it finds is contiguous in the
chain and on the disk) and `RunPromise` (the place it leaves is right) are the core;
`Ext2Promise` is the same for a block map.  `FollowLinks` needs an induction
over the length of the walk, which is done as a least counterexample
(`LeastMember`).

The refinement says more than that what arrives is right: that it arrives.  A call
owes its caller the sectors it has been asked for, and `OwedInv` says that what is
owed is in the file, so that a look-up of the next extent never comes back empty
(`FatFinds`, by way of `ClusterInFile`).  Without it `generic_getfssec` could give up
half-way, and no property of what has been read would notice.

### LoadHighProofs

`LoadIsRight`: for every load, limit, mask and chunk size that is a multiple of the
sector (`LoadAssumption`), `HighLoadRight` holds for files with clusters whose
size is at least a sector below 2^32 (`SizeFits`); for a larger one `generic_getfssec`
finds nothing to read and does not say whether there is more.
`LoadedContentArrives`: `ContentInOrder` holds also for the composed specification.
`LoadHighImplementsFileSpec`: so does the refinement, whose steps on memory and limits
are stutters.

`BooksInv` and `LoopInv` relate memory and file between reads.  `ReadInv` says that a
chunk is a whole number of sectors unless it is the last, without which
bytes would be skipped between two chunks, and that what a running read has put
down and will still put down fits its sectors.

### DriverProofs

For trees, maps and slots of every size, what the functions of two drivers return:

- `BinarySearchRight`: `bin_search` finds the slot that compares as equal, or the place
  where it would be;
- `ChunkMapStaysOrdered`, `AddressesTranslated`, `SysChunksOrdered`: `insert_map`
  keeps the chunk map ordered and loses nothing, `logical_physical` translates an
  address as the chunk that holds it says, and the map made of the super block's
  array has its chunks, whatever their order;
- `GrowingMapKeepsAddresses`: the map may be used while it grows, if the chunks do not
  overlap: no address that could be translated is translated differently later;
- `SearchFindsKey`: in every `SearchTree`, `search_tree` ends at the last item that is not
  after the key, and reports it as found if and only if it is there;
- `ReaddirTakesNext`: `btrfs_readdir` returns the entry with the next lower hash, and
  ends only when there is none, so that a listing has every hash above 0 once;
- `ExtentFound`: in every `ExtentTree`, `bmap_extent` finds the extent that has a
  block and says how much of it follows, and finds nothing for a block in a hole.

A loop is a recursive function.  First it has to be shown that there is such a
function (`IterationExists`, `DescentExists`, `WayDownExists`; in `BinarySearchRight` it is
the function of the right answers, and `RoundAnswers` says that a round of the loop
keeps them), then an invariant is followed along its arguments: for a descent, that
the key (`Leads`) or the extent (`Toward`) looked for is below the block that has been
reached, if it is in the tree.  The inductions are over a set of numbers (`UpTo`),
which comes from the well-foundedness of the natural numbers.  `BtrfsAssumption` only
gives the constants their types.

The other functions of these drivers are not proved about.  `next_slot` and `next_leaf`
are only known to be right for the trees TLC has seen.  `read_chunk_tree` reads
through a map that a damaged volume may leave without the chunk tree, and what is
then read has no type to reason about.  `ext2`'s levels of indirection are powers
of a constant, which the prover has no arithmetic for.

### Only model-checked

- All liveness properties (`CallsReturn`, `HighLoadEnds`, `GetcharReturns`): fairness
  is out of the prover's reach.  That a search of the allocator ends is not a
  theorem, but `SearchOrder` is why.
- The properties of `MCDrivers`: they compare whole drivers with what was put on the
  volumes by recursive encoders, over which the prover has no induction.  What
  `DriverProofs` shows are parts of `MountRight`, `LookupRight`, `ListingRight` and
  `FileSectorsTrue` for btrfs and extents, on volumes of any size.  The drivers for FAT
  directories and NTFS are only model-checked.
- That `MCResolve`, the recursive reference of `MCVfs`, obeys `ResolveLaws` is evaluated
  for the paths of the instance.

## 5. Not modelled

Straight-line code that copies itself and calls the BIOS (boot sectors,
`hiiimain.nasm`, the small loaders), output (graphics, fonts, serial output), the
third-party C library, and the one-shot build scripts.  The auxiliary data
vector: no code ever stores a location in `ADVSec0`, so that the part that writes
to the disk cannot be reached.

Of the drivers: the text of symbolic links (`Vfs` has links as components), the
rewriting of a path by `vfat_mangle_name`, code pages beyond the letters, checks of
offsets against the bounds of damaged metadata, and disk errors under
`generic_getfssec`, which does not look at them (`getfssec.c:176`).  No NTFS volume has a
directory with an attribute list: each call of its listing would leave one more
record allocated (`ntfs.c:575`), and thereby move the buffer.

Of the assembly core: the user interface, the configuration parser and its stack
of files, the moves of `bcopyxx.inc`, the E820 scan and the mode switches.  The
installer and the packing of labels.

## 6. Plan

Next, in this order:

1. `read_chunk_tree` and `next_leaf` of `Btrfs`, for volumes whose chunk tree lies in
   the chunks of the super block.
2. `GetC`: the stack of open configuration files with its unget buffers.
3. `Shuffle`: the move lists of `bcopyxx.inc`, with overlaps.
4. `UI`: the key loop with its time-outs, default and fallback commands.
5. `HighMem`: the E820 scan; `Install`: the order of reads, checks and writes of
   `install.c`.
