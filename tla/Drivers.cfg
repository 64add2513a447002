SPECIFICATION Spec
CHECK_DEADLOCK FALSE
CONSTANTS
  EXT2_NDIR_BLOCKS = 2
  ADDR_COUNT = 2
  EXT2_BLOCK = 4
  DESC_BYTES = 32
  DESC_BLOCK = 128
  EXT2_BLKSECS = 2
  EXT2_INODE_BLOCK = 256
  FAT_BASE = 2
  FAT_EXT = 1
  FAT_CHUNK = 2
  FAT_SLOTS = 3
  FAT_SECTOR = 3
  FAT_MAX_STEPS = 20
  BTRFS_SECTOR = 4
  BTRFS_HEADER = 1
  BTRFS_MAX_CHUNK_ENTRIES = 4
  BTRFS_MAX_ITEMS = 6
  NTFS_MAX_RUNS = 5
  NTFS_MAX_STEPS = 24
  MaxRead = 2
  MaxListed = 6
  Volumes <- MCVolumes
INVARIANTS
  SmallFileTrue
  MountRight
  LookupRight
  ListingRight
  FileSectorsTrue
