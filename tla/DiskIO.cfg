SPECIFICATION Spec
CONSTANTS
  RETRY_COUNT = 1
  MaxTransfers <- MCMaxTransfers
  SectorSize = 512
  SecUnits = 2
  SegUnits = 8
  LowLimit = 32
  Bufs <- MCBufs
  Lbas <- MCLbas
  MaxCount = 5
  PartStart = 1
  SecPerTrack = 3
  ChsMax = 12
INVARIANTS
  TypeOK
  ChunkLegal
  TransferCorrect
  ShortOnlyWhenHopeless
PROPERTIES
  CallsReturn
