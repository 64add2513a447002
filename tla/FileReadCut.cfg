SPECIFICATION HighSpec
CONSTANTS
  SectorSize = 2
  ClusterSecs = 2
  NClusters = 5
  DataArea = 3
  Root = 1
  RootSize = 4
  Word = 256
  FatChains <- MCFatChains
  Ext2Chains <- MCExt2Chains
  Sizes <- MCSizes
  MAX_CHUNK = 4
  Loads <- NoLoads
  MaxSectors = 4
INVARIANT SizeCoversWhatWasRead
