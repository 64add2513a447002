SPECIFICATION Spec
CONSTANTS
  Node <- MCNode
  RootNode = "R"
  Entries <- MCEntries
  Mode <- MCMode
  Target <- MCTarget
  Paths <- MCPaths
  Name <- MCName
  Resolve <- MCResolve
  MAX_OPEN = 2
  MAX_SYMLINK_CNT = 3
  NInode = 5
INVARIANTS
  TypeOK
  RefcountExact
  NoFileLeak
  ParentsFollowTree
  OnlyDirectoriesSearched
PROPERTIES
  HeldStays
  WalkKeepsMeaning
  CallsReturn
