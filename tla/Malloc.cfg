SPECIFICATION Spec
CONSTANTS
  NHEAP = 2
  Base <- MCBase
  End <- MCEnd
  MaxReq = 3
INVARIANTS
  TypeOK
  ArenaInv
  Coalesced
  SweepMissesNothing
  NoSpuriousFailure
PROPERTIES
  AllocatedStable
  ImplementsHeapSpec
