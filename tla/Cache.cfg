SPECIFICATION Spec
CONSTANTS
  Block <- MCBlock
  Shifts <- MCShifts
  CacheSize = 40
  DescSize = 2
  Width = 64
INVARIANTS
  TypeOK
  RingInv
  PointerStaysValid
  DataMatchesBlock
