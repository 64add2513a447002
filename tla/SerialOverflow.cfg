SPECIFICATION Spec
CONSTANTS
  Size = 4
  Width = 8
  Fifo = 2
  MaxByte = 5
INVARIANT OverflowKeepsQueue
