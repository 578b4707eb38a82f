SPECIFICATION Spec
CONSTANTS
  PageSlots = 14
  BinMax = 3
  Word = 64
  Pages = {1, 2}
  Boundary <- MCBoundary
INVARIANT TypeOK
INVARIANT HeapWellFormed
PROPERTY IsAllocator
CHECK_DEADLOCK FALSE
