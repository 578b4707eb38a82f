SPECIFICATION Spec
CONSTANT MaxOrder = 3
INVARIANT TypeOK
INVARIANT Partition
INVARIANT HeadersRight
INVARIANT Coalesced
PROPERTY IsPageAllocator
