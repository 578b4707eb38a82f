SPECIFICATION Spec
CONSTANTS
  PoolSize = 4
  Workers = 2
  MayExit = TRUE
  Paced = FALSE
  MaxDepth = 3
INVARIANT QueueWellFormed
CHECK_DEADLOCK FALSE
