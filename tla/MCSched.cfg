SPECIFICATION Spec
CONSTANTS
  PoolSize = 5
  Workers = 2
  MayExit = FALSE
  Paced = TRUE
  MaxDepth = 4
INVARIANT TypeOK
PROPERTY ImplementsRoundRobin
PROPERTY EveryTaskRuns
