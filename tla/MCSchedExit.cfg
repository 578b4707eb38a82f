SPECIFICATION Spec
CONSTANTS
  PoolSize = 5
  Workers = 2
  MayExit = TRUE
  Paced = TRUE
  MaxDepth = 4
INVARIANT ElrIntact
INVARIANT NoTaskLost
INVARIANT ReapedIsGone
INVARIANT ExitIsFinal
PROPERTY CpuKeepsGoingRound
PROPERTY DeadIsReaped
CHECK_DEADLOCK FALSE
