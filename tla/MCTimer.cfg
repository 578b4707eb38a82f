SPECIFICATION Spec
CONSTANTS
  Nodes = {n1, n2, n3}
  FewNodes = {n1, n2}
  NULL = NULL
  Timeouts = {1, 2, 3}
  Word = 5
INVARIANT ListIsTheWaiting
INVARIANT InTime
PROPERTY ImplementsTimerQueue
PROPERTY EveryCallbackRuns
CHECK_DEADLOCK FALSE
