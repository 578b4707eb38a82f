SPECIFICATION Spec
CONSTANTS
  Header = 4
  Node = 38
  PageWords = 270
  Timeouts = {1, 2, 3, 4}
INVARIANT CallbacksKept
CHECK_DEADLOCK FALSE
