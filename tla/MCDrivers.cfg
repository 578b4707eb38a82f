SPECIFICATION DriversSpec
CONSTANTS
  Tasks = {t1, t2}
  Texts <- MCTexts
  LF = "LF"
  CR = "CR"
  QueueSize = 1
  Prop = prop
  Others = {other}
  Revision = 1
  Size = 2
INVARIANT PrintedOnce
INVARIANT AnswerIsThere
PROPERTY AllPrinted
PROPERTY CallReturns
