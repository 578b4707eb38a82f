SPECIFICATION MachineSpec
CONSTANTS
  Letters = {"a", "b"}
  Commands <- MCCommands
  BufSize = 5
  Names <- MCNames
  Bodies <- MCBodies
  Trailer <- MCTrailer
  MaxFiles = 3
  ArraySize = 2
  Align = 2
  IntMax = 127
  Word = 4096
  HexDigits = 2
  TopPower = 3
  Fraction = 2
  Quotients <- MCQuotients
  Chars = {32, 45, 48, 49, 70, 97, 103, 120}
  MaxLen = 4
  StringAlign = 16
  PtrSize = 8
  IntSize = 4
  Lengths = {0, 1, 2, 15, 16}
  MaxArgs = 3
  Files <- MCFiles
  TextNames <- MCTextNames
  FrameWords = 34
  Depth = 16
  RegisterRange = 1024
  EntrySize = 16
  Table = 96
  Symbols = {"%", "d", "q", "s", "p", "a", "LF"}
  MaxFormat = 4
  Strings <- MCStrings
  Behind <- MCBehind
INVARIANT LineUnderstood
INVARIANT NothingInvented
INVARIANT AllFilesFound
INVARIANT LoadsTheFile
INVARIANT ShowsTheFiles
INVARIANT ReadsBack
INVARIANT ReadsExactly
INVARIANT ImageIntact
INVARIANT EntersRight
INVARIANT EndsInItsFunction
INVARIANT PrintsTheFormat
PROPERTY ShownIsExecuted
CHECK_DEADLOCK FALSE
