SPECIFICATION Spec
CONSTANTS
  Paths <- StreamPaths
  StdNames <- NoStd
  DollarNames <- Dollars
  MaxNodes = 2
  MaxStreams = 2
  Chunks <- TwoChunks
  MaxData = 3
  ReadSizes = {1, 2}
  SeekBy <- Offsets
  Chars <- SomeChars
  MemSize = 6
  Fraction = 4
  MaxInt = 3
  Numbers <- QuartersTo5
INVARIANTS HookHearsFile ReadsFile LibraryAgrees
