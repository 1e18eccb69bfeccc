SPECIFICATION Spec
CONSTANTS
  Paths <- TreePaths
  StdNames <- OneStd
  DollarNames <- Dollars
  MaxNodes = 5
  MaxStreams = 1
  Chunks <- OneChunk
  MaxData = 1
  ReadSizes = {}
  SeekBy = {}
  Chars <- OnlyNul
  MemSize = 1
  Fraction = 4
  MaxInt = 3
  Numbers <- QuartersTo5
INVARIANTS TreeOK ListingIsChildren
PROPERTY ImplementsFileStore
