SPECIFICATION FmtSpec
CONSTANTS
  CharBits = 3
  IntBits = 6
  LongLongBits = 9
  MemSize = 32
  Calls <- MCCalls
INVARIANTS SnprintfContract FieldExact ReadsBack
CHECK_DEADLOCK FALSE
