SPECIFICATION Spec
CONSTANT
  Trees <- MCTrees
  NameMax = 2
  PathMax = 8
  DepthMax = 3
  SectorSize = 32
  PerTrack = 3
  Turns = 5
  CodeSize = 5
  ConstSize = 3
  MaxFailures = 1
  Main <- MCMain
  KeyCodes <- MCKeyCodes
  Polls = 2
  Latency = 1
  MaxInput = 3
INVARIANTS InputIsHeard KernelArrives ImageUnpacked
PROPERTY EverythingIsLoaded
CHECK_DEADLOCK FALSE
