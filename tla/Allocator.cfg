SPECIFICATION FairSpec
CONSTANTS
  Sizes = {1, 17}
  SizeMod = 256
  MaxNodes = 3
  Values = {v1}
  Zero = Zero
  Junk = Junk
INVARIANTS
  FreeListIsChain
  NodesPartitioned
  BlocksFit
PROPERTIES
  ReuseFirstFit
  ImplementsHeap
  CallsReturn
CHECK_DEADLOCK FALSE
