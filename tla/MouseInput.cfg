SPECIFICATION Spec
CONSTANTS
  W = 5
  H = 4
  Heads <- MCHeads
  Moves <- MCMoves
  Scancodes <- MCScancodes
  MaxPackets = 3
  MaxKeys = 1
  MaxLog = 2
  BreakModes = {TRUE, FALSE}
INVARIANTS
  MisframedBounded
  PacketsOK
  HeldByRecentPacket
PROPERTIES
  PressReachesFrame
CHECK_DEADLOCK FALSE
