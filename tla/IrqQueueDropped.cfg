SPECIFICATION Spec
CONSTANTS
  Cap = 2
  PacketCap = 2
  MaxBytes = 2
INVARIANT
  DelayedNotDropped
CHECK_DEADLOCK FALSE
