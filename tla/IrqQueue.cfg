SPECIFICATION FairSpec
CONSTANTS
  Cap = 2
  PacketCap = 2
  MaxBytes = 4
INVARIANTS
  TypeOK
  LockDiscipline
  Accounted
  NoStrandedByte
PROPERTIES
  LossOnlyInSnapshot
  ImplementsInputLog
  WakeupDelivers
CHECK_DEADLOCK FALSE
