SPECIFICATION Spec
CONSTANTS
  MaxPackets = 4
  Backlog = 3
CHECK_DEADLOCK FALSE
INVARIANTS
  TypeOK
  KeepsListening
  ReportsClose
  ThrowsOnlyIfRaced
