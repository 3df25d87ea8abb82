SPECIFICATION FairSpec
CONSTANTS
  MaxPackets = 3
  MaxInbox = 2
CHECK_DEADLOCK FALSE
INVARIANTS
  TypeOK
  NeverNested
  NoForgottenWait
  OneOutstanding
  DeletedSafely
PROPERTIES
  TellsInOrder
  CloseCompletes
  WaitersWoken
