SPECIFICATION ConnectionSpec
CONSTANTS
  MaxPackets = 2
  MaxInbox = 3
  BufferSize = 2
  MaxSent = 4
CHECK_DEADLOCK FALSE
INVARIANTS
  ConnectionTypeOK
  EchoesEverything
PROPERTIES
  ConnectionEnds
  AllEchoed
