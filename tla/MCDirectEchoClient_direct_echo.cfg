SPECIFICATION ClientSpec
CONSTANTS
  MaxPackets = 3
  MaxInbox = 3
  number_of_messages = 3
  MessageSize = 2
CHECK_DEADLOCK FALSE
INVARIANTS
  EndsAsMeant
PROPERTIES
  ProgramEnds
