SPECIFICATION ServerSpec
CONSTANTS
  MaxPackets = 4
  Backlog = 3
  Clients = 8
CHECK_DEADLOCK FALSE
PROPERTIES
  ClientsAnswered
  EndsOnReset
