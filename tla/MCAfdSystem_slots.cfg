SPECIFICATION Spec
CONSTANTS
  Sockets = {a, b, c}
  NoSocket = NoSocket
  NumSlots = 2
  PollIds = {p1, p2}
SYMMETRY Symmetry
CHECK_DEADLOCK FALSE
INVARIANTS
  TypeOK
  ServesLiveSockets
  DispatchInBounds
  InterestCurrent
