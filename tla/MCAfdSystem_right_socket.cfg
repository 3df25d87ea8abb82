SPECIFICATION Spec
CONSTANTS
  Sockets = {a, b}
  NoSocket = NoSocket
  NumSlots = 2
  PollIds = {p1, p2}
SYMMETRY Symmetry
CHECK_DEADLOCK FALSE
PROPERTIES
  RightSocketServed
