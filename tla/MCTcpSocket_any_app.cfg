SPECIFICATION Spec
CONSTANTS
  PollIds = {p1, p2}
  MaxInbox = 2
  LosesPolls = TRUE
  OneAtATime = FALSE
  CallbacksThrow = TRUE
SYMMETRY PollSymmetry
CHECK_DEADLOCK FALSE
INVARIANTS
  TypeOK
  NoForgottenWait
  BoundedReentrancy
  NoCallIntoDestroyedSocket
  CloseReportedUnlessRaced
PROPERTIES
  NeverRevived
  TellsInOrder
