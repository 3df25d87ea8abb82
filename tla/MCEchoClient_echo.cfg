SPECIFICATION ClientSpec
CONSTANTS
  PollIds = {p1, p2}
  MaxInbox = 3
  LosesPolls = TRUE
  OneAtATime = FALSE
  CallbacksThrow = TRUE
  number_of_messages = 3
  MessageSize = 2
CHECK_DEADLOCK FALSE
INVARIANTS
  WaitsForOneThing
  EndsAsMeant
PROPERTIES
  ProgramEnds
