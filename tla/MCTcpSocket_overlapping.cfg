SPECIFICATION FairSpec
CONSTANTS
  PollIds = {p1, p2}
  MaxInbox = 1
  LosesPolls = FALSE
  OneAtATime = FALSE
  CallbacksThrow = FALSE
CHECK_DEADLOCK FALSE
PROPERTIES
  ReaderWoken
