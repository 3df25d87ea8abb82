SPECIFICATION FairSpec
CONSTANTS
  PollIds = {p1, p2}
  MaxInbox = 2
  LosesPolls = TRUE
  OneAtATime = TRUE
  CallbacksThrow = FALSE
CHECK_DEADLOCK FALSE
INVARIANTS
  OnePollOutstanding
  DisconnectedOnce
PROPERTIES
  SilentAfterDisconnected
  ReaderWoken
  WriterWoken
