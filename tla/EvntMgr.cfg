SPECIFICATION FairSpec
CONSTANTS
  Ports = {1}
  Events = {1}
  MaxFailures = 2
  FailWindow = 1
  MaxQueued = 1
  MaxTokens = 2
  MaxNotify = 2
  MaxProcess = 1
  MaxClock = 1
INVARIANT NothingMissed
PROPERTIES OnlyDeadAreRemoved EventsLeave
CHECK_DEADLOCK FALSE
