SPECIFICATION FairSpec
CONSTANTS
  MaxReq = 3
INVARIANTS NoUseAfterFree NothingLeaks
PROPERTIES EveryRequestAnswered StopEnds ImplementsRpcQueue
CHECK_DEADLOCK FALSE
