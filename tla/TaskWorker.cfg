SPECIFICATION FairSpec
CONSTANTS
  MaxTasks = 4
  MaxInprog = 2
INVARIANT PendingIsRecorded
PROPERTY TasksFinish
CHECK_DEADLOCK FALSE
