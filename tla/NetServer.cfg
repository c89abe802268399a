SPECIFICATION Spec
CONSTANTS
  MaxConn = 2
  MaxSend = 3
  Fds = {3}
  MaxPending = 1
INVARIANTS RightClient CountIsExact EveryFdWatched StopLeavesNothing
