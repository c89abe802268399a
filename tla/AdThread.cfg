SPECIFICATION FairSpec
CONSTANTS
  Callers = {"a", "b"}
  MaxRuns = 3
  MaxPosts = 4
INVARIANTS OneThread StoppedIsQuiet
PROPERTIES CallsReturn WakeupsServed
CHECK_DEADLOCK FALSE
