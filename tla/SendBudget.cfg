SPECIFICATION BudgetSpec
CONSTANTS
  Timeout = 2
  Budget = 3
  Window = 6
  MaxClock = 16
INVARIANT TwiceTheBudget
CHECK_DEADLOCK FALSE
