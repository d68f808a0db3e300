CONSTANTS
  Requests <- MCRequests
  Mixes <- MCMixes
  DailyLimit = 1
  Backstop = 2
  AccountLimit = 1
  BudgetCap = 3
  WorstCase = 2
  Costs = {1, 2}
  LastDay = 1
  MaxFaults = 1
  None = None
SPECIFICATION FairSpec
INVARIANTS CapsKept NothingStarved OvershootBounded
PROPERTIES JoinersEnd
CHECK_DEADLOCK FALSE
