CONSTANTS
  Reviews = {r1, r2, r3}
  Width = 2
  Rate = 2
  Burst = 2
  Threshold = 2
  Cooldown = 2
  DailyLimit = 2
  MaxAsks = 5
  None = None
SPECIFICATION FairSpec
INVARIANTS NoStall RateKept
PROPERTIES OpenStands EveryTaskEnds
CHECK_DEADLOCK FALSE
