SPECIFICATION Spec
CONSTANTS
  Tenants = {A}
  MaxScans = 2
  MaxSessions = 2
  MaxProducts = 2
  MaxLoads = 2
  None = None
  May <- Alone
INVARIANTS CountsAreScans
CHECK_DEADLOCK FALSE
