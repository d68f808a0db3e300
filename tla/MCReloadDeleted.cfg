SPECIFICATION Spec
CONSTANTS
  Tenants = {A}
  MaxScans = 2
  MaxSessions = 1
  MaxProducts = 2
  MaxLoads = 2
  None = None
  May <- Reloading
INVARIANTS CountsAreScans
CHECK_DEADLOCK FALSE
