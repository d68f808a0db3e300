SPECIFICATION Spec
CONSTANTS
  Tenants = {A}
  MaxScans = 2
  MaxSessions = 1
  MaxProducts = 1
  MaxLoads = 2
  None = None
  May <- History
INVARIANTS LoadSettles
CHECK_DEADLOCK FALSE
