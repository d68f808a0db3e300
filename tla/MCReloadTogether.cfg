SPECIFICATION Spec
CONSTANTS
  Tenants = {A, B}
  MaxScans = 2
  MaxSessions = 2
  MaxProducts = 1
  MaxLoads = 3
  None = None
  May <- Together
SYMMETRY Businesses
INVARIANTS TenantOnly CountsCoverFeed LoadSettles
PROPERTIES CountsNeverDrop UnsyncedStaysOnScreen Converges
CHECK_DEADLOCK FALSE
