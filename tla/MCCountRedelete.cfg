CONSTANTS
  Codes = {"c1", "c2"}
  Catalogue <- OneProduct
  MaxScans = 2
  MaxProducts = 4
  MaxSessions = 1
  MaxRows = 4
  None = None
  May = {"redelete"}
SPECIFICATION Spec
INVARIANTS CloudAgrees
CHECK_DEADLOCK FALSE
