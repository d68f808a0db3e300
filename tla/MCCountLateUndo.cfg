CONSTANTS
  Codes = {"c1", "c2"}
  Catalogue <- OneProduct
  MaxScans = 2
  MaxProducts = 4
  MaxSessions = 2
  MaxRows = 4
  None = None
  May = {"lateundo"}
SPECIFICATION Spec
INVARIANTS TransfersNetZero
CHECK_DEADLOCK FALSE
