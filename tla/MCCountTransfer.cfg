CONSTANTS
  Codes = {"c1", "c2"}
  Catalogue <- OneProduct
  MaxScans = 3
  MaxProducts = 3
  MaxSessions = 2
  MaxRows = 3
  None = None
  May = {}
SPECIFICATION Spec
INVARIANTS ScanNCountN BooksBalance CloudAgrees TransfersNetZero
CHECK_DEADLOCK FALSE
