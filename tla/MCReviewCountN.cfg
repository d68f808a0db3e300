CONSTANTS
  c = c
  d = d
  Codes = {c, d}
  Catalogue <- Shelf
  MaxScans = 2
  MaxActs = 1
  None = None
SPECIFICATION Spec
INVARIANTS ScanNCountN
CHECK_DEADLOCK FALSE
