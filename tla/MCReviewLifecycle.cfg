CONSTANTS
  c = c
  d = d
  Codes = {c, d}
  Catalogue <- Shelf
  MaxScans = 3
  MaxActs = 3
  None = None
SPECIFICATION Spec
INVARIANTS NothingInvented KnownIsCounted OnePlaceholder GuessIsNotIdentity
PROPERTIES DecidedStands
CHECK_DEADLOCK FALSE
