CONSTANTS
  Items <- MCItems
  Item <- MCItem
  Keys = {"k1", "k2", "k3"}
  Entities = {"row1", "s2"}
  Events = {"ev1"}
  Tenants = {"b1"}
  None = None
  Passes = {p1, p2}
  Slots = 1
  Chunk = 2
  SyncedCap = 0
  Lane = Lane
  Orphan = Orphan
  May = {"timeout", "stale", "crash"}
SPECIFICATION Spec
INVARIANTS NothingLost OncePerEvent DequeuedIsSynced
PROPERTIES LedgerSpec
CHECK_DEADLOCK FALSE
SYMMETRY Symmetry
