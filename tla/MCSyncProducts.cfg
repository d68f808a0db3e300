CONSTANTS
  Items <- MCItems
  Item <- MCItem
  Keys = {"k1", "k2", "k3"}
  Entities = {"A", "B"}
  Events = {}
  Tenants = {"b1"}
  None = None
  Passes = {p1, p2}
  Slots = 2
  Chunk = 2
  SyncedCap = 1
  Lane = Lane
  Orphan = Orphan
  May = {"fail", "timeout", "stale", "clear"}
SPECIFICATION Spec
INVARIANTS PhysicalCeiling
CHECK_DEADLOCK FALSE
SYMMETRY Symmetry
