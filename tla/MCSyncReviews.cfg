CONSTANTS
  Items <- MCItems
  Item <- MCItem
  Keys = {"k1", "k2"}
  Entities = {"review"}
  Events = {}
  Tenants = {"b1"}
  None = None
  Passes = {p1, p2}
  Slots = 1
  Chunk = 1
  SyncedCap = 1
  Lane = Lane
  Orphan = Orphan
  May = {"timeout", "deny", "retry", "crash", "stale", "discard"}
SPECIFICATION Spec
INVARIANTS NewestDecisionStands
PROPERTIES NoResurrection
CHECK_DEADLOCK FALSE
SYMMETRY Symmetry
