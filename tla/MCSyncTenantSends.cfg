CONSTANTS
  Items <- MCItems
  Item <- MCItem
  Keys = {"k1", "k2", "k3"}
  Entities = {"A", "C"}
  Events = {}
  Tenants = {"b1", "b2"}
  None = None
  Passes = {p1, p2}
  Slots = 1
  Chunk = 10
  SyncedCap = 1
  Lane = Lane
  Orphan = Orphan
  May = {"switch", "timeout", "fail"}
SPECIFICATION Spec
PROPERTIES SentUnderItsBusiness
CHECK_DEADLOCK FALSE
SYMMETRY Symmetry
