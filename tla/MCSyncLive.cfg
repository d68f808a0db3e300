CONSTANTS
  Items <- MCItems
  Item <- MCItem
  Keys = {"k1", "k2"}
  Entities = {"A", "ev1"}
  Events = {"ev1"}
  Tenants = {"b1"}
  None = None
  Passes = {p1, p2}
  Slots = 1
  Chunk = 10
  SyncedCap = 1
  Lane = Lane
  Orphan = Orphan
  May = {"stale", "retry", "offline", "signout", "clear"}
SPECIFICATION FairSpec
PROPERTIES Drains
CHECK_DEADLOCK FALSE
