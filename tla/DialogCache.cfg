SPECIFICATION Spec
CONSTANTS
  Users = {u}
  Channels = {c}
  None = None
  MaxMessages = 2
  MaxRefresh = 2
  MaxCrashes = 1
INVARIANTS
  RecordsFirst
  CachedKept
  SnapshotIsIndex
CHECK_DEADLOCK FALSE
