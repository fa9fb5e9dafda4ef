SPECIFICATION Spec
CONSTANTS
  Users = {u}
  Channels = {c}
  None = None
  MaxMessages = 2
  MaxRefresh = 2
  MaxCrashes = 1
PROPERTIES
  ReportedReplaced
CHECK_DEADLOCK FALSE
