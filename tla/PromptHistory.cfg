SPECIFICATION Spec
CONSTANTS
  Lines = {"a", "b", "long"}
  Long = {"long"}
  Limits = {2, 3}
  MaxArgs = 3
  MaxSessions = 3
  MaxFaults = 1
  MaxEntered = 5
INVARIANTS
  RecallMatches
  NoSecrets
PROPERTIES
  NothingLost
CHECK_DEADLOCK FALSE
