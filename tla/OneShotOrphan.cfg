SPECIFICATION FairSpec
CONSTANTS
  Capacity = 1
  MaxOut = 1
INVARIANT AllJoined
CHECK_DEADLOCK FALSE
