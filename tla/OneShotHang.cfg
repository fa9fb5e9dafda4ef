SPECIFICATION FairSpec
CONSTANTS
  Capacity = 1
  MaxOut = 1
PROPERTY AlwaysReturns
CHECK_DEADLOCK FALSE
