SPECIFICATION FairSpec
CONSTANTS
  Capacity = 1
  MaxOut = 2
INVARIANTS Joined OutputComplete ResultFaithful
PROPERTY Returns
CHECK_DEADLOCK FALSE
