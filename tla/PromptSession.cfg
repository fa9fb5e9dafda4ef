SPECIFICATION FairSpec
CONSTANTS
  Capacity = 1
  MaxRuns = 2
  MaxOut = 2
INVARIANTS
  TypeOK
  OutputBeforePrompt
  OwnResults
  Joined
PROPERTIES
  Returns
CHECK_DEADLOCK FALSE
