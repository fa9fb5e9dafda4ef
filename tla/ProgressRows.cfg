SPECIFICATION FairSpec
CONSTANTS
  Rows = {scan, file}
  Known = {file}
  Shared = {file}
  Ps = ps
  None = none
  Users = 2
  Capacity = 1
  MaxUpdates = 1
INVARIANTS
  TypeOK
  LastWord
  WaitedFor
PROPERTIES
  Settles
CHECK_DEADLOCK FALSE
