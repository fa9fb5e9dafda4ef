SPECIFICATION FairSpec
CONSTANTS
  Workers = {w1, w2}
  MaxFiles = 3
  None = None
INVARIANTS
  NoSendOnClosed
  RowsClosed
PROPERTIES
  LedgerSpec
  RunEnds
