SPECIFICATION TransferSpec
CONSTANTS
  Workers = {w1, w2}
  Paths = {"d"}
  PathSets <- MCOneSet
  Size = 2
  Retries = 1
  Copies <- MCOneCopies
  None = None
  Closed = Closed
  Orphan = Orphan
PROPERTY DownloadedIntact
