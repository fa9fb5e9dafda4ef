SPECIFICATION TransferSpec
CONSTANTS
  Workers = {w1}
  Paths = {"d"}
  PathSets <- MCOneSet
  Size = 2
  Retries = 2
  Copies <- MCOneCopies
  None = None
  Closed = Closed
  Orphan = Orphan
PROPERTY DownloadedIntact
