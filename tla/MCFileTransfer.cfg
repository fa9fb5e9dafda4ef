SPECIFICATION TransferSpec
CONSTANTS
  Workers = {w1, w2}
  Paths = {"d", "t"}
  PathSets <- MCBothSets
  Size = 2
  Retries = 2
  Copies <- MCBothCopies
  None = None
  Closed = Closed
  Orphan = Orphan
INVARIANTS
  PrefixOnDisk
PROPERTIES
  EarlierDataKept
  CountedWhole
