SPECIFICATION Spec
CONSTANTS
  Workers = {w1, w2}
  MaxFiles = 3
  None = None
INVARIANT CancellationReturned
