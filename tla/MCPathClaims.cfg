SPECIFICATION Spec
CONSTANTS
  Identity <- MCIdentity
  Logical <- MCDirs
  Path <- MCDirsPath
  Requests <- MCDirsRequests
  Suffix = {1}
  Identified <- MCDirsIdentified
  Legacy = {"d"}
  SizeOf <- MCDirsSizeOf
  Stable <- MCIdentity
  Options <- MCOptions
  Losses = {"run"}
  None = None
  Foreign = Foreign
INVARIANTS
  ExclusivePaths
  OneAuthor
  NamesStable
PROPERTIES
  NoClobber
  DryRunInert
