SPECIFICATION Spec
CONSTANTS
  Identity <- MCIdentity
  Logical <- MCDirs
  Path <- MCDirsPath
  Requests <- MCDirsRequests
  Suffix = {1}
  Identified <- MCDirsIdentified
  Legacy = {"d"}
  SizeOf <- MCDirsSizeOf
  Stable <- MCIdentity
  Options <- MCOptions
  Losses = {"run", "gap"}
  None = None
  Foreign = Foreign
INVARIANT NamesStable
