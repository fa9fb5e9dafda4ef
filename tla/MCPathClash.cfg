SPECIFICATION Spec
CONSTANTS
  Identity <- MCClashIdentity
  Logical <- MCClash
  Path <- MCClashPath
  Requests <- MCClashRequests
  Suffix = {1, 2}
  Identified <- MCClashIdentified
  Legacy = {"v_a"}
  SizeOf <- MCClashSizeOf
  Stable <- MCClashIdentity
  Options <- MCOptions
  Losses = {"run"}
  None = None
  Foreign = Foreign
INVARIANT OneAuthor
