SPECIFICATION Spec
CONSTANTS
  Files = {"clip", "doc", "photo", "thumbs"}
  Dirs = {"folder", "sub"}
  Videos = {"clip", "photo"}
  Images = {}
  System = {"thumbs"}
  Pathless = {}
  History <- MCHistory
  Listing <- MCListing
  Below <- MCBelow
  Target <- MCTarget
  Size <- MCSize
  Bytes <- MCBytes
  Limit = 2
  PageSize = 1
  MaxParts = 2
  MaxChanges = 0
INVARIANT StreamsTried
CHECK_DEADLOCK FALSE
