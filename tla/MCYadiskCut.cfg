SPECIFICATION Spec
CONSTANTS
  Files = {"clip", "doc", "photo", "thumbs"}
  Dirs = {"folder", "sub"}
  Videos = {"clip"}
  Images = {"photo"}
  System = {"thumbs"}
  Pathless = {}
  History <- MCHistory
  Listing <- MCListing
  Below <- MCBelow
  Target <- MCTarget
  Size <- MCCutSize
  Bytes <- MCCutBytes
  Limit = 2
  PageSize = 1
  MaxParts = 2
  MaxChanges = 0
INVARIANT DiskWhole
CHECK_DEADLOCK FALSE
