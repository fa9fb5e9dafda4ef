SPECIFICATION FairSpec
CONSTANTS
  Files = {"clip", "doc", "photo", "thumbs"}
  Dirs = {"folder", "sub"}
  Videos = {"clip"}
  Images = {"photo"}
  System = {"thumbs"}
  Pathless = {}
  History <- MCHistory
  Listing <- MCListing
  Below <- MCBelow
  Target <- MCTarget
  Size <- MCSize
  Bytes <- MCBytes
  Limit = 2
  PageSize = 1
  MaxParts = 2
  MaxChanges = 1
INVARIANTS TypeOK DiskSound AllListed
PROPERTIES Ends
CHECK_DEADLOCK FALSE
