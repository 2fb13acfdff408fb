SPECIFICATION ScanSpec
CONSTANTS
  Key <- Keys
  Layouts <- Whole
  NumStores = 2
  Handler = {h1}
  Client = {c1}
  NoRegion = NoRegion
  TrustSplitReply = FALSE
  MaxRegions = 3
  RawKey <- KeyBytes
  StoredKey <- Stored
  ScanEnd <- Unbounded
  Limit = 2
PROPERTY RepliesStayInRegion
