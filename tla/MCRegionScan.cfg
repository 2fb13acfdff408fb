SPECIFICATION ScanSpec
CONSTANTS
  Key <- Keys
  Layouts <- Whole
  NumStores = 2
  Handler = {h1}
  Client = {c1}
  NoRegion = NoRegion
  TrustSplitReply = TRUE
  MaxRegions = 3
  RawKey <- KeyBytes
  StoredKey <- Stored
  ScanEnd <- Bounded
  Limit = 2
INVARIANTS ScanTypeOK ScanIsExact Partition NoPanic
PROPERTIES RepliesStayInRegion ScansMoveForward ScanFinishes
