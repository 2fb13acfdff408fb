SPECIFICATION Spec
CONSTANTS
  Key <- FourKeys
  Layouts <- Valid
  NumStores = 2
  Handler = {h1, h2}
  Client = {c1}
  NoRegion = NoRegion
  TrustSplitReply = FALSE
  MaxRegions = 4
INVARIANTS TypeOK Covered NoPanic
