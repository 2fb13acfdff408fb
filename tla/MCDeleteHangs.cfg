SPECIFICATION FairSpec
CONSTANTS
  NumStores = 1
  Api = {a1}
  Creator = Creator
  Rpc = {r1}
  Kinds = {"region"}
  Nobody = Nobody
PROPERTY DeleteReturns
CHECK_DEADLOCK FALSE
