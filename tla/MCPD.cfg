SPECIFICATION PDSpec
CONSTANTS
  NumStores = 2
  Api = {a1, a2}
  Creator = Creator
  Rpc = {r1, r2}
  Kinds = {"region", "stream"}
  Nobody = Nobody
  Clock = {1, 2}
  SafePoint = {0, 1}
  MaxLogical = 2
INVARIANTS PDTypeOK OnlyEarlyPanics StoppedIsQuiet TimestampsAreFresh SafePointIsKept
PROPERTIES TsoAnswered
CHECK_DEADLOCK FALSE
