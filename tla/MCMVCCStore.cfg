SPECIFICATION Spec
CONSTANTS
  Key <- TwoKeys
  Value = {empty, v}
  EmptyValue = empty
  NoLock = NoLock
  MaxUint64 = 7
  LogicalSize = 2
  StartTS <- TwoStarts
  CommitTS <- ThreeCommits
  Sent <- Sends
  TTL = {1}
  CurrentTS = {4, 7}
INVARIANTS
  DBTypeOK
  FirstCommitterWins
  OneOutcomePerKey
  PointGetSeesNewest
  ScanAgreesWithGets
  ReverseScanAgreesWithGets
PROPERTIES
  EntriesStay
  AnswersAreFinal
