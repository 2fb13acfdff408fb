SPECIFICATION PushSpec
CONSTANTS
  Key <- OneKey
  Value = {empty}
  EmptyValue = empty
  NoLock = NoLock
  MaxUint64 = 7
  LogicalSize = 2
  StartTS <- TwoStarts
  CommitTS <- TwoCommits
  Sent <- Sends
  TTL = {1}
  CurrentTS = {5}
INVARIANT MinCommitTSAboveCallers
