SPECIFICATION Spec
CONSTANTS
  t1 = t1
  t2 = t2
  r1 = r1
  v0 = v0
  v1 = v1
  Key <- TwoKeys
  Value = {v0, v1}
  EmptyValue = v0
  NoLock = NoLock
  MaxUint64 = 15
  LogicalSize = 1
  Txn = {t1, t2, r1}
  Mutations <- Writers
  Primary <- WritersPrimary
  Regions <- SplitRegions
  TTL = 1
  MaxTS = 5
  PrimaryFirst = TRUE
  Readers = {r1}
INVARIANTS
  TypeOK
  Atomicity
  SuccessIsDurable
  FailureLeavesNothing
  RepeatableReads
  NoFracturedReads
  RolledBackStaysSo
  SnapshotIsolation
PROPERTY ImplementsTransactions
