SPECIFICATION Spec
CONSTANTS
  t1 = t1
  t2 = t2
  r1 = r1
  v0 = v0
  v1 = v1
  Key <- TwoKeys
  Value = {v0, v1}
  EmptyValue = v0
  NoLock = NoLock
  MaxUint64 = 15
  LogicalSize = 1
  Txn = {t1}
  Mutations <- Locker
  Primary <- LockerPrimary
  Regions <- SplitRegions
  TTL = 1
  MaxTS = 2
  PrimaryFirst = TRUE
  Readers = {}
INVARIANT CommittedIsNotRolledBack
