------------------------------ MODULE MVCCLevelDB ------------------------------
(***************************************************************************)
(* The multi-version store of server/mvcc_leveldb.go, with the entries of  *)
(* server/mvcc.go.  The database maps an encoded (key, version) pair to a  *)
(* value.  Version lockVer of a key holds its lock, version commitTS holds *)
(* a committed value, and version startTS holds a rollback tombstone.  The *)
(* encoding sorts a key's versions from newest to oldest with the lock     *)
(* first, so a forward iterator meets the lock and then the newest value.  *)
(*                                                                         *)
(* Every handler runs under MVCCLevelDB.mu from its first read to the      *)
(* write of its batch, so every handler is one action.  The handlers are   *)
(* parameterised actions; a module that EXTENDS this one supplies callers. *)
(*                                                                         *)
(* Keys are positive numbers in byte order and the empty byte string is 0. *)
(***************************************************************************)
EXTENDS Integers

CONSTANTS Key,         \* the user keys
          Value,       \* the values a mutation carries
          EmptyValue,  \* the zero-length value
          NoLock,      \* marks a key that has no entry at version lockVer
          MaxUint64,   \* the largest number of the machine word
          LogicalSize  \* how many timestamps share one physical tick

ASSUME KeyAssumption == Key \subseteq Nat \ {0}

ASSUME WordAssumption == /\ MaxUint64 \in Nat \ {0}
                         /\ LogicalSize \in Nat \ {0}

ASSUME ValueAssumption == EmptyValue \in Value

Uint64 == 0 .. MaxUint64

\* The sum or the difference n of two uint64 numbers wraps around.
Wrap(n) == IF n > MaxUint64 THEN n - (MaxUint64 + 1)
           ELSE IF n < 0 THEN n + (MaxUint64 + 1)
           ELSE n

lockVer == MaxUint64

EmptyKey == 0

Op == {"Put", "Del", "Lock", "Insert"}

Mutation == [op : Op, value : Value]

mvccLock == [startTS : Uint64, primary : Key, value : Value, op : Op,
             ttl : Uint64, minCommitTS : Uint64]

mvccValue == [valueType : {"Put", "Delete", "Rollback"},
              startTS : Uint64, commitTS : Uint64, value : Value]

ASSUME NoLockAssumption == NoLock \notin mvccLock

VARIABLES lock,   \* lock[k]: the entry of k at version lockVer
          writes  \* writes[k]: the entries of k at every other version

db == <<lock, writes>>

DBTypeOK == /\ lock \in [Key -> mvccLock \cup {NoLock}]
            /\ writes \in [Key -> SUBSET mvccValue]

InitDB == /\ lock = [k \in Key |-> NoLock]
          /\ writes = [k \in Key |-> {}]

--------------------------------------------------------------------------------
(* Entries *)

\* batch.Put(mvccEncode(key, v.commitTS), v): a put replaces the entry that
\* has the same key and version.
PutValue(ws, v) == {w \in ws : w.commitTS # v.commitTS} \cup {v}

\* What UnmarshalBinary reads back of a lock that MarshalBinary wrote.  The
\* field minCommitTS is not written and comes back as zero.
MarshalBinary(l) == [l EXCEPT !.minCommitTS = 0]

\* The first entry of a set that a forward iterator meets.
Newest(ws) == CHOOSE w \in ws : \A x \in ws : x.commitTS =< w.commitTS

Committed(w) == w.valueType # "Rollback"

\* The key holds a lock and the lock is that of transaction startTS.
LockedBy(k, startTS) == lock[k] # NoLock /\ lock[k].startTS = startTS

\* getTxnCommitInfo returns the newest of these, if there is one.
TxnInfos(k, startTS) == {w \in writes[k] : w.startTS = startTS}

getTxnCommitInfo(k, startTS) == Newest(TxnInfos(k, startTS))

AlreadyCommitted(k, startTS) == /\ TxnInfos(k, startTS) # {}
                                /\ Committed(getTxnCommitInfo(k, startTS))

InRange(k, startKey, endKey) == /\ startKey =< k
                                /\ endKey = EmptyKey \/ k < endKey

--------------------------------------------------------------------------------
(* Reads *)

\* Mutant: the lock of a delete does not stop a read.
BlocksOnlyPuts(l, ts, k) == /\ l.startTS =< ts
                            /\ l.op = "Put"
                            /\ ~ (ts = MaxUint64 /\ l.primary = k)

\* mvccLock.check refuses the read with ErrLocked.
Blocks(l, ts, k) == /\ l.startTS =< ts
                    /\ l.op # "Lock"
                    /\ ~ (ts = MaxUint64 /\ l.primary = k)

\* Mutant: off by one.
CheckedTSTooOld(l, ts) == IF l.startTS > ts \/ l.op = "Lock" THEN ts
                          ELSE Wrap(l.startTS - 2)

\* The timestamp mvccLock.check lets the read continue with.
CheckedTS(l, ts) == IF l.startTS > ts \/ l.op = "Lock" THEN ts
                    ELSE Wrap(l.startTS - 1)

\* Mutant: compares the start timestamp of a value with the snapshot.
VisibleByStart(k, ts) == {w \in writes[k] : Committed(w) /\ w.startTS =< ts}

Visible(k, ts) == {w \in writes[k] : Committed(w) /\ w.commitTS =< ts}

Locked(k) == [kind |-> "locked", key |-> k, primary |-> lock[k].primary,
              startTS |-> lock[k].startTS, ttl |-> lock[k].ttl]

NotFound == [kind |-> "notfound"]

Found(v) == [kind |-> "value", value |-> v]

getValue(k, ts, isoLevel) ==
  LET checked == lock[k] # NoLock /\ isoLevel = "SI"
      seen    == Visible(k, IF checked THEN CheckedTS(lock[k], ts) ELSE ts)
  IN  IF checked /\ Blocks(lock[k], ts, k) THEN Locked(k)
      ELSE IF seen = {} \/ Newest(seen).valueType = "Delete" THEN NotFound
      ELSE Found(Newest(seen).value)

ScanLock(startKey, endKey, maxTS) ==
  {k \in Key : /\ InRange(k, startKey, endKey)
               /\ lock[k] # NoLock
               /\ lock[k].startTS =< maxTS}

--------------------------------------------------------------------------------
(* Prewrite *)

\* Mutant: a tombstone of the same transaction is no conflict.
WriteConflictAbove(k, startTS) == \E w \in writes[k] : w.commitTS > startTS

\* Mutant: compares start timestamps.
WriteConflictByStart(k, startTS) == \E w \in writes[k] : w.startTS >= startTS

\* Any entry at or above startTS is a write conflict, a rollback included.
WriteConflict(k, startTS) == \E w \in writes[k] : w.commitTS >= startTS

prewriteOK(k, startTS) == \/ LockedBy(k, startTS)
                          \/ lock[k] = NoLock /\ ~ WriteConflict(k, startTS)

PrewriteOK(mutations, startTS) ==
  \A k \in DOMAIN mutations : prewriteOK(k, startTS)

\* Mutant: the primary is not stored.
newLockNoPrimary(m, primary, startTS, ttl) ==
  MarshalBinary([startTS |-> startTS, primary |-> EmptyKey, value |-> m.value,
                 op |-> m.op, ttl |-> ttl, minCommitTS |-> 0])

newLock(m, primary, startTS, ttl) ==
  MarshalBinary([startTS |-> startTS, primary |-> primary, value |-> m.value,
                 op |-> m.op, ttl |-> ttl, minCommitTS |-> 0])

\* mutations is a function from the keys of the request to their mutations.
Prewrite(mutations, primary, startTS, ttl) ==
  \/ /\ PrewriteOK(mutations, startTS)
     /\ lock' = [k \in Key |->
                   IF k \in DOMAIN mutations /\ lock[k] = NoLock
                   THEN newLock(mutations[k], primary, startTS, ttl)
                   ELSE lock[k]]
     /\ UNCHANGED writes
  \/ ~ PrewriteOK(mutations, startTS) /\ UNCHANGED db

--------------------------------------------------------------------------------
(* Commit and rollback *)

commitLock(k, startTS, commitTS) ==
  IF lock[k].op = "Lock" THEN writes[k]
  ELSE PutValue(writes[k],
         [valueType |-> IF lock[k].op = "Put" THEN "Put" ELSE "Delete",
          startTS |-> startTS, commitTS |-> commitTS, value |-> lock[k].value])

Tombstone(startTS) == [valueType |-> "Rollback", startTS |-> startTS,
                       commitTS |-> startTS, value |-> EmptyValue]

\* Mutant: older tombstones are collapsed into the new one.
rollbackLockCollapse(k, startTS) ==
  PutValue({w \in writes[k] : Committed(w)}, Tombstone(startTS))

\* Mutant: the lock goes and no tombstone is left.
rollbackLockNoTombstone(k, startTS) == writes[k]

rollbackLock(k, startTS) == PutValue(writes[k], Tombstone(startTS))

\* Deletes the locks of ks and leaves the other locks alone.
DeleteLocks(ks) == [k \in Key |-> IF k \in ks THEN NoLock ELSE lock[k]]

\* Mutant: a commit that was done before is not recognised.
commitOKNoRetry(k, startTS) == LockedBy(k, startTS)

\* Mutant: any record of the transaction passes for a commit.
commitOKAnyRecord(k, startTS) ==
  LockedBy(k, startTS) \/ TxnInfos(k, startTS) # {}

commitOK(k, startTS) == LockedBy(k, startTS) \/ AlreadyCommitted(k, startTS)

CommitOK(keys, startTS) == \A k \in keys : commitOK(k, startTS)

Commit(keys, startTS, commitTS) ==
  LET own == {k \in keys : LockedBy(k, startTS)}
  IN  \/ /\ CommitOK(keys, startTS)
         /\ lock' = DeleteLocks(own)
         /\ writes' = [k \in Key |-> IF k \in own
                                     THEN commitLock(k, startTS, commitTS)
                                     ELSE writes[k]]
      \/ ~ CommitOK(keys, startTS) /\ UNCHANGED db

rollbackOK(k, startTS) == LockedBy(k, startTS) \/ ~ AlreadyCommitted(k, startTS)

RollbackOK(keys, startTS) == \A k \in keys : rollbackOK(k, startTS)

\* A key that has neither a lock nor a record of the transaction gets a
\* tombstone too, so that a late prewrite finds a conflict.
rollbackKey(k, startTS) ==
  IF LockedBy(k, startTS) \/ TxnInfos(k, startTS) = {}
  THEN rollbackLock(k, startTS)
  ELSE writes[k]

Rollback(keys, startTS) ==
  \/ /\ RollbackOK(keys, startTS)
     /\ lock' = DeleteLocks({k \in keys : LockedBy(k, startTS)})
     /\ writes' = [k \in Key |-> IF k \in keys THEN rollbackKey(k, startTS)
                                 ELSE writes[k]]
  \/ ~ RollbackOK(keys, startTS) /\ UNCHANGED db

Cleanup(k, startTS) == Rollback({k}, startTS)

--------------------------------------------------------------------------------
(* Resolution of the locks of another transaction *)

ExtractPhysical(ts) == ts \div LogicalSize

Expired(l, currentTS) ==
  Wrap(ExtractPhysical(l.startTS) + l.ttl) < ExtractPhysical(currentTS)

PushMinCommitTS(l, callerStartTS, currentTS) ==
  LET next   == Wrap(callerStartTS + 1)
      pushed == IF l.minCommitTS > 0 /\ l.minCommitTS < next THEN next
                ELSE l.minCommitTS
  IN  [l EXCEPT !.minCommitTS = IF pushed < currentTS THEN currentTS ELSE pushed]

\* The answer of CheckTxnStatus.  A transaction that has neither a lock nor a
\* record is reported like one that was rolled back, and gets no tombstone.
TxnStatus(k, lockTS, currentTS) ==
  [ttl      |-> IF LockedBy(k, lockTS) /\ ~ Expired(lock[k], currentTS)
                THEN lock[k].ttl ELSE 0,
   commitTS |-> IF ~ LockedBy(k, lockTS) /\ AlreadyCommitted(k, lockTS)
                THEN getTxnCommitInfo(k, lockTS).commitTS ELSE 0]

CheckTxnStatus(k, lockTS, callerStartTS, currentTS) ==
  \/ /\ LockedBy(k, lockTS) /\ Expired(lock[k], currentTS)
     /\ lock' = DeleteLocks({k})
     /\ writes' = [writes EXCEPT ![k] = rollbackLock(k, lockTS)]
  \/ /\ LockedBy(k, lockTS) /\ ~ Expired(lock[k], currentTS)
     /\ lock' = [lock EXCEPT ![k] =
                   MarshalBinary(PushMinCommitTS(@, callerStartTS, currentTS))]
     /\ UNCHANGED writes
  \/ ~ LockedBy(k, lockTS) /\ UNCHANGED db

\* The entries of k after its lock is committed, or rolled back if commitTS = 0.
resolveLock(k, startTS, commitTS) ==
  IF commitTS > 0 THEN commitLock(k, startTS, commitTS)
  ELSE rollbackLock(k, startTS)

\* txnInfos is a function from start timestamps to commit timestamps.
BatchResolveLock(startKey, endKey, txnInfos) ==
  LET hit == {k \in Key : /\ InRange(k, startKey, endKey)
                          /\ lock[k] # NoLock
                          /\ lock[k].startTS \in DOMAIN txnInfos}
  IN  /\ lock' = DeleteLocks(hit)
      /\ writes' = [k \in Key |->
                      IF k \in hit
                      THEN resolveLock(k, lock[k].startTS, txnInfos[lock[k].startTS])
                      ELSE writes[k]]

\* Mutant: only the locks of a committed transaction are resolved.
ResolveLockCommitted(startKey, endKey, startTS, commitTS) ==
  LET hit == {k \in Key : /\ commitTS > 0
                          /\ InRange(k, startKey, endKey) /\ LockedBy(k, startTS)}
  IN  /\ lock' = DeleteLocks(hit)
      /\ writes' = [k \in Key |-> IF k \in hit
                                  THEN resolveLock(k, startTS, commitTS)
                                  ELSE writes[k]]

ResolveLock(startKey, endKey, startTS, commitTS) ==
  LET hit == {k \in Key : InRange(k, startKey, endKey) /\ LockedBy(k, startTS)}
  IN  /\ lock' = DeleteLocks(hit)
      /\ writes' = [k \in Key |-> IF k \in hit
                                  THEN resolveLock(k, startTS, commitTS)
                                  ELSE writes[k]]

\* The limit is the encoding of endKey, and the encoding of the empty key is
\* the smallest one: an empty endKey deletes nothing.
DeleteRange(startKey, endKey) ==
  LET hit == {k \in Key : startKey =< k /\ k < endKey}
  IN  /\ lock' = DeleteLocks(hit)
      /\ writes' = [k \in Key |-> IF k \in hit THEN {} ELSE writes[k]]

================================================================================
