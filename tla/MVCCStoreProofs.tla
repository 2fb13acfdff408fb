---------------------------- MODULE MVCCStoreProofs ----------------------------
(***************************************************************************)
(* Proofs that the store of MVCCLevelDB keeps its promises for any keys,   *)
(* any timestamps and any order of calls.                                  *)
(*                                                                         *)
(* The argument is per key.  EntryStep lists what one call may do to the   *)
(* lock l and the entries ws of a key.  Every handler takes only such      *)
(* steps (lemma NextIsEntryStep), and such steps keep EntryInv (lemma      *)
(* EntryStepKeepsInv), the inductive invariant that ties a key's lock to   *)
(* its entries.  The theorems about the specification follow from it.      *)
(***************************************************************************)
EXTENDS MVCCStore, TLAPS

EntryInv(l, ws) ==
  /\ l # NoLock =>
       /\ l.startTS \in StartTS
       /\ \A w \in ws : /\ w.startTS # l.startTS
                        /\ Committed(w) => w.commitTS < l.startTS
  /\ \A w \in ws :
       /\ w.startTS \in StartTS
       /\ IF Committed(w) THEN w.commitTS \in CommitOf(w.startTS)
          ELSE w.commitTS = w.startTS
  /\ \A v, w \in ws : v.startTS = w.startTS => v = w
  /\ \A v, w \in ws : Committed(v) /\ Committed(w) /\ v # w =>
       v.commitTS < w.startTS \/ w.commitTS < v.startTS

IInv == /\ DBTypeOK
        /\ \A k \in Key : EntryInv(lock[k], writes[k])

\* A call locks the key for s, when no entry is at or above s.
Locks(l, ws, l2, ws2) ==
  /\ l = NoLock /\ l2 # NoLock /\ l2.startTS \in StartTS
  /\ \A w \in ws : ~ (w.commitTS >= l2.startTS)
  /\ ws2 = ws

\* A call commits the lock and may leave no entry for it.
Commits(l, ws, l2, ws2) ==
  /\ l # NoLock /\ l2 = NoLock
  /\ \/ ws2 = ws
     \/ \E v \in mvccValue : /\ Committed(v) /\ v.startTS = l.startTS
                             /\ v.commitTS \in CommitOf(l.startTS)
                             /\ ws2 = PutValue(ws, v)

\* A call rolls s back: its lock goes, if it has one, and a tombstone is put.
RollsBack(l, ws, l2, ws2) ==
  \E s \in StartTS :
    /\ \/ l # NoLock /\ l.startTS = s /\ l2 = NoLock
       \/ ~ (l # NoLock /\ l.startTS = s) /\ l2 = l /\ \A w \in ws : w.startTS # s
    /\ ws2 = PutValue(ws, Tombstone(s))

\* A call rewrites the lock of the same transaction, or does nothing.
Keeps(l, ws, l2, ws2) ==
  /\ ws2 = ws
  /\ l2 = l \/ (l # NoLock /\ l2 # NoLock /\ l2.startTS = l.startTS)

EntryStep(l, ws, l2, ws2) == \/ Locks(l, ws, l2, ws2)
                             \/ Commits(l, ws, l2, ws2)
                             \/ RollsBack(l, ws, l2, ws2)
                             \/ Keeps(l, ws, l2, ws2)

\* The oracle's timestamps are numbers, and none is used twice.
LEMMA Timestamps == /\ \A s \in StartTS : s \in Nat /\ s \notin CommitTS
                    /\ \A c \in CommitTS : c \in Nat
BY TimestampAssumption, WordAssumption DEF Uint64

\* Under the invariant the version a step puts is not taken: PutValue only adds.
LEMMA PutValueAdds ==
  ASSUME NEW ws, NEW v, \A w \in ws : w.commitTS # v.commitTS
  PROVE  PutValue(ws, v) = ws \cup {v}
BY DEF PutValue

\* A step of a key only adds entries, as long as timestamps are used once.
LEMMA EntryStepAdds ==
  ASSUME NEW l, NEW ws, NEW l2, NEW ws2,
         EntryInv(l, ws), EntryStep(l, ws, l2, ws2)
  PROVE  ws \subseteq ws2
<1>1. CASE Locks(l, ws, l2, ws2) BY <1>1 DEF Locks
<1>2. CASE Commits(l, ws, l2, ws2)
  <2>1. CASE ws2 = ws BY <2>1
  <2>2. ASSUME NEW v \in mvccValue, Committed(v), v.startTS = l.startTS,
               v.commitTS \in CommitOf(l.startTS), ws2 = PutValue(ws, v)
        PROVE  ws \subseteq ws2
    <3>1. l # NoLock BY <1>2 DEF Commits
    <3>2. ASSUME NEW w \in ws PROVE w.commitTS # v.commitTS
      <4>1. /\ w.startTS \in StartTS
            /\ Committed(w) => w.commitTS \in CommitTS /\ w.commitTS < l.startTS
            /\ ~ Committed(w) => w.commitTS = w.startTS
        BY <3>1 DEF EntryInv, CommitOf
      <4>2. v.commitTS \in CommitTS /\ v.commitTS > l.startTS /\ l.startTS \in StartTS
        BY <2>2, <3>1 DEF CommitOf, EntryInv
      <4> QED BY <4>1, <4>2, Timestamps DEF Committed
    <3> QED BY <2>2, <3>2, PutValueAdds
  <2> QED BY <1>2, <2>1, <2>2 DEF Commits
<1>3. CASE RollsBack(l, ws, l2, ws2)
  <2>1. PICK s \in StartTS :
          /\ \/ l # NoLock /\ l.startTS = s /\ l2 = NoLock
             \/ ~ (l # NoLock /\ l.startTS = s) /\ l2 = l /\ \A w \in ws : w.startTS # s
          /\ ws2 = PutValue(ws, Tombstone(s))
    BY <1>3 DEF RollsBack
  <2>2. \A w \in ws : w.startTS # s BY <2>1 DEF EntryInv
  <2>3. ASSUME NEW w \in ws PROVE w.commitTS # Tombstone(s).commitTS
    <3>1. IF Committed(w) THEN w.commitTS \in CommitTS ELSE w.commitTS = w.startTS
      BY DEF EntryInv, CommitOf
    <3>2. Tombstone(s).commitTS = s BY DEF Tombstone
    <3> QED BY <2>2, <3>1, <3>2, Timestamps
  <2> QED BY <2>1, <2>3, PutValueAdds
<1>4. CASE Keeps(l, ws, l2, ws2) BY <1>4 DEF Keeps
<1> QED BY <1>1, <1>2, <1>3, <1>4 DEF EntryStep

\* A step of a key keeps the invariant of the key.
LEMMA EntryStepKeepsInv ==
  ASSUME NEW l, NEW ws, NEW l2, NEW ws2,
         EntryInv(l, ws), EntryStep(l, ws, l2, ws2)
  PROVE  EntryInv(l2, ws2)
<1> USE Timestamps DEF Committed
<1>1. CASE Locks(l, ws, l2, ws2)
  <2>1. /\ l2.startTS \in StartTS
        /\ \A w \in ws : ~ (w.commitTS >= l2.startTS)
        /\ ws2 = ws
    BY <1>1 DEF Locks
  <2>2. ASSUME NEW w \in ws
        PROVE  w.startTS # l2.startTS /\ w.commitTS < l2.startTS
    <3>1. /\ w.startTS \in StartTS /\ w.commitTS \in StartTS \cup CommitTS
          /\ w.startTS =< w.commitTS
      BY DEF EntryInv, CommitOf
    <3> QED BY <2>1, <3>1
  <2> QED BY <2>1, <2>2 DEF EntryInv
<1>2. CASE Commits(l, ws, l2, ws2)
  <2>1. CASE ws2 = ws BY <1>2, <2>1 DEF Commits, EntryInv
  <2>2. ASSUME NEW v \in mvccValue, Committed(v), v.startTS = l.startTS,
               v.commitTS \in CommitOf(l.startTS), ws2 = PutValue(ws, v)
        PROVE  EntryInv(l2, ws2)
    <3>1. l # NoLock /\ l2 = NoLock BY <1>2 DEF Commits
    <3>2. ws2 \subseteq ws \cup {v} BY <2>2 DEF PutValue
    <3>3. \A w \in ws2 : /\ w.startTS \in StartTS
                         /\ IF Committed(w) THEN w.commitTS \in CommitOf(w.startTS)
                            ELSE w.commitTS = w.startTS
      BY <2>2, <3>1, <3>2 DEF EntryInv
    <3>4. \A w \in ws : /\ w.startTS # v.startTS
                        /\ Committed(w) => w.commitTS < v.startTS
      BY <2>2, <3>1 DEF EntryInv
    <3>5. \A u, w \in ws2 : u.startTS = w.startTS => u = w
      BY <3>2, <3>4 DEF EntryInv
    <3>6. \A u, w \in ws2 : Committed(u) /\ Committed(w) /\ u # w =>
            u.commitTS < w.startTS \/ w.commitTS < u.startTS
      BY <3>2, <3>4 DEF EntryInv
    <3> QED BY <3>1, <3>3, <3>5, <3>6 DEF EntryInv
  <2> QED BY <1>2, <2>1, <2>2 DEF Commits
<1>3. CASE RollsBack(l, ws, l2, ws2)
  <2>1. PICK s \in StartTS :
          /\ \/ l # NoLock /\ l.startTS = s /\ l2 = NoLock
             \/ ~ (l # NoLock /\ l.startTS = s) /\ l2 = l /\ \A w \in ws : w.startTS # s
          /\ ws2 = PutValue(ws, Tombstone(s))
    BY <1>3 DEF RollsBack
  <2> DEFINE t == Tombstone(s)
  <2>2. t.startTS = s /\ t.commitTS = s /\ ~ Committed(t) BY DEF Tombstone
  <2>3. ws2 \subseteq ws \cup {t} BY <2>1 DEF PutValue
  <2>4. \A w \in ws : w.startTS # s BY <2>1 DEF EntryInv
  <2> HIDE DEF t
  <2>5. l2 # NoLock =>
          /\ l2.startTS \in StartTS
          /\ \A w \in ws2 : /\ w.startTS # l2.startTS
                            /\ Committed(w) => w.commitTS < l2.startTS
    BY <2>1, <2>2, <2>3 DEF EntryInv
  <2>6. \A w \in ws2 : /\ w.startTS \in StartTS
                       /\ IF Committed(w) THEN w.commitTS \in CommitOf(w.startTS)
                          ELSE w.commitTS = w.startTS
    BY <2>2, <2>3 DEF EntryInv
  <2>7. \A u, w \in ws2 : u.startTS = w.startTS => u = w
    BY <2>2, <2>3, <2>4 DEF EntryInv
  <2>8. \A u, w \in ws2 : Committed(u) /\ Committed(w) /\ u # w =>
          u.commitTS < w.startTS \/ w.commitTS < u.startTS
    BY <2>2, <2>3 DEF EntryInv
  <2> QED BY <2>5, <2>6, <2>7, <2>8 DEF EntryInv
<1>4. CASE Keeps(l, ws, l2, ws2) BY <1>4 DEF Keeps, EntryInv
<1> QED BY <1>1, <1>2, <1>3, <1>4 DEF EntryStep

--------------------------------------------------------------------------------
(* The handlers take entry steps *)

\* What a call did to key k.
KeyStep(k) == EntryStep(lock[k], writes[k], lock'[k], writes'[k])

\* A timestamp of the oracle is a machine word and is not zero.
LEMMA TimestampsAreWords == /\ \A s \in StartTS : s \in Uint64 /\ s > 0
                            /\ \A c \in CommitTS : c \in Uint64 /\ c > 0
BY TimestampAssumption, WordAssumption DEF Uint64

\* prewriteMutation puts a well-formed lock of the transaction.
LEMMA NewLockType ==
  ASSUME NEW m \in Mutation, NEW primary \in Key, NEW s \in StartTS, NEW ttl \in TTL
  PROVE  /\ newLock(m, primary, s, ttl) \in mvccLock
         /\ newLock(m, primary, s, ttl).startTS = s
         /\ newLock(m, primary, s, ttl) # NoLock
<1>1. s \in Uint64 /\ ttl \in Uint64 /\ 0 \in Uint64
  BY TimestampsAreWords, CallerAssumption, WordAssumption DEF Uint64
<1>2. m.op \in Op /\ m.value \in Value BY DEF Mutation
<1>3. newLock(m, primary, s, ttl) =
        [startTS |-> s, primary |-> primary, value |-> m.value, op |-> m.op,
         ttl |-> ttl, minCommitTS |-> 0]
  BY DEF newLock, MarshalBinary
<1> QED BY <1>1, <1>2, <1>3, NoLockAssumption DEF mvccLock

\* commitLock on the transaction's own lock.
LEMMA CommitLockStep ==
  ASSUME DBTypeOK, NEW k \in Key, NEW s \in StartTS, NEW c \in CommitOf(s),
         LockedBy(k, s)
  PROVE  /\ commitLock(k, s, c) \in SUBSET mvccValue
         /\ Commits(lock[k], writes[k], NoLock, commitLock(k, s, c))
<1> DEFINE v == [valueType |-> IF lock[k].op = "Put" THEN "Put" ELSE "Delete",
                 startTS |-> s, commitTS |-> c, value |-> lock[k].value]
<1>1. lock[k] \in mvccLock /\ lock[k] # NoLock /\ lock[k].startTS = s
      /\ writes[k] \in SUBSET mvccValue
  BY DEF DBTypeOK, LockedBy
<1>2. s \in Uint64 /\ c \in Uint64 BY TimestampsAreWords DEF CommitOf
<1>3. v \in mvccValue /\ Committed(v) /\ v.startTS = lock[k].startTS /\ v.commitTS = c
  BY <1>1, <1>2 DEF mvccValue, mvccLock, Committed
<1>4. commitLock(k, s, c) = writes[k] \/ commitLock(k, s, c) = PutValue(writes[k], v)
  BY DEF commitLock
<1> HIDE DEF v
<1>5. PutValue(writes[k], v) \in SUBSET mvccValue BY <1>1, <1>3 DEF PutValue
<1> QED BY <1>1, <1>3, <1>4, <1>5 DEF Commits

\* rollbackLock on the transaction's own lock.
LEMMA RollbackLockStep ==
  ASSUME DBTypeOK, NEW k \in Key, NEW s \in StartTS
  PROVE  /\ rollbackLock(k, s) \in SUBSET mvccValue
         /\ LockedBy(k, s) =>
              RollsBack(lock[k], writes[k], NoLock, rollbackLock(k, s))
         /\ ~ LockedBy(k, s) /\ TxnInfos(k, s) = {} =>
              RollsBack(lock[k], writes[k], lock[k], rollbackLock(k, s))
<1>1. s \in Uint64 BY TimestampsAreWords
<1>2. Tombstone(s) \in mvccValue BY <1>1, ValueAssumption DEF Tombstone, mvccValue
<1>3. rollbackLock(k, s) \in SUBSET mvccValue
  BY <1>2 DEF DBTypeOK, rollbackLock, PutValue
<1>4. LockedBy(k, s) => RollsBack(lock[k], writes[k], NoLock, rollbackLock(k, s))
  BY DEF RollsBack, LockedBy, rollbackLock
<1>5. ~ LockedBy(k, s) /\ TxnInfos(k, s) = {} =>
        RollsBack(lock[k], writes[k], lock[k], rollbackLock(k, s))
  BY DEF RollsBack, LockedBy, rollbackLock, TxnInfos
<1> QED BY <1>3, <1>4, <1>5

\* A call that leaves a key alone takes a step of the key.
LEMMA SameIsStep == ASSUME NEW l, NEW ws PROVE EntryStep(l, ws, l, ws)
BY DEF EntryStep, Keeps

\* resolveLock on the transaction's own lock.
LEMMA ResolveLockStep ==
  ASSUME DBTypeOK, NEW k \in Key, NEW s \in StartTS,
         NEW c \in CommitOf(s) \cup {0}, LockedBy(k, s)
  PROVE  /\ resolveLock(k, s, c) \in SUBSET mvccValue
         /\ EntryStep(lock[k], writes[k], NoLock, resolveLock(k, s, c))
<1>1. CASE c > 0
  <2>1. c \in CommitOf(s) BY <1>1
  <2> QED BY <1>1, <2>1, CommitLockStep DEF resolveLock, EntryStep
<1>2. CASE ~ (c > 0)
  BY <1>2, RollbackLockStep DEF resolveLock, EntryStep
<1> QED BY <1>1, <1>2

\* A call that does nothing, as a failed request does.
LEMMA FailedCallStep ==
  ASSUME DBTypeOK, UNCHANGED db
  PROVE  DBTypeOK' /\ \A k \in Key : KeyStep(k)
BY SameIsStep DEF db, DBTypeOK, KeyStep

\* Prewrite takes a step of every key.
LEMMA PrewriteStep ==
  ASSUME DBTypeOK, NEW keys \in SUBSET Key, NEW mutations \in [keys -> Mutation],
         NEW primary \in Key, NEW s \in StartTS, NEW ttl \in TTL,
         Prewrite(mutations, primary, s, ttl)
  PROVE  DBTypeOK' /\ \A k \in Key : KeyStep(k)
<1>1. CASE ~ PrewriteOK(mutations, s)
  BY <1>1, FailedCallStep DEF Prewrite
<1>2. CASE PrewriteOK(mutations, s)
  <2>1. /\ lock' = [k \in Key |->
                      IF k \in keys /\ lock[k] = NoLock
                      THEN newLock(mutations[k], primary, s, ttl) ELSE lock[k]]
        /\ writes' = writes
    BY <1>2 DEF Prewrite
  <2>2. \A k \in keys : /\ newLock(mutations[k], primary, s, ttl) \in mvccLock
                        /\ newLock(mutations[k], primary, s, ttl).startTS = s
                        /\ newLock(mutations[k], primary, s, ttl) # NoLock
    BY NewLockType
  <2>3. DBTypeOK' BY <2>1, <2>2 DEF DBTypeOK
  <2>4. ASSUME NEW k \in Key PROVE KeyStep(k)
    <3>1. CASE k \in keys /\ lock[k] = NoLock
      <4>1. lock'[k].startTS = s /\ lock'[k] # NoLock /\ writes'[k] = writes[k]
        BY <2>1, <2>2, <3>1
      <4>2. ~ WriteConflict(k, s)
        BY <1>2, <3>1 DEF PrewriteOK, prewriteOK, LockedBy
      <4>3. Locks(lock[k], writes[k], lock'[k], writes'[k])
        BY <3>1, <4>1, <4>2 DEF Locks, WriteConflict
      <4> QED BY <4>3 DEF KeyStep, EntryStep
    <3>2. CASE ~ (k \in keys /\ lock[k] = NoLock)
      BY <2>1, <3>2, SameIsStep DEF KeyStep
    <3> QED BY <3>1, <3>2
  <2> QED BY <2>3, <2>4
<1> QED BY <1>1, <1>2

\* Commit takes a step of every key.
LEMMA CommitStep ==
  ASSUME DBTypeOK, NEW keys \in SUBSET Key, NEW s \in StartTS, NEW c \in CommitOf(s),
         Commit(keys, s, c)
  PROVE  DBTypeOK' /\ \A k \in Key : KeyStep(k)
<1>1. CASE ~ CommitOK(keys, s)
  BY <1>1, FailedCallStep DEF Commit
<1>2. CASE CommitOK(keys, s)
  <2> DEFINE own == {k \in keys : LockedBy(k, s)}
  <2>1. /\ lock' = [k \in Key |-> IF k \in own THEN NoLock ELSE lock[k]]
        /\ writes' = [k \in Key |-> IF k \in own THEN commitLock(k, s, c) ELSE writes[k]]
    BY <1>2 DEF Commit, DeleteLocks
  <2>2. \A k \in own : /\ commitLock(k, s, c) \in SUBSET mvccValue
                       /\ Commits(lock[k], writes[k], NoLock, commitLock(k, s, c))
    BY CommitLockStep, Zenon
  <2> HIDE DEF own
  <2>3. DBTypeOK' BY <2>1, <2>2 DEF DBTypeOK
  <2>4. ASSUME NEW k \in Key PROVE KeyStep(k)
    BY <2>1, <2>2, SameIsStep DEF KeyStep, EntryStep
  <2> QED BY <2>3, <2>4
<1> QED BY <1>1, <1>2

\* Rollback takes a step of every key, and so does Cleanup.
LEMMA RollbackStep ==
  ASSUME DBTypeOK, NEW keys \in SUBSET Key, NEW s \in StartTS, Rollback(keys, s)
  PROVE  DBTypeOK' /\ \A k \in Key : KeyStep(k)
<1>1. CASE ~ RollbackOK(keys, s)
  BY <1>1, FailedCallStep DEF Rollback
<1>2. CASE RollbackOK(keys, s)
  <2>1. /\ lock' = [k \in Key |-> IF k \in {j \in keys : LockedBy(j, s)}
                                  THEN NoLock ELSE lock[k]]
        /\ writes' = [k \in Key |-> IF k \in keys THEN rollbackKey(k, s) ELSE writes[k]]
    BY <1>2 DEF Rollback, DeleteLocks
  <2>2. \A k \in keys : rollbackKey(k, s) \in SUBSET mvccValue
    BY RollbackLockStep, Zenon DEF rollbackKey, DBTypeOK
  <2>3. DBTypeOK' BY <2>1, <2>2 DEF DBTypeOK
  <2>4. ASSUME NEW k \in Key PROVE KeyStep(k)
    <3>1. CASE k \notin keys BY <2>1, <3>1, SameIsStep DEF KeyStep
    <3>2. CASE k \in keys /\ LockedBy(k, s)
      BY <2>1, <3>2, RollbackLockStep DEF KeyStep, EntryStep, rollbackKey
    <3>3. CASE k \in keys /\ ~ LockedBy(k, s) /\ TxnInfos(k, s) = {}
      BY <2>1, <3>3, RollbackLockStep DEF KeyStep, EntryStep, rollbackKey
    <3>4. CASE k \in keys /\ ~ LockedBy(k, s) /\ TxnInfos(k, s) # {}
      BY <2>1, <3>4, SameIsStep DEF KeyStep, rollbackKey
    <3> QED BY <3>1, <3>2, <3>3, <3>4
  <2> QED BY <2>3, <2>4
<1> QED BY <1>1, <1>2

\* CheckTxnStatus takes a step of every key: it expires or rewrites one lock.
LEMMA CheckTxnStatusStep ==
  ASSUME DBTypeOK, NEW k \in Key, NEW s \in StartTS, NEW caller, NEW current,
         CheckTxnStatus(k, s, caller, current)
  PROVE  DBTypeOK' /\ \A j \in Key : KeyStep(j)
<1>1. CASE ~ LockedBy(k, s)
  BY <1>1, FailedCallStep DEF CheckTxnStatus
<1>2. CASE LockedBy(k, s) /\ Expired(lock[k], current)
  <2>1. /\ lock' = [j \in Key |-> IF j \in {k} THEN NoLock ELSE lock[j]]
        /\ writes' = [writes EXCEPT ![k] = rollbackLock(k, s)]
    BY <1>2 DEF CheckTxnStatus, DeleteLocks
  <2>2. DBTypeOK' BY <2>1, RollbackLockStep DEF DBTypeOK
  <2>3. writes \in [Key -> SUBSET mvccValue] BY DEF DBTypeOK
  <2>4. ASSUME NEW j \in Key PROVE KeyStep(j)
    <3>1. CASE j = k
      BY <1>2, <2>1, <2>3, <3>1, RollbackLockStep DEF KeyStep, EntryStep
    <3>2. CASE j # k
      BY <2>1, <2>3, <3>2, SameIsStep DEF KeyStep
    <3> QED BY <3>1, <3>2
  <2> QED BY <2>2, <2>4
<1>3. CASE LockedBy(k, s) /\ ~ Expired(lock[k], current)
  <2> DEFINE l == MarshalBinary(PushMinCommitTS(lock[k], caller, current))
  <2>1. lock' = [lock EXCEPT ![k] = l] /\ writes' = writes
    BY <1>3 DEF CheckTxnStatus
  <2>2. lock[k] \in mvccLock /\ lock[k] # NoLock BY <1>3 DEF DBTypeOK, LockedBy
  <2>3. l = [lock[k] EXCEPT !.minCommitTS = 0]
    BY <2>2, Zenon DEF MarshalBinary, PushMinCommitTS, mvccLock
  <2>4. l \in mvccLock /\ l.startTS = lock[k].startTS
    BY <2>2, <2>3, WordAssumption DEF mvccLock, Uint64
  <2> HIDE DEF l
  <2>5. l # NoLock BY <2>4, NoLockAssumption
  <2>6. DBTypeOK' BY <2>1, <2>4 DEF DBTypeOK
  <2>7. lock \in [Key -> mvccLock \cup {NoLock}] BY DEF DBTypeOK
  <2>8. ASSUME NEW j \in Key PROVE KeyStep(j)
    BY <2>1, <2>2, <2>4, <2>5, <2>7, SameIsStep DEF KeyStep, EntryStep, Keeps
  <2> QED BY <2>6, <2>8
<1> QED BY <1>1, <1>2, <1>3

\* ResolveLock takes a step of every key.
LEMMA ResolveStep ==
  ASSUME DBTypeOK, NEW b, NEW e, NEW s \in StartTS, NEW c \in CommitOf(s) \cup {0},
         ResolveLock(b, e, s, c)
  PROVE  DBTypeOK' /\ \A k \in Key : KeyStep(k)
<1> DEFINE hit == {k \in Key : InRange(k, b, e) /\ LockedBy(k, s)}
<1>1. /\ lock' = [k \in Key |-> IF k \in hit THEN NoLock ELSE lock[k]]
      /\ writes' = [k \in Key |-> IF k \in hit THEN resolveLock(k, s, c) ELSE writes[k]]
  BY DEF ResolveLock, DeleteLocks
<1>2. \A k \in hit : /\ resolveLock(k, s, c) \in SUBSET mvccValue
                     /\ EntryStep(lock[k], writes[k], NoLock, resolveLock(k, s, c))
  BY ResolveLockStep, Zenon
<1> HIDE DEF hit
<1>3. DBTypeOK' BY <1>1, <1>2 DEF DBTypeOK
<1>4. ASSUME NEW k \in Key PROVE KeyStep(k)
  BY <1>1, <1>2, SameIsStep DEF KeyStep
<1> QED BY <1>3, <1>4

\* BatchResolveLock takes a step of every key.
LEMMA BatchResolveStep ==
  ASSUME IInv, NEW b, NEW e, NEW ts \in SUBSET StartTS, NEW infos \in TxnInfo(ts),
         BatchResolveLock(b, e, infos)
  PROVE  DBTypeOK' /\ \A k \in Key : KeyStep(k)
<1> DEFINE hit == {k \in Key : /\ InRange(k, b, e)
                               /\ lock[k] # NoLock
                               /\ lock[k].startTS \in DOMAIN infos}
           res(k) == resolveLock(k, lock[k].startTS, infos[lock[k].startTS])
<1>1. /\ lock' = [k \in Key |-> IF k \in hit THEN NoLock ELSE lock[k]]
      /\ writes' = [k \in Key |-> IF k \in hit THEN res(k) ELSE writes[k]]
  BY DEF BatchResolveLock, DeleteLocks
<1>2. DBTypeOK BY DEF IInv
<1>3. ASSUME NEW k \in hit
      PROVE  res(k) \in SUBSET mvccValue /\ EntryStep(lock[k], writes[k], NoLock, res(k))
  <2>1. k \in Key /\ lock[k].startTS \in ts /\ LockedBy(k, lock[k].startTS)
    BY DEF TxnInfo, LockedBy
  <2>2. infos[lock[k].startTS] \in CommitOf(lock[k].startTS) \cup {0}
    BY <2>1 DEF TxnInfo
  <2> QED BY <1>2, <2>1, <2>2, ResolveLockStep
<1> HIDE DEF hit, res
<1>4. DBTypeOK' BY <1>1, <1>2, <1>3 DEF DBTypeOK
<1>5. ASSUME NEW k \in Key PROVE KeyStep(k)
  BY <1>1, <1>3, SameIsStep DEF KeyStep
<1> QED BY <1>4, <1>5

\* Every call but DeleteRange takes a step of every key, and keeps the types.
LEMMA NextIsEntryStep ==
  ASSUME IInv, [Next]_db
  PROVE  /\ DBTypeOK'
         /\ (\E b, e \in Bound : DeleteRange(b, e)) \/ (\A k \in Key : KeyStep(k))
<1>0. DBTypeOK BY DEF IInv
<1>1. ASSUME NEW keys \in SUBSET Key, NEW mutations \in [keys -> Sent],
             NEW primary \in Key, NEW s \in StartTS, NEW ttl \in TTL,
             Prewrite(mutations, primary, s, ttl)
      PROVE  DBTypeOK' /\ \A k \in Key : KeyStep(k)
  <2>1. mutations \in [keys -> Mutation] BY CallerAssumption
  <2> QED BY <1>0, <1>1, <2>1, PrewriteStep
<1>2. ASSUME NEW keys \in SUBSET Key, NEW s \in StartTS, NEW c \in CommitOf(s),
             Commit(keys, s, c)
      PROVE  DBTypeOK' /\ \A k \in Key : KeyStep(k)
  BY <1>0, <1>2, CommitStep
<1>3. ASSUME NEW keys \in SUBSET Key, NEW s \in StartTS, Rollback(keys, s)
      PROVE  DBTypeOK' /\ \A k \in Key : KeyStep(k)
  BY <1>0, <1>3, RollbackStep
<1>4. ASSUME NEW k \in Key, NEW s \in StartTS, Cleanup(k, s)
      PROVE  DBTypeOK' /\ \A j \in Key : KeyStep(j)
  BY <1>0, <1>4, RollbackStep DEF Cleanup
<1>5. ASSUME NEW k \in Key, NEW s \in StartTS, NEW caller \in StartTS,
             NEW current \in CurrentTS, CheckTxnStatus(k, s, caller, current)
      PROVE  DBTypeOK' /\ \A j \in Key : KeyStep(j)
  BY <1>0, <1>5, CheckTxnStatusStep
<1>6. ASSUME NEW b \in Bound, NEW e \in Bound, NEW s \in StartTS,
             NEW c \in CommitOf(s) \cup {0}, ResolveLock(b, e, s, c)
      PROVE  DBTypeOK' /\ \A k \in Key : KeyStep(k)
  BY <1>0, <1>6, ResolveStep
<1>7. ASSUME NEW b \in Bound, NEW e \in Bound, NEW ts \in SUBSET StartTS,
             NEW infos \in TxnInfo(ts), BatchResolveLock(b, e, infos)
      PROVE  DBTypeOK' /\ \A k \in Key : KeyStep(k)
  BY <1>7, BatchResolveStep
<1>8. ASSUME NEW b \in Bound, NEW e \in Bound, DeleteRange(b, e)
      PROVE  DBTypeOK'
  BY <1>0, <1>8 DEF DBTypeOK, DeleteRange, DeleteLocks
<1>9. CASE UNCHANGED db BY <1>0, <1>9, FailedCallStep
<1> QED BY <1>1, <1>2, <1>3, <1>4, <1>5, <1>6, <1>7, <1>8, <1>9, Zenon DEF Next

--------------------------------------------------------------------------------
(* Theorems *)

\* The inductive invariant of the store holds initially.
LEMMA InitInv == InitDB => IInv
BY DEF InitDB, IInv, DBTypeOK, EntryInv

\* Every call keeps the inductive invariant of the store.
LEMMA NextInv == IInv /\ [Next]_db => IInv'
<1> SUFFICES ASSUME IInv, [Next]_db PROVE IInv'
  OBVIOUS
<1>1. DBTypeOK' BY NextIsEntryStep
<1>2. ASSUME NEW k \in Key PROVE EntryInv(lock'[k], writes'[k])
  <2>1. EntryInv(lock[k], writes[k]) BY DEF IInv
  <2>2. CASE KeyStep(k)
    BY <2>1, <2>2, EntryStepKeepsInv DEF KeyStep
  <2>3. ASSUME NEW b \in Bound, NEW e \in Bound, DeleteRange(b, e)
        PROVE  EntryInv(lock'[k], writes'[k])
    <3>1. \/ lock'[k] = NoLock /\ writes'[k] = {}
          \/ lock'[k] = lock[k] /\ writes'[k] = writes[k]
      BY <2>3 DEF DeleteRange, DeleteLocks
    <3>2. EntryInv(NoLock, {}) BY DEF EntryInv
    <3> QED BY <2>1, <3>1, <3>2
  <2> QED BY <2>2, <2>3, NextIsEntryStep
<1> QED BY <1>1, <1>2 DEF IInv

\* IInv is an invariant of the store under arbitrary callers.
THEOREM StoreInvariant == Spec => []IInv
BY InitInv, NextInv, PTL DEF Spec

\* The locks and entries the handlers of mvcc_leveldb.go leave in the database
\* are always well formed.
THEOREM TypeCorrect == Spec => []DBTypeOK
<1>1. IInv => DBTypeOK BY DEF IInv
<1> QED BY <1>1, StoreInvariant, PTL

\* Two transactions that prewriteMutation and commitKey let commit on one key
\* never overlap in time, whatever the callers do.
THEOREM WriteConflictsDetected == Spec => []FirstCommitterWins
<1>1. IInv => FirstCommitterWins BY DEF IInv, EntryInv, FirstCommitterWins
<1> QED BY <1>1, StoreInvariant, PTL

\* Commit, Rollback, Cleanup, CheckTxnStatus and the resolvers give a
\* transaction at most one outcome per key, and a prewrite that arrives after
\* the outcome never locks the key again.
THEOREM SingleOutcome == Spec => []OneOutcomePerKey
<1>1. IInv => OneOutcomePerKey BY DEF IInv, EntryInv, OneOutcomePerKey, LockedBy
<1> QED BY <1>1, StoreInvariant, PTL

\* The timestamp lock.startTS - 1 that mvccLock.check substitutes in a read of
\* the latest version hides no committed value of the key.
THEOREM LatestReadComplete == Spec => []PointGetSeesNewest
<1>1. ASSUME IInv, NEW k \in Key, lock[k] # NoLock, lock[k].primary = k
      PROVE  getValue(k, MaxUint64, "SI") = getValue(k, MaxUint64, "RC")
  <2> DEFINE l == lock[k]
             ts == CheckedTS(l, MaxUint64)
  <2>1. l \in mvccLock /\ writes[k] \in SUBSET mvccValue /\ l.startTS \in StartTS
    BY <1>1 DEF IInv, DBTypeOK, EntryInv
  <2>2. l.startTS \in Int /\ l.startTS > 0 /\ l.startTS =< MaxUint64
        /\ MaxUint64 \in Int
    BY <2>1, TimestampsAreWords, WordAssumption DEF Uint64
  <2>3. ~ Blocks(l, MaxUint64, k) BY <1>1 DEF Blocks
  <2>4. ts = MaxUint64 \/ ts = l.startTS - 1
    BY <2>2 DEF CheckedTS, Wrap
  <2>5. ASSUME NEW w \in writes[k], Committed(w)
        PROVE  w.commitTS =< MaxUint64 /\ w.commitTS =< l.startTS - 1
    <3>1. w.commitTS \in 0 .. MaxUint64 BY <2>1 DEF mvccValue, Uint64
    <3>2. w.commitTS < l.startTS BY <1>1, <2>5 DEF IInv, EntryInv
    <3> QED BY <2>2, <3>1, <3>2
  <2>6. Visible(k, ts) = Visible(k, MaxUint64)
    BY <2>4, <2>5 DEF Visible
  <2> HIDE DEF l, ts
  <2> QED BY <1>1, <2>3, <2>6 DEF getValue, l, ts
<1>2. IInv => PointGetSeesNewest BY <1>1 DEF PointGetSeesNewest
<1> QED BY <1>2, StoreInvariant, PTL

\* batch.Put never lands on a version that is taken: no committed value and no
\* rollback tombstone is ever overwritten.
THEOREM EntriesKept == Spec => EntriesStay
<1>1. ASSUME IInv, [Next]_db
      PROVE  [\/ \A k \in Key : writes[k] \subseteq writes'[k]
              \/ \E b, e \in Bound : DeleteRange(b, e)]_db
  <2>1. ASSUME NEW k \in Key, KeyStep(k) PROVE writes[k] \subseteq writes'[k]
    BY <1>1, <2>1, EntryStepAdds DEF IInv, KeyStep
  <2> QED BY <1>1, <2>1, NextIsEntryStep
<1> QED BY <1>1, StoreInvariant, PTL DEF Spec, EntriesStay

\* What the store answers about a transaction that has record w on a key.
AnswersBy(w) ==
  <<FALSE, Committed(w), ~ Committed(w),
    [ttl |-> 0, commitTS |-> IF Committed(w) THEN w.commitTS ELSE 0]>>

\* The record alone decides the answers: it is the only one of the transaction,
\* there is no lock beside it, and it is a conflict for a prewrite.
LEMMA RecordDecides ==
  ASSUME IInv, NEW k \in Key, NEW w \in writes[k], NEW current
  PROVE  Answers(k, w.startTS, current) = AnswersBy(w)
<1> DEFINE s == w.startTS
<1>1. EntryInv(lock[k], writes[k]) BY DEF IInv
<1>2. ~ LockedBy(k, s) BY <1>1 DEF EntryInv, LockedBy
<1>3. TxnInfos(k, s) = {w} BY <1>1 DEF EntryInv, TxnInfos
<1>4. getTxnCommitInfo(k, s) = w
  <2>1. w.commitTS \in Nat
    BY <1>1, Timestamps DEF EntryInv, CommitOf
  <2> QED BY <1>3, <2>1 DEF getTxnCommitInfo, Newest
<1>5. AlreadyCommitted(k, s) <=> Committed(w) BY <1>3, <1>4 DEF AlreadyCommitted
<1>6. WriteConflict(k, s)
  <2>1. w.commitTS >= s BY <1>1, Timestamps DEF EntryInv, CommitOf
  <2> QED BY <2>1 DEF WriteConflict
<1> HIDE DEF s
<1>7. /\ prewriteOK(k, s) = FALSE /\ commitOK(k, s) = Committed(w)
      /\ rollbackOK(k, s) = ~ Committed(w)
  BY <1>2, <1>5, <1>6 DEF prewriteOK, commitOK, rollbackOK, Committed
<1>8. TxnStatus(k, s, current)
        = [ttl |-> 0, commitTS |-> IF Committed(w) THEN w.commitTS ELSE 0]
  BY <1>2, <1>4, <1>5 DEF TxnStatus
<1>9. Answers(k, s, current) = AnswersBy(w) BY <1>7, <1>8 DEF Answers, AnswersBy
<1> QED BY <1>9 DEF s

\* All answers about transactions with a record are those of the record.
RecordsDecide ==
  \A k \in Key : \A w \in writes[k], current \in CurrentTS :
    Answers(k, w.startTS, current) = AnswersBy(w)

\* A retried, delayed or duplicated request gets the answer it would have got
\* at any time since the outcome was recorded.
THEOREM RetriesAgree == Spec => AnswersAreFinal
<1>1. IInv => RecordsDecide BY RecordDecides DEF RecordsDecide
<1>2. ASSUME IInv, RecordsDecide, RecordsDecide', [Next]_db
      PROVE  [\/ \A k \in Key : UNCHANGED <<lock[k], writes[k]>> \/
                   \A w \in writes[k], current \in CurrentTS :
                     Answers(k, w.startTS, current)' = Answers(k, w.startTS, current)
              \/ \E b, e \in Bound : DeleteRange(b, e)]_db
  <2>1. ASSUME NEW k \in Key, KeyStep(k), NEW w \in writes[k], NEW current \in CurrentTS
        PROVE  Answers(k, w.startTS, current)' = Answers(k, w.startTS, current)
    <3>1. w \in writes'[k] BY <1>2, <2>1, EntryStepAdds DEF IInv, KeyStep
    <3>2. Answers(k, w.startTS, current) = AnswersBy(w) BY <1>2 DEF RecordsDecide
    <3>3. Answers(k, w.startTS, current)' = AnswersBy(w)
      BY <1>2, <3>1 DEF RecordsDecide, AnswersBy, Committed
    <3> QED BY <3>2, <3>3
  <2> QED BY <1>2, <2>1, NextIsEntryStep
<1> QED BY <1>1, <1>2, StoreInvariant, PTL DEF Spec, AnswersAreFinal

================================================================================
