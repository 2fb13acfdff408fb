--------------------------- MODULE PercolatorProofs ----------------------------
(***************************************************************************)
(* Proofs that two-phase commit over the store is atomic and gives         *)
(* snapshot reads, for any keys, any transactions, any split of the keys   *)
(* into regions and any order, repetition and loss of requests, as long as *)
(* the clients keep to the discipline of Percolator, and that it           *)
(* implements the abstract transactions of Transactions: the record on the *)
(* primary is the outcome of a transaction, the step that writes that      *)
(* record is its commit or its abort, and every other step of a handler is *)
(* invisible.                                                              *)
(*                                                                         *)
(* The inductive invariant has four parts.  OracleInv: timestamps are used *)
(* once and in order.  EntryInv: every entry of a key belongs to a         *)
(* transaction, carries its timestamps, and a lock excludes a record of    *)
(* the same transaction.  ProtocolInv: the record on the primary decides,  *)
(* whatever anybody knows of a transaction agrees with it, and a key that  *)
(* was prewritten holds the lock or a record ever after.  ReadInv: below a *)
(* snapshot that was read, every commit of the key has left its record.    *)
(*                                                                         *)
(* A handler that works for t takes a TxnStep: on each key it does nothing *)
(* or puts, rewrites, commits or rolls back the entries of t alone.        *)
(***************************************************************************)
EXTENDS Percolator, WellFoundedInduction, TLAPS

\* Transaction t has a record on k.
Recorded(t, k) == TxnInfos(k, startTS[t]) # {}

Touched(t, k) == LockedBy(k, startTS[t]) \/ Recorded(t, k)

OracleInv ==
  /\ \A t \in Txn : /\ startTS[t] =< tso /\ commitTS[t] =< tso
                    /\ commitTS[t] # 0 => startTS[t] # 0 /\ startTS[t] < commitTS[t]
  /\ \A t, u \in Txn :
       /\ t # u /\ startTS[t] # 0 => startTS[t] # startTS[u]
       /\ t # u /\ commitTS[t] # 0 => commitTS[t] # commitTS[u]
       /\ commitTS[t] # 0 => commitTS[t] # startTS[u]

PhaseInv ==
  \A t \in Txn :
    /\ acked[t] \subseteq Keys(t)
    /\ startTS[t] = 0 => /\ phase[t] = "idle" /\ acked[t] = {}
                         /\ t \notin met /\ \A c \in 0 .. MaxTS : <<t, c>> \notin known
    /\ phase[t] = "idle" => startTS[t] = 0
    /\ phase[t] \in {"idle", "prewriting"} => commitTS[t] = 0
    /\ phase[t] \in {"committing", "committed"} => commitTS[t] # 0
    /\ commitTS[t] # 0 => acked[t] = Keys(t)

\* A record w on k is one of transaction t.
RecordOf(w, k, t) ==
  /\ startTS[t] # 0 /\ w.startTS = startTS[t]
  /\ IF Committed(w) THEN /\ k \in Keys(t) /\ commitTS[t] # 0
                          /\ w.commitTS = commitTS[t]
     ELSE w.commitTS = startTS[t]

EntryInv(k) ==
  /\ lock[k] # NoLock =>
       /\ \E t \in Txn : /\ startTS[t] # 0 /\ lock[k].startTS = startTS[t]
                         /\ k \in Keys(t) /\ lock[k].op # "Lock"
                         /\ lock[k].ttl = TTL
       /\ \A w \in writes[k] : /\ w.startTS # lock[k].startTS
                               /\ Committed(w) => w.commitTS < lock[k].startTS
  /\ \A w \in writes[k] : \E t \in Txn : RecordOf(w, k, t)
  /\ \A v, w \in writes[k] : v.startTS = w.startTS => v = w

ProtocolInv(t) ==
  /\ \A k \in acked[t] : Touched(t, k)
  /\ \A k \in Key : LockedBy(k, startTS[t]) => Touched(t, Primary[t])
  /\ t \in met => Touched(t, Primary[t])
  /\ \A k \in Key : CommittedOn(t, k) => CommittedOn(t, Primary[t])
  /\ \A k \in Key : RolledBackOn(t, k) =>
                      RolledBackOn(t, Primary[t]) \/ phase[t] = "aborted"
  /\ phase[t] = "aborted" => commitTS[t] = 0 \/ RolledBackOn(t, Primary[t])
  /\ phase[t] = "committed" => CommittedOn(t, Primary[t])
  /\ \A c \in 0 .. MaxTS : <<t, c>> \in known =>
       IF c = 0 THEN RolledBackOn(t, Primary[t])
       ELSE c = commitTS[t] /\ CommittedOn(t, Primary[t])

ReadInv ==
  /\ RepeatableReads
  /\ \A r \in reads :
       /\ startTS[r.txn] # 0
       /\ \A t \in Txn : (/\ commitTS[t] # 0 /\ commitTS[t] =< startTS[r.txn]
                          /\ r.key \in Keys(t)) => Recorded(t, r.key)

IInv == /\ TypeOK /\ OracleInv /\ PhaseInv /\ ReadInv
        /\ \A k \in Key : EntryInv(k)
        /\ \A t \in Txn : ProtocolInv(t)

--------------------------------------------------------------------------------
(* What a handler that works for t does to a key *)

Same(k) == lock'[k] = lock[k] /\ writes'[k] = writes[k]

Puts(t, k) ==
  /\ lock[k] = NoLock /\ lock'[k] # NoLock
  /\ startTS[t] # 0 /\ k \in Keys(t) /\ ~ WriteConflict(k, startTS[t])
  /\ lock'[k].startTS = startTS[t] /\ lock'[k].op # "Lock" /\ lock'[k].ttl = TTL
  /\ writes'[k] = writes[k]

Rewrites(t, k) ==
  /\ LockedBy(k, startTS[t]) /\ lock'[k] # NoLock
  /\ lock'[k].startTS = lock[k].startTS /\ lock'[k].op = lock[k].op
  /\ lock'[k].ttl = lock[k].ttl
  /\ writes'[k] = writes[k]

Commits(t, k) ==
  /\ LockedBy(k, startTS[t]) /\ commitTS[t] # 0 /\ lock'[k] = NoLock
  /\ \E v \in mvccValue : /\ Committed(v) /\ v.startTS = startTS[t]
                          /\ v.commitTS = commitTS[t]
                          /\ writes'[k] = writes[k] \cup {v}

RollsBack(t, k) ==
  /\ startTS[t] # 0
  /\ \/ LockedBy(k, startTS[t]) /\ lock'[k] = NoLock
     \/ ~ Touched(t, k) /\ lock'[k] = lock[k]
  /\ writes'[k] = writes[k] \cup {Tombstone(startTS[t])}

KeyStep(t, k) == \/ Same(k) \/ Puts(t, k) \/ Rewrites(t, k)
                 \/ Commits(t, k) \/ RollsBack(t, k)

\* The numbers of TypeOK, spelled out.
LEMMA Numbers ==
  ASSUME TypeOK
  PROVE  /\ tso \in Nat /\ MaxTS \in Nat /\ MaxTS < MaxUint64 /\ MaxUint64 \in Nat
         /\ \A t \in Txn : startTS[t] \in Nat /\ commitTS[t] \in Nat
         /\ \A t \in Txn : startTS[t] =< MaxTS /\ commitTS[t] =< MaxTS
BY TxnAssumption, WordAssumption DEF TypeOK

\* The primary is a key, and so are the keys of a transaction.
LEMMA KeysAreKeys ==
  ASSUME NEW t \in Txn
  PROVE  Keys(t) \subseteq Key /\ Primary[t] \in Key
BY TxnAssumption, Zenon DEF Keys

\* Under the invariant the version of a commit is free: PutValue only adds.
LEMMA PutCommit ==
  ASSUME TypeOK, OracleInv, NEW k \in Key, EntryInv(k), NEW t \in Txn,
         LockedBy(k, startTS[t]), commitTS[t] # 0, NEW v, v.commitTS = commitTS[t]
  PROVE  PutValue(writes[k], v) = writes[k] \cup {v}
<1>1. ASSUME NEW w \in writes[k] PROVE w.commitTS # v.commitTS
  <2>1. PICK u \in Txn : RecordOf(w, k, u) BY Zenon DEF EntryInv
  <2>2. u # t BY <2>1, Zenon DEF EntryInv, LockedBy, RecordOf
  <2> QED BY <2>1, <2>2, Zenon DEF RecordOf, OracleInv
<1> QED BY <1>1, Zenon DEF PutValue

\* So is the version of a tombstone.
LEMMA PutTombstone ==
  ASSUME TypeOK, OracleInv, NEW k \in Key, EntryInv(k), NEW t \in Txn,
         startTS[t] # 0, ~ Recorded(t, k)
  PROVE  PutValue(writes[k], Tombstone(startTS[t])) =
           writes[k] \cup {Tombstone(startTS[t])}
<1>1. ASSUME NEW w \in writes[k] PROVE w.commitTS # startTS[t]
  <2>1. PICK u \in Txn : RecordOf(w, k, u) BY Zenon DEF EntryInv
  <2>2. u # t BY <2>1, Zenon DEF Recorded, TxnInfos, RecordOf
  <2> QED BY <2>1, <2>2, Zenon DEF RecordOf, OracleInv
<1> QED BY <1>1, Zenon DEF PutValue, Tombstone

\* A transaction that holds the lock of a key has no record on it.
LEMMA LockedIsNotRecorded ==
  ASSUME NEW k \in Key, EntryInv(k), NEW t \in Txn, LockedBy(k, startTS[t])
  PROVE  ~ Recorded(t, k) /\ startTS[t] # 0
BY Zenon DEF EntryInv, LockedBy, Recorded, TxnInfos

\* A record belongs to one transaction.
LEMMA RecordOwner ==
  ASSUME OracleInv, NEW k \in Key, EntryInv(k), NEW t \in Txn,
         NEW w \in writes[k], w.startTS = startTS[t]
  PROVE  RecordOf(w, k, t)
BY DEF EntryInv, RecordOf, OracleInv

\* A step of a key keeps the invariant of the key.
LEMMA StepKeepsEntry ==
  ASSUME TypeOK, OracleInv, NEW k \in Key, EntryInv(k), NEW t \in Txn,
         KeyStep(t, k), UNCHANGED <<startTS, commitTS>>
  PROVE  EntryInv(k)'
<1> USE Numbers
<1>r. \A w, u : RecordOf(w, k, u)' <=> RecordOf(w, k, u) BY Zenon DEF RecordOf, Keys
<1>1. CASE Same(k) BY <1>1, <1>r DEF Same, EntryInv, RecordOf
<1>2. CASE Puts(t, k)
  <2>1. ASSUME NEW w \in writes[k]
        PROVE  w.startTS # startTS[t] /\ w.commitTS < startTS[t]
    <3>1. PICK u \in Txn : RecordOf(w, k, u) BY Zenon DEF EntryInv
    <3>2. ~ (w.commitTS >= startTS[t]) BY <1>2, Zenon DEF Puts, WriteConflict
    <3>3. w.commitTS \in Nat /\ w.commitTS >= w.startTS
      BY <3>1 DEF RecordOf, OracleInv
    <3> QED BY <3>2, <3>3
  <2> QED BY <1>2, <1>r, <2>1, Zenon DEF Puts, EntryInv
<1>3. CASE Rewrites(t, k) BY <1>3, <1>r, Zenon DEF Rewrites, EntryInv, LockedBy
<1>4. CASE Commits(t, k)
  <2>1. PICK v \in mvccValue : /\ Committed(v) /\ v.startTS = startTS[t]
                               /\ v.commitTS = commitTS[t]
                               /\ writes'[k] = writes[k] \cup {v}
    BY <1>4, Zenon DEF Commits
  <2>2. lock'[k] = NoLock /\ LockedBy(k, startTS[t]) /\ commitTS[t] # 0
    BY <1>4, Zenon DEF Commits
  <2>3. ~ Recorded(t, k) /\ startTS[t] # 0 BY <2>2, LockedIsNotRecorded, Zenon
  <2>4. k \in Keys(t) BY <2>2, Zenon DEF EntryInv, LockedBy, OracleInv
  <2>5. RecordOf(v, k, t) BY <2>1, <2>2, <2>3, <2>4, Zenon DEF RecordOf
  <2>6. \A w \in writes'[k] : \E u \in Txn : RecordOf(w, k, u)
    BY <2>1, <2>5, Zenon DEF EntryInv
  <2>7. \A x, w \in writes'[k] : x.startTS = w.startTS => x = w
    BY <2>1, <2>3, Zenon DEF EntryInv, Recorded, TxnInfos
  <2> QED BY <1>r, <2>2, <2>6, <2>7, Zenon DEF EntryInv
<1>5. CASE RollsBack(t, k)
  <2> DEFINE v == Tombstone(startTS[t])
  <2>1. writes'[k] = writes[k] \cup {v} /\ startTS[t] # 0 BY <1>5, Zenon DEF RollsBack
  <2>2. v.startTS = startTS[t] /\ v.commitTS = startTS[t] /\ ~ Committed(v)
    BY Zenon DEF Tombstone, Committed
  <2>3. RecordOf(v, k, t) BY <2>1, <2>2, Zenon DEF RecordOf
  <2>4. ~ Recorded(t, k) BY <1>5, LockedIsNotRecorded, Zenon DEF RollsBack, Touched
  <2> HIDE DEF v
  <2>5. \A w \in writes'[k] : \E u \in Txn : RecordOf(w, k, u)
    BY <2>1, <2>3, Zenon DEF EntryInv
  <2>6. \A x, w \in writes'[k] : x.startTS = w.startTS => x = w
    BY <2>1, <2>2, <2>4, Zenon DEF EntryInv, Recorded, TxnInfos
  <2>7. lock'[k] # NoLock => lock'[k] = lock[k] /\ ~ LockedBy(k, startTS[t])
    BY <1>5, Zenon DEF RollsBack, Touched
  <2>8. lock'[k] # NoLock =>
          \A w \in writes'[k] : /\ w.startTS # lock'[k].startTS
                                /\ Committed(w) => w.commitTS < lock'[k].startTS
    BY <2>1, <2>2, <2>7, Zenon DEF EntryInv, LockedBy
  <2> QED BY <1>r, <2>5, <2>6, <2>7, <2>8, Zenon DEF EntryInv
<1> QED BY <1>1, <1>2, <1>3, <1>4, <1>5, Zenon DEF KeyStep

\* A step for t leaves the locks and the records of the others alone.
LEMMA StepOther ==
  ASSUME TypeOK, OracleInv, NEW k \in Key, EntryInv(k), NEW t \in Txn,
         KeyStep(t, k), UNCHANGED <<startTS, commitTS>>,
         NEW u \in Txn, u # t
  PROVE  /\ LockedBy(k, startTS[u])' <=> LockedBy(k, startTS[u])
         /\ TxnInfos(k, startTS[u])' = TxnInfos(k, startTS[u])
<1>1. CASE startTS[u] = 0
  <2>1. EntryInv(k)' BY StepKeepsEntry, Zenon
  <2> QED BY <1>1, <2>1 DEF EntryInv, RecordOf, LockedBy, TxnInfos
<1>2. CASE startTS[u] # 0
  <2>1. startTS[u] # startTS[t] BY <1>2, Zenon DEF OracleInv
  <2> QED BY <2>1 DEF KeyStep, Same, Puts, Rewrites, Commits, RollsBack, LockedBy,
             TxnInfos, Tombstone
<1> QED BY <1>1, <1>2, Zenon

\* What t left on a key stays, and its lock is replaced by a record only.
LEMMA StepKeeps ==
  ASSUME NEW k \in Key, NEW t \in Txn, KeyStep(t, k), UNCHANGED startTS
  PROVE  /\ Touched(t, k) => Touched(t, k)'
         /\ Recorded(t, k) => Recorded(t, k)'
         /\ CommittedOn(t, k) => CommittedOn(t, k)'
         /\ RolledBackOn(t, k) => RolledBackOn(t, k)'
<1>1. writes[k] \subseteq writes'[k]
  BY Zenon DEF KeyStep, Same, Puts, Rewrites, Commits, RollsBack
<1>2. ASSUME LockedBy(k, startTS[t]) PROVE Touched(t, k)'
  <2>1. CASE Same(k) \/ Puts(t, k) \/ Rewrites(t, k)
    BY <1>2, <2>1, Zenon DEF Same, Puts, Rewrites, LockedBy, Touched
  <2>2. CASE Commits(t, k)
    BY <2>2, Zenon DEF Commits, Touched, Recorded, TxnInfos
  <2>3. CASE RollsBack(t, k)
    <3>1. Tombstone(startTS[t]).startTS = startTS[t] BY Zenon DEF Tombstone
    <3> QED BY <2>3, <3>1, Zenon DEF RollsBack, Touched, Recorded, TxnInfos
  <2> QED BY <2>1, <2>2, <2>3, Zenon DEF KeyStep
<1> QED BY <1>1, <1>2, Zenon DEF Touched, Recorded, TxnInfos, CommittedOn, RolledBackOn

--------------------------------------------------------------------------------
(* The handlers take such steps *)

TxnStep(t) == DBTypeOK' /\ \A k \in Key : KeyStep(t, k)

\* What the lemmas about handlers assume.
StoreInv == TypeOK /\ OracleInv /\ \A k \in Key : EntryInv(k)

\* getTxnCommitInfo finds the one record there is.
LEMMA CommitInfo ==
  ASSUME OracleInv, NEW k \in Key, EntryInv(k), NEW t \in Txn
  PROVE  /\ AlreadyCommitted(k, startTS[t]) <=> CommittedOn(t, k)
         /\ CommittedOn(t, k) =>
              getTxnCommitInfo(k, startTS[t]).commitTS = commitTS[t] /\ commitTS[t] # 0
         /\ Recorded(t, k) /\ ~ CommittedOn(t, k) => RolledBackOn(t, k)
         /\ ~ (CommittedOn(t, k) /\ RolledBackOn(t, k))
<1>1. CASE TxnInfos(k, startTS[t]) = {}
  BY <1>1, Zenon DEF AlreadyCommitted, CommittedOn, RolledBackOn, Recorded, TxnInfos
<1>2. CASE TxnInfos(k, startTS[t]) # {}
  <2>1. PICK w \in writes[k] : w.startTS = startTS[t] BY <1>2, Zenon DEF TxnInfos
  <2>2. TxnInfos(k, startTS[t]) = {w} BY <2>1, Zenon DEF TxnInfos, EntryInv
  <2>3. RecordOf(w, k, t) BY <2>1, RecordOwner, Zenon
  <2>4. getTxnCommitInfo(k, startTS[t]) = w BY <2>2 DEF getTxnCommitInfo, Newest
  <2>5. Committed(w) <=> CommittedOn(t, k)
    BY <2>1, <2>2, Zenon DEF CommittedOn, TxnInfos
  <2>6. ~ Committed(w) <=> RolledBackOn(t, k)
    BY <2>1, <2>2, Zenon DEF RolledBackOn, TxnInfos
  <2> QED BY <1>2, <2>3, <2>4, <2>5, <2>6, Zenon DEF AlreadyCommitted, RecordOf
<1> QED BY <1>1, <1>2, Zenon

\* commitLock commits the lock of t.
LEMMA CommitLockStep ==
  ASSUME StoreInv, NEW k \in Key, NEW t \in Txn, LockedBy(k, startTS[t]),
         commitTS[t] # 0, lock'[k] = NoLock,
         writes'[k] = commitLock(k, startTS[t], commitTS[t])
  PROVE  Commits(t, k) /\ writes'[k] \in SUBSET mvccValue
<1> DEFINE v == [valueType |-> IF lock[k].op = "Put" THEN "Put" ELSE "Delete",
                 startTS |-> startTS[t], commitTS |-> commitTS[t],
                 value |-> lock[k].value]
<1>1. lock[k] # NoLock /\ lock[k] \in mvccLock /\ lock[k].op # "Lock"
  BY Zenon DEF LockedBy, StoreInv, EntryInv, TypeOK, DBTypeOK
<1>2. startTS[t] \in Uint64 /\ commitTS[t] \in Uint64
  BY Numbers DEF StoreInv, Uint64
<1>3. v \in mvccValue BY <1>1, <1>2, Zenon DEF mvccValue, mvccLock
<1>4. Committed(v) /\ v.startTS = startTS[t] /\ v.commitTS = commitTS[t]
  BY Zenon DEF Committed
<1>5. writes'[k] = PutValue(writes[k], v) BY <1>1, Zenon DEF commitLock
<1> HIDE DEF v
<1>6. writes'[k] = writes[k] \cup {v} BY <1>4, <1>5, PutCommit, Zenon DEF StoreInv
<1>7. writes[k] \in SUBSET mvccValue BY Zenon DEF StoreInv, TypeOK, DBTypeOK
<1> QED BY <1>3, <1>4, <1>6, <1>7, Zenon DEF Commits

\* rollbackLock rolls the key back for t.
LEMMA RollbackLockStep ==
  ASSUME StoreInv, NEW k \in Key, NEW t \in Txn, startTS[t] # 0,
         \/ LockedBy(k, startTS[t]) /\ lock'[k] = NoLock
         \/ ~ Touched(t, k) /\ lock'[k] = lock[k],
         writes'[k] = rollbackLock(k, startTS[t])
  PROVE  RollsBack(t, k) /\ writes'[k] \in SUBSET mvccValue
<1>1. ~ Recorded(t, k) BY LockedIsNotRecorded, Zenon DEF StoreInv, Touched
<1>2. writes'[k] = writes[k] \cup {Tombstone(startTS[t])}
  BY <1>1, PutTombstone, Zenon DEF StoreInv, rollbackLock
<1>3. startTS[t] \in Uint64 BY Numbers DEF StoreInv, Uint64
<1>4. Tombstone(startTS[t]) \in mvccValue
  BY <1>3, ValueAssumption, Zenon DEF Tombstone, mvccValue
<1>5. writes[k] \in SUBSET mvccValue BY Zenon DEF StoreInv, TypeOK, DBTypeOK
<1> QED BY <1>2, <1>4, <1>5, Zenon DEF RollsBack

\* Rolling back leaves a rollback record and nothing else.
LEMMA RollsBackRecords ==
  ASSUME NEW k \in Key, NEW t \in Txn, RollsBack(t, k), UNCHANGED startTS
  PROVE  RolledBackOn(t, k)' /\ (CommittedOn(t, k)' => CommittedOn(t, k))
<1>1. Tombstone(startTS[t]).startTS = startTS[t] /\ ~ Committed(Tombstone(startTS[t]))
  BY Zenon DEF Tombstone, Committed
<1> QED BY <1>1, Zenon DEF RollsBack, RolledBackOn, CommittedOn

\* Committing leaves a commit record and nothing else.
LEMMA CommitsRecords ==
  ASSUME NEW k \in Key, NEW t \in Txn, Commits(t, k), UNCHANGED startTS
  PROVE  CommittedOn(t, k)' /\ (RolledBackOn(t, k)' => RolledBackOn(t, k))
BY Zenon DEF Commits, RolledBackOn, CommittedOn

\* A key left alone.
LEMMA SameRecords ==
  ASSUME NEW k \in Key, NEW t \in Txn, Same(k), UNCHANGED startTS
  PROVE  /\ CommittedOn(t, k)' <=> CommittedOn(t, k)
         /\ RolledBackOn(t, k)' <=> RolledBackOn(t, k)
         /\ LockedBy(k, startTS[t])' <=> LockedBy(k, startTS[t])
BY Zenon DEF Same, RolledBackOn, CommittedOn, LockedBy

\* A request that fails.
LEMMA FailedStep ==
  ASSUME StoreInv, UNCHANGED <<db, startTS>>, NEW t \in Txn
  PROVE  /\ TxnStep(t)
         /\ \A k \in Key : /\ CommittedOn(t, k)' <=> CommittedOn(t, k)
                           /\ RolledBackOn(t, k)' <=> RolledBackOn(t, k)
                           /\ LockedBy(k, startTS[t])' <=> LockedBy(k, startTS[t])
<1>1. DBTypeOK' BY Zenon DEF StoreInv, TypeOK, DBTypeOK, db
<1>2. \A k \in Key : Same(k) BY Zenon DEF Same, db
<1> QED BY <1>1, <1>2, SameRecords, Zenon DEF TxnStep, KeyStep

\* Prewrite locks the keys of its batch or does nothing.
LEMMA PrewriteStep ==
  ASSUME StoreInv, Disciplined, UNCHANGED startTS, NEW t \in Txn, startTS[t] # 0,
         NEW ks \in SUBSET Keys(t),
         Prewrite(Restriction(Mutations[t], ks), Primary[t], startTS[t], TTL)
  PROVE  /\ TxnStep(t) /\ writes' = writes
         /\ PrewriteOK(Restriction(Mutations[t], ks), startTS[t]) =>
              \A k \in ks : LockedBy(k, startTS[t])'
         /\ \A k \in Key : LockedBy(k, startTS[t])' => LockedBy(k, startTS[t]) \/
              (k \in ks /\ PrewriteOK(Restriction(Mutations[t], ks), startTS[t]))
<1> DEFINE ms == Restriction(Mutations[t], ks)
<1>1. DOMAIN ms = ks /\ \A k \in ks : ms[k] = Mutations[t][k] BY Zenon DEF Restriction
<1>2. ks \subseteq Key BY KeysAreKeys, Zenon
<1>3. CASE ~ PrewriteOK(ms, startTS[t])
  <2>1. UNCHANGED <<db, startTS>> BY <1>3, Zenon DEF Prewrite
  <2> QED BY <1>3, <2>1, FailedStep, Zenon DEF db
<1>4. CASE PrewriteOK(ms, startTS[t])
  <2> DEFINE l(k) == newLock(ms[k], Primary[t], startTS[t], TTL)
  <2>1. /\ lock' = [k \in Key |-> IF k \in ks /\ lock[k] = NoLock THEN l(k)
                                  ELSE lock[k]]
        /\ writes' = writes
    BY <1>1, <1>4, Zenon DEF Prewrite
  <2>2. ASSUME NEW k \in ks
        PROVE  /\ l(k) \in mvccLock /\ l(k) # NoLock /\ l(k).startTS = startTS[t]
               /\ l(k).op # "Lock" /\ l(k).ttl = TTL
    <3>1. ms[k] = Mutations[t][k] /\ ms[k] \in Mutation /\ ms[k].op # "Lock"
      BY <1>1, TxnAssumption, Zenon DEF Keys, Disciplined
    <3>2. startTS[t] \in Uint64 /\ TTL \in Uint64 /\ 0 \in Uint64
      BY Numbers, TxnAssumption, WordAssumption DEF StoreInv, Uint64
    <3>3. Primary[t] \in Key BY KeysAreKeys, Zenon
    <3>4. l(k) = [startTS |-> startTS[t], primary |-> Primary[t], value |-> ms[k].value,
                  op |-> ms[k].op, ttl |-> TTL, minCommitTS |-> 0]
      BY DEF newLock, MarshalBinary
    <3> QED BY <3>1, <3>2, <3>3, <3>4, NoLockAssumption DEF mvccLock, Mutation
  <2> HIDE DEF l
  <2>3. DBTypeOK' BY <2>1, <2>2, Zenon DEF DBTypeOK, StoreInv, TypeOK
  <2>4. ASSUME NEW k \in Key PROVE KeyStep(t, k)
    <3>1. CASE k \in ks /\ lock[k] = NoLock
      <4>1. ~ WriteConflict(k, startTS[t])
        BY <1>1, <1>4, <3>1, Zenon DEF PrewriteOK, prewriteOK, LockedBy
      <4> QED BY <2>1, <2>2, <3>1, <4>1, Zenon DEF KeyStep, Puts
    <3>2. CASE ~ (k \in ks /\ lock[k] = NoLock) BY <2>1, <3>2, Zenon DEF KeyStep, Same
    <3> QED BY <3>1, <3>2, Zenon
  <2>5. ASSUME NEW k \in ks PROVE LockedBy(k, startTS[t])'
    BY <1>1, <1>2, <1>4, <2>1, <2>2, Zenon DEF PrewriteOK, prewriteOK, LockedBy
  <2>6. \A k \in Key : LockedBy(k, startTS[t])' => LockedBy(k, startTS[t]) \/ k \in ks
    BY <2>1, Zenon DEF LockedBy
  <2> QED BY <1>4, <2>1, <2>3, <2>4, <2>5, <2>6, Zenon DEF TxnStep
<1> QED BY <1>3, <1>4, Zenon

\* Commit commits every key of its batch or does nothing.
LEMMA CommitStep ==
  ASSUME StoreInv, UNCHANGED startTS, NEW t \in Txn, commitTS[t] # 0,
         NEW ks \in SUBSET Key, Commit(ks, startTS[t], commitTS[t])
  PROVE  /\ TxnStep(t)
         /\ CommitOK(ks, startTS[t]) => \A k \in ks : CommittedOn(t, k)'
         /\ \A k \in Key :
              /\ CommittedOn(t, k)' => CommittedOn(t, k) \/ CommitOK(ks, startTS[t])
              /\ RolledBackOn(t, k)' => RolledBackOn(t, k)
              /\ LockedBy(k, startTS[t])' => LockedBy(k, startTS[t])
<1>1. CASE ~ CommitOK(ks, startTS[t])
  <2>1. UNCHANGED <<db, startTS>> BY <1>1, Zenon DEF Commit
  <2> QED BY <1>1, <2>1, FailedStep, Zenon
<1>2. CASE CommitOK(ks, startTS[t])
  <2> DEFINE own == {k \in ks : LockedBy(k, startTS[t])}
  <2>1. /\ lock' = [k \in Key |-> IF k \in own THEN NoLock ELSE lock[k]]
        /\ writes' = [k \in Key |-> IF k \in own
                                    THEN commitLock(k, startTS[t], commitTS[t])
                                    ELSE writes[k]]
    BY <1>2, Zenon DEF Commit, DeleteLocks
  <2>2. ASSUME NEW k \in own PROVE Commits(t, k) /\ writes'[k] \in SUBSET mvccValue
    <3>1. k \in Key /\ LockedBy(k, startTS[t]) /\ lock'[k] = NoLock
          /\ writes'[k] = commitLock(k, startTS[t], commitTS[t])
      BY <2>1, Zenon
    <3> QED BY <3>1, CommitLockStep, Zenon
  <2>3. ASSUME NEW k \in Key, k \notin own PROVE Same(k) BY <2>1, <2>3, Zenon DEF Same
  <2>4. ASSUME NEW k \in ks, k \notin own PROVE CommittedOn(t, k)
    BY <1>2, <2>4, CommitInfo, Zenon DEF CommitOK, commitOK, StoreInv
  <2>5. DBTypeOK'
    <3> HIDE DEF own
    <3>1. DBTypeOK BY Zenon DEF StoreInv, TypeOK
    <3> QED BY <2>1, <2>2, <3>1, Zenon DEF DBTypeOK
  <2>6. \A k \in own : k \in Key /\ LockedBy(k, startTS[t]) BY Zenon
  <2> HIDE DEF own
  <2>7. ASSUME NEW k \in Key
        PROVE  /\ KeyStep(t, k)
               /\ k \in ks => CommittedOn(t, k)'
               /\ RolledBackOn(t, k)' => RolledBackOn(t, k)
               /\ LockedBy(k, startTS[t])' => LockedBy(k, startTS[t])
    <3>1. CASE k \in own BY <2>2, <2>6, <3>1, CommitsRecords, Zenon DEF KeyStep
    <3>2. CASE k \notin own BY <2>3, <2>4, <3>2, SameRecords, Zenon DEF KeyStep
    <3> QED BY <3>1, <3>2, Zenon
  <2> QED BY <1>2, <2>5, <2>7, Zenon DEF TxnStep
<1> QED BY <1>1, <1>2, Zenon

\* Rollback rolls back every key of its batch or does nothing.
LEMMA RollbackStep ==
  ASSUME StoreInv, UNCHANGED startTS, NEW t \in Txn, startTS[t] # 0,
         NEW ks \in SUBSET Key, Rollback(ks, startTS[t])
  PROVE  /\ TxnStep(t)
         /\ RollbackOK(ks, startTS[t]) => \A k \in ks : RolledBackOn(t, k)'
         /\ \A k \in Key :
              /\ RolledBackOn(t, k)' =>
                   RolledBackOn(t, k) \/ (k \in ks /\ RollbackOK(ks, startTS[t]))
              /\ CommittedOn(t, k)' => CommittedOn(t, k)
              /\ LockedBy(k, startTS[t])' => LockedBy(k, startTS[t])
<1>1. CASE ~ RollbackOK(ks, startTS[t])
  <2>1. UNCHANGED <<db, startTS>> BY <1>1, Zenon DEF Rollback
  <2> QED BY <1>1, <2>1, FailedStep, Zenon
<1>2. CASE RollbackOK(ks, startTS[t])
  <2> DEFINE own == {k \in ks : LockedBy(k, startTS[t])}
             put == {k \in ks : LockedBy(k, startTS[t]) \/ ~ Recorded(t, k)}
  <2>1. /\ lock' = [k \in Key |-> IF k \in own THEN NoLock ELSE lock[k]]
        /\ writes' = [k \in Key |-> IF k \in put THEN rollbackLock(k, startTS[t])
                                    ELSE writes[k]]
    BY <1>2, Zenon DEF Rollback, DeleteLocks, rollbackKey, Recorded
  <2>2. ASSUME NEW k \in put PROVE RollsBack(t, k) /\ writes'[k] \in SUBSET mvccValue
    <3>1. k \in Key /\ writes'[k] = rollbackLock(k, startTS[t])
          /\ \/ LockedBy(k, startTS[t]) /\ lock'[k] = NoLock
             \/ ~ Touched(t, k) /\ lock'[k] = lock[k]
      BY <2>1, Zenon DEF Touched
    <3> QED BY <3>1, RollbackLockStep, Zenon
  <2>3. ASSUME NEW k \in Key, k \notin put PROVE Same(k) BY <2>1, <2>3, Zenon DEF Same
  <2>4. ASSUME NEW k \in ks, k \notin put PROVE RolledBackOn(t, k)
    <3>1. Recorded(t, k) /\ ~ AlreadyCommitted(k, startTS[t])
      BY <1>2, <2>4, Zenon DEF RollbackOK, rollbackOK
    <3> QED BY <3>1, CommitInfo, Zenon DEF StoreInv
  <2>5. DBTypeOK'
    <3> HIDE DEF own, put
    <3>1. DBTypeOK BY Zenon DEF StoreInv, TypeOK
    <3> QED BY <2>1, <2>2, <3>1, Zenon DEF DBTypeOK
  <2>6. put \subseteq ks BY Zenon
  <2>7. \A k \in Key : LockedBy(k, startTS[t])' => LockedBy(k, startTS[t])
    BY <2>1, Zenon DEF LockedBy
  <2> HIDE DEF own, put
  <2>8. ASSUME NEW k \in Key
        PROVE  /\ KeyStep(t, k)
               /\ k \in ks => RolledBackOn(t, k)'
               /\ RolledBackOn(t, k)' => RolledBackOn(t, k) \/ k \in ks
               /\ CommittedOn(t, k)' => CommittedOn(t, k)
    <3>1. CASE k \in put BY <2>2, <2>6, <3>1, RollsBackRecords, Zenon DEF KeyStep
    <3>2. CASE k \notin put BY <2>3, <2>4, <3>2, SameRecords, Zenon DEF KeyStep
    <3> QED BY <3>1, <3>2, Zenon
  <2> QED BY <1>2, <2>5, <2>7, <2>8, Zenon DEF TxnStep
<1> QED BY <1>1, <1>2, Zenon

\* CheckTxnStatus rolls an expired lock back or rewrites a live one.
LEMMA CheckTxnStatusStep ==
  ASSUME StoreInv, UNCHANGED startTS, NEW t \in Txn, startTS[t] # 0, NEW k \in Key,
         NEW caller, NEW current, CheckTxnStatus(k, startTS[t], caller, current)
  PROVE  /\ TxnStep(t)
         /\ LockedBy(k, startTS[t]) /\ Expired(lock[k], current) => RolledBackOn(t, k)'
         /\ \A j \in Key :
              /\ RolledBackOn(t, j)' => RolledBackOn(t, j) \/ RolledBackOn(t, k)'
              /\ CommittedOn(t, j)' => CommittedOn(t, j)
              /\ LockedBy(j, startTS[t])' => LockedBy(j, startTS[t])
<1>0. DBTypeOK BY Zenon DEF StoreInv, TypeOK
<1>1. CASE LockedBy(k, startTS[t]) /\ Expired(lock[k], current)
  <2>1. /\ lock' = [j \in Key |-> IF j = k THEN NoLock ELSE lock[j]]
        /\ writes' = [writes EXCEPT ![k] = rollbackLock(k, startTS[t])]
    BY <1>1, Zenon DEF CheckTxnStatus, DeleteLocks
  <2>2. lock'[k] = NoLock /\ writes'[k] = rollbackLock(k, startTS[t])
    BY <1>0, <2>1, Zenon DEF DBTypeOK
  <2>3. RollsBack(t, k) /\ writes'[k] \in SUBSET mvccValue
    BY <1>1, <2>2, RollbackLockStep, Zenon
  <2>4. DBTypeOK' BY <1>0, <2>1, <2>2, <2>3, Zenon DEF DBTypeOK
  <2>5. \A j \in Key \ {k} : Same(j) BY <1>0, <2>1, Zenon DEF Same, DBTypeOK
  <2>6. RolledBackOn(t, k)' /\ (CommittedOn(t, k)' => CommittedOn(t, k))
    BY <2>3, RollsBackRecords, Zenon
  <2>7. \A j \in Key : LockedBy(j, startTS[t])' => LockedBy(j, startTS[t])
    BY <2>1, Zenon DEF LockedBy
  <2>8. \A j \in Key \ {k} : CommittedOn(t, j)' => CommittedOn(t, j)
    BY <2>5, SameRecords, Zenon
  <2>9. \A j \in Key : KeyStep(t, j) BY <2>3, <2>5, Zenon DEF KeyStep
  <2> QED BY <2>4, <2>6, <2>7, <2>8, <2>9, Zenon DEF TxnStep
<1>2. CASE LockedBy(k, startTS[t]) /\ ~ Expired(lock[k], current)
  <2> DEFINE l == MarshalBinary(PushMinCommitTS(lock[k], caller, current))
  <2>1. lock' = [lock EXCEPT ![k] = l] /\ writes' = writes
    BY <1>2, Zenon DEF CheckTxnStatus
  <2>2. lock[k] \in mvccLock BY <1>0, <1>2, Zenon DEF DBTypeOK, LockedBy
  <2>3. l = [lock[k] EXCEPT !.minCommitTS = 0]
    <3>1. \A n : [[lock[k] EXCEPT !.minCommitTS = n] EXCEPT !.minCommitTS = 0] =
                   [lock[k] EXCEPT !.minCommitTS = 0]
      BY <2>2, Zenon DEF mvccLock
    <3> QED BY <3>1, Zenon DEF MarshalBinary, PushMinCommitTS
  <2>4. 0 \in Uint64 BY WordAssumption DEF Uint64
  <2>5. l \in mvccLock /\ l.startTS = lock[k].startTS /\ l.op = lock[k].op
        /\ l.ttl = lock[k].ttl
    BY <2>2, <2>3, <2>4, Zenon DEF mvccLock
  <2>6. l # NoLock BY <2>5, NoLockAssumption, Zenon
  <2> HIDE DEF l
  <2>7. DBTypeOK' BY <1>0, <2>1, <2>5, Zenon DEF DBTypeOK
  <2>8. lock'[k] = l /\ \A j \in Key \ {k} : lock'[j] = lock[j]
    BY <1>0, <2>1, Zenon DEF DBTypeOK
  <2>9. Rewrites(t, k) BY <1>2, <2>1, <2>5, <2>6, <2>8, Zenon DEF Rewrites
  <2>10. \A j \in Key : KeyStep(t, j) BY <2>1, <2>8, <2>9, Zenon DEF KeyStep, Same
  <2>11. \A j \in Key : /\ RolledBackOn(t, j)' <=> RolledBackOn(t, j)
                        /\ CommittedOn(t, j)' <=> CommittedOn(t, j)
    BY <2>1, Zenon DEF RolledBackOn, CommittedOn
  <2>12. \A j \in Key : LockedBy(j, startTS[t])' => LockedBy(j, startTS[t])
    BY <1>2, <2>5, <2>8, Zenon DEF LockedBy
  <2> QED BY <1>2, <2>7, <2>10, <2>11, <2>12, Zenon DEF TxnStep
<1>3. CASE ~ LockedBy(k, startTS[t])
  <2>1. UNCHANGED <<db, startTS>> BY <1>3, Zenon DEF CheckTxnStatus
  <2> QED BY <1>3, <2>1, FailedStep, Zenon
<1> QED BY <1>1, <1>2, <1>3, Zenon

\* ResolveLock commits the locks of t in the region, or rolls them back.
LEMMA ResolveLockStep ==
  ASSUME StoreInv, UNCHANGED startTS, NEW t \in Txn, startTS[t] # 0,
         NEW c, c = 0 \/ (c = commitTS[t] /\ commitTS[t] # 0), NEW b, NEW e,
         ResolveLock(b, e, startTS[t], c)
  PROVE  /\ TxnStep(t)
         /\ \A k \in Key :
              /\ c = 0 => (CommittedOn(t, k)' => CommittedOn(t, k))
              /\ c # 0 => (RolledBackOn(t, k)' => RolledBackOn(t, k))
              /\ LockedBy(k, startTS[t])' => LockedBy(k, startTS[t])
<1> DEFINE hit == {k \in Key : InRange(k, b, e) /\ LockedBy(k, startTS[t])}
<1>1. /\ lock' = [k \in Key |-> IF k \in hit THEN NoLock ELSE lock[k]]
      /\ writes' = [k \in Key |-> IF k \in hit THEN resolveLock(k, startTS[t], c)
                                  ELSE writes[k]]
  BY Zenon DEF ResolveLock, DeleteLocks
<1>2. commitTS[t] \in Nat BY Numbers, Zenon DEF StoreInv
<1>3. ASSUME NEW k \in hit
      PROVE  /\ writes'[k] \in SUBSET mvccValue
             /\ c = 0 => RollsBack(t, k)
             /\ c # 0 => Commits(t, k)
  <2>1. k \in Key /\ LockedBy(k, startTS[t]) /\ lock'[k] = NoLock
        /\ writes'[k] = resolveLock(k, startTS[t], c)
    BY <1>1, Zenon
  <2>2. CASE c = 0
    <3>1. writes'[k] = rollbackLock(k, startTS[t]) BY <2>1, <2>2 DEF resolveLock
    <3> QED BY <2>1, <2>2, <3>1, RollbackLockStep, Zenon
  <2>3. CASE c # 0
    <3>1. c = commitTS[t] /\ commitTS[t] # 0 /\ c > 0 BY <1>2, <2>3
    <3>2. writes'[k] = commitLock(k, startTS[t], commitTS[t])
      BY <2>1, <3>1, Zenon DEF resolveLock
    <3> QED BY <2>1, <2>3, <3>1, <3>2, CommitLockStep, Zenon
  <2> QED BY <2>2, <2>3, Zenon
<1>4. \A k \in Key : LockedBy(k, startTS[t])' => LockedBy(k, startTS[t])
  BY <1>1, Zenon DEF LockedBy
<1>5. \A k \in Key \ hit : Same(k) BY <1>1, Zenon DEF Same
<1>6. hit \subseteq Key BY Zenon
<1> HIDE DEF hit
<1>7. DBTypeOK'
  <2>1. DBTypeOK BY Zenon DEF StoreInv, TypeOK
  <2> QED BY <1>1, <1>3, <2>1, Zenon DEF DBTypeOK
<1>8. ASSUME NEW k \in Key
      PROVE  /\ KeyStep(t, k)
             /\ c = 0 => (CommittedOn(t, k)' => CommittedOn(t, k))
             /\ c # 0 => (RolledBackOn(t, k)' => RolledBackOn(t, k))
  <2>1. CASE k \in hit BY <1>3, <2>1, RollsBackRecords, CommitsRecords, Zenon DEF KeyStep
  <2>2. CASE k \notin hit BY <1>5, <2>2, SameRecords, Zenon DEF KeyStep
  <2> QED BY <2>1, <2>2, Zenon
<1> QED BY <1>4, <1>7, <1>8, Zenon DEF TxnStep

--------------------------------------------------------------------------------
(* What such a step keeps *)

\* The transactions a handler does not work for are as they were.
LEMMA OthersKeep ==
  ASSUME StoreInv, NEW t \in Txn, TxnStep(t), UNCHANGED <<startTS, commitTS>>,
         NEW u \in Txn, u # t, ProtocolInv(u),
         phase'[u] = phase[u], acked'[u] = acked[u], acked[u] \subseteq Key,
         u \in met' <=> u \in met,
         \A c \in 0 .. MaxTS : <<u, c>> \in known' => <<u, c>> \in known
  PROVE  ProtocolInv(u)'
<1>1. ASSUME NEW k \in Key
      PROVE  /\ LockedBy(k, startTS[u])' <=> LockedBy(k, startTS[u])
             /\ TxnInfos(k, startTS[u])' = TxnInfos(k, startTS[u])
  BY StepOther, Zenon DEF StoreInv, TxnStep
<1>2. ASSUME NEW k \in Key
      PROVE  /\ LockedBy(k, startTS[u])' <=> LockedBy(k, startTS[u])
             /\ Touched(u, k)' <=> Touched(u, k)
             /\ CommittedOn(u, k)' <=> CommittedOn(u, k)
             /\ RolledBackOn(u, k)' <=> RolledBackOn(u, k)
  BY <1>1, Zenon DEF Touched, Recorded, TxnInfos, CommittedOn, RolledBackOn
<1>3. Primary[u] \in Key BY KeysAreKeys, Zenon
<1> QED BY <1>2, <1>3, Zenon DEF ProtocolInv

\* A handler's step is not seen by the reads that have returned.
LEMMA ReadsKeep ==
  ASSUME StoreInv, ReadInv, NEW t \in Txn, TxnStep(t),
         UNCHANGED <<startTS, commitTS, reads>>
  PROVE  ReadInv'
<1>1. ASSUME NEW r \in reads
      PROVE  /\ r.key \in Key /\ r.txn \in Txn
             /\ r.ver \in Nat
  BY TxnAssumption DEF StoreInv, TypeOK
<1>2. ASSUME NEW r \in reads, NEW u \in Txn, Recorded(u, r.key)
      PROVE  Recorded(u, r.key)'
  <2>1. r.key \in Key BY <1>1, Zenon
  <2>2. CASE u = t BY <1>2, <2>1, <2>2, StepKeeps, Zenon DEF TxnStep
  <2>3. CASE u # t
    <3>1. TxnInfos(r.key, startTS[u])' = TxnInfos(r.key, startTS[u])
      BY <2>1, <2>3, StepOther, Zenon DEF TxnStep, StoreInv
    <3> QED BY <1>2, <3>1, Zenon DEF Recorded
  <2> QED BY <2>2, <2>3, Zenon
<1>3. ASSUME NEW r \in reads
      PROVE  Visible(r.key, startTS[r.txn])' = Visible(r.key, startTS[r.txn])
  <2> DEFINE k == r.key
  <2>1. k \in Key /\ KeyStep(t, k) /\ EntryInv(k) BY <1>1, Zenon DEF TxnStep, StoreInv
  <2>2. CASE Same(k) \/ Puts(t, k) \/ Rewrites(t, k)
    BY <2>2, Zenon DEF Same, Puts, Rewrites, Visible
  <2>3. CASE RollsBack(t, k)
    <3>1. ~ Committed(Tombstone(startTS[t])) BY Zenon DEF Committed, Tombstone
    <3> QED BY <2>3, <3>1, Zenon DEF RollsBack, Visible
  <2>4. CASE Commits(t, k)
    <3>1. PICK v \in mvccValue : v.commitTS = commitTS[t] /\ writes'[k] = writes[k] \cup {v}
      BY <2>4, Zenon DEF Commits
    <3>2. ~ Recorded(t, k) /\ commitTS[t] # 0
      BY <2>1, <2>4, LockedIsNotRecorded, Zenon DEF Commits
    <3>3. k \in Keys(t) BY <2>1, <2>4 DEF Commits, EntryInv, LockedBy, StoreInv, OracleInv
    <3>4. ~ (v.commitTS =< startTS[r.txn]) BY <3>1, <3>2, <3>3, Zenon DEF ReadInv
    <3> QED BY <3>1, <3>4, Zenon DEF Visible
  <2> QED BY <2>1, <2>2, <2>3, <2>4, Zenon DEF KeyStep
<1>4. RepeatableReads' BY <1>3, Zenon DEF ReadInv, RepeatableReads, ReadVersion
<1> QED BY <1>2, <1>4, Zenon DEF ReadInv, Keys

\* It is enough to look at the transaction a handler works for.
LEMMA TxnStepKeepsInv ==
  ASSUME IInv, NEW t \in Txn, TxnStep(t),
         UNCHANGED <<tso, startTS, commitTS, reads>>,
         \A u \in Txn \ {t} :
           /\ phase'[u] = phase[u] /\ acked'[u] = acked[u] /\ (u \in met' <=> u \in met)
           /\ \A c \in 0 .. MaxTS : <<u, c>> \in known' => <<u, c>> \in known,
         TypeOK', PhaseInv', ProtocolInv(t)'
  PROVE  IInv'
<1>1. StoreInv BY Zenon DEF IInv, StoreInv
<1>2. OracleInv' BY Zenon DEF IInv, OracleInv
<1>3. ASSUME NEW k \in Key PROVE EntryInv(k)'
  BY <1>1, StepKeepsEntry, Zenon DEF TxnStep, StoreInv
<1>4. ReadInv' BY <1>1, ReadsKeep, Zenon DEF IInv
<1>5. ASSUME NEW u \in Txn, u # t PROVE ProtocolInv(u)'
  <2>1. acked[u] \subseteq Key BY Zenon DEF IInv, TypeOK
  <2>2. ProtocolInv(u) BY Zenon DEF IInv
  <2> QED BY <1>1, <1>5, <2>1, <2>2, OthersKeep, Zenon
<1> QED BY <1>2, <1>3, <1>4, <1>5, Zenon DEF IInv

\* What t left on its keys stays.
LEMMA StepKeepsAll ==
  ASSUME IInv, NEW t \in Txn, TxnStep(t), UNCHANGED startTS
  PROVE  \A k \in Key : /\ Touched(t, k) => Touched(t, k)'
                        /\ CommittedOn(t, k) => CommittedOn(t, k)'
                        /\ RolledBackOn(t, k) => RolledBackOn(t, k)'
BY StepKeeps, Zenon DEF TxnStep

--------------------------------------------------------------------------------
(* Steps of handlers keep the invariant *)

\* A prewrite locks a secondary only when the primary has been locked before or
\* is locked with it.
LEMMA KvPrewriteKeepsInv ==
  ASSUME Disciplined, IInv, NEW t \in Txn, NEW r \in Regions, KvPrewrite(t, r)
  PROVE  IInv'
<1> DEFINE ks == Batch(t, r)
           ok == PrewriteOK(Restriction(Mutations[t], ks), startTS[t])
<1>1. ks \in SUBSET Keys(t) /\ ks \in SUBSET Key BY KeysAreKeys, Zenon DEF Batch
<1>2. /\ startTS[t] # 0 /\ Primary[t] \in ks \cup acked[t]
      /\ Prewrite(Restriction(Mutations[t], ks), Primary[t], startTS[t], TTL)
      /\ UNCHANGED <<tso, startTS, commitTS, met, known, reads, phase>>
      /\ \/ acked' = acked
         \/ ok /\ phase[t] = "prewriting" /\ acked' = [acked EXCEPT ![t] = @ \cup ks]
  BY Zenon DEF KvPrewrite, Disciplined, PrewriteReply, resolver
<1> HIDE DEF ks, ok
<1>3. StoreInv BY Zenon DEF IInv, StoreInv
<1>4. /\ TxnStep(t) /\ writes' = writes
      /\ ok => \A k \in ks : LockedBy(k, startTS[t])'
      /\ \A k \in Key : LockedBy(k, startTS[t])' => LockedBy(k, startTS[t]) \/
                          (k \in ks /\ ok)
  BY <1>1, <1>2, <1>3, PrewriteStep, Zenon DEF ok
<1>5. \A k \in Key : Touched(t, k) => Touched(t, k)' BY <1>2, <1>4, StepKeepsAll, Zenon
<1>6. \A k \in Key : /\ CommittedOn(t, k)' <=> CommittedOn(t, k)
                     /\ RolledBackOn(t, k)' <=> RolledBackOn(t, k)
  BY <1>2, <1>4, Zenon DEF CommittedOn, RolledBackOn
<1>7. /\ acked' \in [Txn -> SUBSET Key]
      /\ \A u \in Txn \ {t} : acked'[u] = acked[u]
      /\ acked'[t] = acked[t] \/ (ok /\ phase[t] = "prewriting" /\ acked'[t] = acked[t] \cup ks)
  BY <1>1, <1>2, Zenon DEF IInv, TypeOK
<1>8. TypeOK' BY <1>2, <1>4, <1>7, Zenon DEF TypeOK, IInv, TxnStep
<1>9. PhaseInv'
  <2>1. acked[t] \subseteq Keys(t) BY Zenon DEF IInv, PhaseInv
  <2>2. phase[t] = "prewriting" => commitTS[t] = 0 BY Zenon DEF IInv, PhaseInv
  <2> QED BY <1>1, <1>2, <1>7, <2>1, <2>2, Zenon DEF IInv, PhaseInv, Keys
<1>10. ProtocolInv(t)'
  <2>1. ProtocolInv(t) /\ Primary[t] \in Key BY KeysAreKeys, Zenon DEF IInv
  <2>2. acked[t] \subseteq Key BY Zenon DEF IInv, TypeOK
  <2>3. ASSUME NEW k \in acked'[t] PROVE Touched(t, k)'
    BY <1>1, <1>4, <1>5, <1>7, <2>1, <2>2, Zenon DEF ProtocolInv, Touched
  <2>4. ASSUME NEW k \in Key, LockedBy(k, startTS[t])' PROVE Touched(t, Primary[t])'
    <3>1. CASE LockedBy(k, startTS[t]) BY <1>5, <2>1, <3>1, Zenon DEF ProtocolInv
    <3>2. CASE k \in ks /\ ok
      <4>1. CASE Primary[t] \in ks BY <1>4, <3>2, <4>1, Zenon DEF Touched
      <4>2. CASE Primary[t] \in acked[t] BY <1>5, <2>1, <4>2, Zenon DEF ProtocolInv
      <4> QED BY <1>2, <4>1, <4>2, Zenon
    <3> QED BY <1>4, <2>4, <3>1, <3>2, Zenon
  <2>5. t \in met' => Touched(t, Primary[t])' BY <1>2, <1>5, <2>1, Zenon DEF ProtocolInv
  <2> QED BY <1>2, <1>6, <2>1, <2>3, <2>4, <2>5, Zenon DEF ProtocolInv
<1> QED BY <1>2, <1>4, <1>7, <1>8, <1>9, <1>10, TxnStepKeepsInv, Zenon

\* A commit takes the primary with it or comes after it.  One that fails found a
\* key rolled back, and then the primary is.
LEMMA KvCommitKeepsInv ==
  ASSUME IInv, NEW t \in Txn, NEW r \in Regions, KvCommit(t, r)
  PROVE  IInv'
<1> DEFINE ks == Batch(t, r)
           ok == CommitOK(ks, startTS[t])
<1>1. ks \in SUBSET Keys(t) /\ ks \in SUBSET Key BY KeysAreKeys, Zenon DEF Batch
<1>2. /\ commitTS[t] # 0
      /\ Primary[t] \in ks \/ phase[t] = "committed"
      /\ Commit(ks, startTS[t], commitTS[t])
      /\ UNCHANGED <<tso, startTS, commitTS, met, known, reads, acked>>
      /\ \/ phase' = phase
         \/ /\ phase[t] = "committing" /\ Primary[t] \in ks
            /\ phase' = [phase EXCEPT ![t] = IF ok THEN "committed" ELSE "aborted"]
  BY Zenon DEF KvCommit, CommitReply, resolver
<1> HIDE DEF ks
<1>3. StoreInv BY Zenon DEF IInv, StoreInv
<1>4. /\ TxnStep(t)
      /\ ok => \A k \in ks : CommittedOn(t, k)'
      /\ \A k \in Key : /\ CommittedOn(t, k)' => CommittedOn(t, k) \/ ok
                        /\ RolledBackOn(t, k)' => RolledBackOn(t, k)
                        /\ LockedBy(k, startTS[t])' => LockedBy(k, startTS[t])
  BY <1>1, <1>2, <1>3, CommitStep, Zenon
<1>5. \A k \in Key : /\ Touched(t, k) => Touched(t, k)'
                     /\ CommittedOn(t, k) => CommittedOn(t, k)'
                     /\ RolledBackOn(t, k) => RolledBackOn(t, k)'
  BY <1>2, <1>4, StepKeepsAll, Zenon
<1>6. ProtocolInv(t) /\ Primary[t] \in Key /\ acked[t] \subseteq Key
  BY KeysAreKeys, Zenon DEF IInv, TypeOK
<1>7. ASSUME ~ ok, phase[t] = "committing" PROVE RolledBackOn(t, Primary[t])
  <2>1. PICK k \in ks : ~ commitOK(k, startTS[t]) BY <1>7, Zenon DEF CommitOK
  <2>2. k \in acked[t] /\ k \in Key BY <1>1, <1>2, Zenon DEF IInv, PhaseInv
  <2>3. Recorded(t, k) /\ ~ AlreadyCommitted(k, startTS[t])
    BY <1>6, <2>1, <2>2, Zenon DEF ProtocolInv, Touched, commitOK
  <2>4. RolledBackOn(t, k) BY <1>3, <2>2, <2>3, CommitInfo, Zenon DEF StoreInv
  <2> QED BY <1>6, <1>7, <2>2, <2>4, Zenon DEF ProtocolInv
<1>8. /\ phase' \in [Txn -> {"idle", "prewriting", "committing", "committed", "aborted"}]
      /\ \A u \in Txn \ {t} : phase'[u] = phase[u]
      /\ \/ phase'[t] = phase[t]
         \/ /\ phase[t] = "committing" /\ Primary[t] \in ks
            /\ IF ok THEN phase'[t] = "committed" ELSE phase'[t] = "aborted"
  BY <1>2, Zenon DEF IInv, TypeOK
<1> HIDE DEF ok
<1>9. TypeOK' BY <1>2, <1>4, <1>8, Zenon DEF TypeOK, IInv, TxnStep
<1>10. PhaseInv' BY <1>2, <1>8 DEF IInv, PhaseInv, Keys
<1>11. ProtocolInv(t)'
  <2>1. \A k \in acked'[t] : Touched(t, k)' BY <1>2, <1>5, <1>6, Zenon DEF ProtocolInv
  <2>2. \A k \in Key : LockedBy(k, startTS[t])' => Touched(t, Primary[t])'
    BY <1>4, <1>5, <1>6, Zenon DEF ProtocolInv
  <2>3. t \in met' => Touched(t, Primary[t])' BY <1>2, <1>5, <1>6, Zenon DEF ProtocolInv
  <2>4. ok => CommittedOn(t, Primary[t])' BY <1>2, <1>4, <1>5, <1>6, Zenon DEF ProtocolInv
  <2>5. \A k \in Key : CommittedOn(t, k)' => CommittedOn(t, Primary[t])'
    BY <1>4, <1>5, <1>6, <2>4, Zenon DEF ProtocolInv
  <2>6. \A k \in Key : RolledBackOn(t, k)' =>
          RolledBackOn(t, Primary[t])' \/ phase'[t] = "aborted"
    BY <1>4, <1>5, <1>6, <1>8, Zenon DEF ProtocolInv
  <2>7. phase'[t] = "aborted" => commitTS'[t] = 0 \/ RolledBackOn(t, Primary[t])'
    BY <1>2, <1>5, <1>6, <1>7, <1>8, Zenon DEF ProtocolInv
  <2>8. phase'[t] = "committed" => CommittedOn(t, Primary[t])'
    BY <1>5, <1>6, <1>8, <2>4, Zenon DEF ProtocolInv
  <2>9. \A c \in 0 .. MaxTS : <<t, c>> \in known' =>
          IF c = 0 THEN RolledBackOn(t, Primary[t])'
          ELSE c = commitTS'[t] /\ CommittedOn(t, Primary[t])'
    BY <1>2, <1>5, <1>6, Zenon DEF ProtocolInv
  <2> QED BY <2>1, <2>2, <2>3, <2>5, <2>6, <2>7, <2>8, <2>9, Zenon DEF ProtocolInv
<1> QED BY <1>2, <1>4, <1>8, <1>9, <1>10, <1>11, TxnStepKeepsInv, Zenon

\* A step that settles keys of t in agreement with its primary, and may tell
\* somebody the outcome.
LEMMA OutcomeStepKeepsInv ==
  ASSUME IInv, NEW t \in Txn, startTS[t] # 0, TxnStep(t),
         UNCHANGED <<tso, startTS, commitTS, phase, acked, met, reads>>,
         NEW c \in 0 .. MaxTS,
         \/ known' = known
         \/ /\ known' = known \cup {<<t, c>>}
            /\ IF c = 0 THEN RolledBackOn(t, Primary[t])'
               ELSE c = commitTS[t] /\ CommittedOn(t, Primary[t])',
         \A k \in Key :
           /\ LockedBy(k, startTS[t])' => LockedBy(k, startTS[t])
           /\ CommittedOn(t, k)' => CommittedOn(t, Primary[t])'
           /\ RolledBackOn(t, k)' => RolledBackOn(t, Primary[t])' \/ phase[t] = "aborted"
  PROVE  IInv'
<1>1. \A k \in Key : /\ Touched(t, k) => Touched(t, k)'
                     /\ CommittedOn(t, k) => CommittedOn(t, k)'
                     /\ RolledBackOn(t, k) => RolledBackOn(t, k)'
  BY StepKeepsAll, Zenon
<1>2. ProtocolInv(t) /\ Primary[t] \in Key /\ acked[t] \subseteq Key
  BY KeysAreKeys, Zenon DEF IInv, TypeOK
<1>3. known \subseteq Txn \X (0 .. MaxTS) BY Zenon DEF IInv, TypeOK
<1>4. known' \subseteq Txn \X (0 .. MaxTS) BY <1>3
<1>5. /\ \A u \in Txn \ {t}, d \in 0 .. MaxTS : <<u, d>> \in known' => <<u, d>> \in known
      /\ \A d \in 0 .. MaxTS : <<t, d>> \in known' => <<t, d>> \in known \/
           IF d = 0 THEN RolledBackOn(t, Primary[t])'
           ELSE d = commitTS[t] /\ CommittedOn(t, Primary[t])'
  BY Zenon
<1>6. TypeOK' BY <1>4, Zenon DEF TypeOK, IInv, TxnStep
<1>7. PhaseInv' BY <1>5, Zenon DEF IInv, PhaseInv, Keys
<1>8. ProtocolInv(t)'
  <2>1. \A k \in acked'[t] : Touched(t, k)' BY <1>1, <1>2, Zenon DEF ProtocolInv
  <2>2. \A k \in Key : LockedBy(k, startTS[t])' => Touched(t, Primary[t])'
    BY <1>1, <1>2, Zenon DEF ProtocolInv
  <2>3. t \in met' => Touched(t, Primary[t])' BY <1>1, <1>2, Zenon DEF ProtocolInv
  <2>4. phase'[t] = "aborted" => commitTS'[t] = 0 \/ RolledBackOn(t, Primary[t])'
    BY <1>1, <1>2, Zenon DEF ProtocolInv
  <2>5. phase'[t] = "committed" => CommittedOn(t, Primary[t])'
    BY <1>1, <1>2, Zenon DEF ProtocolInv
  <2>6. \A d \in 0 .. MaxTS : <<t, d>> \in known' =>
          IF d = 0 THEN RolledBackOn(t, Primary[t])'
          ELSE d = commitTS'[t] /\ CommittedOn(t, Primary[t])'
    BY <1>1, <1>2, <1>5, Zenon DEF ProtocolInv
  <2> QED BY <2>1, <2>2, <2>3, <2>4, <2>5, <2>6, Zenon DEF ProtocolInv
<1> QED BY <1>5, <1>6, <1>7, <1>8, TxnStepKeepsInv, Zenon

\* The client rolls back only when it has given up.
LEMMA KvBatchRollbackKeepsInv ==
  ASSUME IInv, NEW t \in Txn, NEW r \in Regions, KvBatchRollback(t, r)
  PROVE  IInv'
<1>1. Batch(t, r) \in SUBSET Key BY KeysAreKeys, Zenon DEF Batch
<1>2. /\ phase[t] = "aborted" /\ Rollback(Batch(t, r), startTS[t])
      /\ UNCHANGED <<tso, startTS, commitTS, phase, acked, met, known, reads>>
  BY Zenon DEF KvBatchRollback, client, resolver
<1>3. startTS[t] # 0 BY <1>2, Zenon DEF IInv, PhaseInv
<1>4. StoreInv BY Zenon DEF IInv, StoreInv
<1>5. TxnStep(t) /\ \A k \in Key : /\ CommittedOn(t, k)' => CommittedOn(t, k)
                                   /\ LockedBy(k, startTS[t])' => LockedBy(k, startTS[t])
  BY <1>1, <1>2, <1>3, <1>4, RollbackStep, Zenon
<1>6. \A k \in Key : CommittedOn(t, k)' => CommittedOn(t, Primary[t])'
  <2>1. \A k \in Key : CommittedOn(t, k) => CommittedOn(t, k)' BY <1>2, <1>5, StepKeepsAll, Zenon
  <2> QED BY <1>5, <2>1, KeysAreKeys, Zenon DEF IInv, ProtocolInv
<1>7. 0 \in 0 .. MaxTS BY TxnAssumption
<1> QED BY <1>2, <1>3, <1>5, <1>6, <1>7, OutcomeStepKeepsInv, Zenon

\* Cleanup settles the primary, and its answer is the record it leaves there.
LEMMA KvCleanupKeepsInv ==
  ASSUME IInv, NEW t \in Txn, KvCleanup(t)
  PROVE  IInv'
<1> DEFINE p == Primary[t]
           c == IF rollbackOK(p, startTS[t]) THEN 0
                ELSE getTxnCommitInfo(p, startTS[t]).commitTS
<1>1. p \in Key BY KeysAreKeys, Zenon
<1>2. /\ t \in met /\ Rollback({p}, startTS[t])
      /\ known' = known \cup {<<t, c>>} \/ known' = known
      /\ UNCHANGED <<tso, startTS, commitTS, phase, acked, met, reads>>
  BY Zenon DEF KvCleanup, Cleanup, Learn, client
<1> HIDE DEF p
<1>3. startTS[t] # 0 BY <1>2, Zenon DEF IInv, PhaseInv
<1>4. StoreInv BY Zenon DEF IInv, StoreInv
<1>5. RollbackOK({p}, startTS[t]) <=> rollbackOK(p, startTS[t]) BY Zenon DEF RollbackOK
<1>6. /\ TxnStep(t)
      /\ rollbackOK(p, startTS[t]) => RolledBackOn(t, p)'
      /\ \A k \in Key :
           /\ RolledBackOn(t, k)' => RolledBackOn(t, k) \/ RolledBackOn(t, p)'
           /\ CommittedOn(t, k)' => CommittedOn(t, k)
           /\ LockedBy(k, startTS[t])' => LockedBy(k, startTS[t])
  <2>1. {p} \in SUBSET Key BY <1>1, Zenon
  <2> QED BY <1>2, <1>3, <1>4, <1>5, <2>1, RollbackStep, Zenon
<1>7. \A k \in Key : /\ CommittedOn(t, k) => CommittedOn(t, k)'
                     /\ RolledBackOn(t, k) => RolledBackOn(t, k)'
  BY <1>2, <1>6, StepKeepsAll, Zenon
<1>8. c \in 0 .. MaxTS /\ IF c = 0 THEN RolledBackOn(t, p)'
                          ELSE c = commitTS[t] /\ CommittedOn(t, p)'
  <2>1. CASE rollbackOK(p, startTS[t]) BY <1>6, <2>1, TxnAssumption
  <2>2. CASE ~ rollbackOK(p, startTS[t])
    <3>1. CommittedOn(t, p) /\ c = commitTS[t] /\ commitTS[t] # 0
      BY <1>1, <1>4, <2>2, CommitInfo, Zenon DEF rollbackOK, StoreInv
    <3> QED BY <1>1, <1>4, <1>7, <3>1, Numbers DEF StoreInv
  <2> QED BY <2>1, <2>2, Zenon
<1> HIDE DEF c
<1>9. \A k \in Key : CommittedOn(t, k)' => CommittedOn(t, p)'
  BY <1>1, <1>6, <1>7, Zenon DEF IInv, ProtocolInv, p
<1>10. \A k \in Key : RolledBackOn(t, k)' => RolledBackOn(t, p)' \/ phase[t] = "aborted"
  BY <1>1, <1>6, <1>7, Zenon DEF IInv, ProtocolInv, p
<1> QED BY <1>2, <1>3, <1>6, <1>8, <1>9, <1>10, OutcomeStepKeepsInv, Zenon DEF p

\* CheckTxnStatus answers with the record on the primary, or rolls the primary
\* back: who has met a lock finds the primary locked or recorded.
LEMMA KvCheckTxnStatusKeepsInv ==
  ASSUME Disciplined, IInv, NEW t \in Txn, NEW caller \in Txn, NEW current,
         KvCheckTxnStatus(t, caller, current)
  PROVE  IInv'
<1> DEFINE p == Primary[t]
           status == TxnStatus(p, startTS[t], current)
           c == status.commitTS
<1>1. p \in Key BY KeysAreKeys, Zenon
<1>2. /\ t \in met /\ CheckTxnStatus(p, startTS[t], startTS[caller], current)
      /\ \/ status.ttl = 0 /\ known' = known \cup {<<t, c>>}
         \/ known' = known
      /\ UNCHANGED <<tso, startTS, commitTS, phase, acked, met, reads>>
  BY Zenon DEF KvCheckTxnStatus, Learn, client
<1> HIDE DEF p
<1>3. startTS[t] # 0 BY <1>2, Zenon DEF IInv, PhaseInv
<1>4. StoreInv BY Zenon DEF IInv, StoreInv
<1>5. /\ TxnStep(t)
      /\ LockedBy(p, startTS[t]) /\ Expired(lock[p], current) => RolledBackOn(t, p)'
      /\ \A k \in Key :
           /\ RolledBackOn(t, k)' => RolledBackOn(t, k) \/ RolledBackOn(t, p)'
           /\ CommittedOn(t, k)' => CommittedOn(t, k)
           /\ LockedBy(k, startTS[t])' => LockedBy(k, startTS[t])
  BY <1>1, <1>2, <1>3, <1>4, CheckTxnStatusStep, Zenon
<1>6. \A k \in Key : /\ CommittedOn(t, k) => CommittedOn(t, k)'
                     /\ RolledBackOn(t, k) => RolledBackOn(t, k)'
  BY <1>2, <1>5, StepKeepsAll, Zenon
<1>7. Touched(t, p) BY <1>2, Zenon DEF IInv, ProtocolInv, p
<1>8. c \in 0 .. MaxTS /\ (status.ttl = 0 => IF c = 0 THEN RolledBackOn(t, p)'
                                             ELSE c = commitTS[t] /\ CommittedOn(t, p)')
  <2>1. CASE LockedBy(p, startTS[t]) /\ Expired(lock[p], current)
    BY <1>5, <2>1, TxnAssumption DEF TxnStatus
  <2>2. CASE LockedBy(p, startTS[t]) /\ ~ Expired(lock[p], current)
    <3>1. lock[p].ttl = TTL BY <1>1, <1>4, <2>2, Zenon DEF StoreInv, EntryInv, LockedBy
    <3>2. TTL # 0 BY TxnAssumption, WordAssumption DEF Disciplined, Uint64
    <3> QED BY <2>2, <3>1, <3>2, TxnAssumption DEF TxnStatus
  <2>3. CASE ~ LockedBy(p, startTS[t])
    <3>1. Recorded(t, p) BY <1>7, <2>3, Zenon DEF Touched
    <3>2. CASE CommittedOn(t, p)
      <4>1. c = commitTS[t] /\ commitTS[t] # 0
        BY <1>1, <1>4, <2>3, <3>2, CommitInfo, Zenon DEF TxnStatus, StoreInv
      <4> QED BY <1>1, <1>4, <1>6, <3>2, <4>1, Numbers DEF StoreInv
    <3>3. CASE ~ CommittedOn(t, p)
      <4>1. c = 0 /\ RolledBackOn(t, p)
        BY <1>1, <1>4, <2>3, <3>1, <3>3, CommitInfo, Zenon DEF TxnStatus, StoreInv
      <4> QED BY <1>1, <1>6, <4>1, TxnAssumption
    <3> QED BY <3>2, <3>3, Zenon
  <2> QED BY <2>1, <2>2, <2>3, Zenon
<1> HIDE DEF c, status
<1>9. \A k \in Key : CommittedOn(t, k)' => CommittedOn(t, p)'
  BY <1>1, <1>5, <1>6, Zenon DEF IInv, ProtocolInv, p
<1>10. \A k \in Key : RolledBackOn(t, k)' => RolledBackOn(t, p)' \/ phase[t] = "aborted"
  BY <1>1, <1>5, <1>6, Zenon DEF IInv, ProtocolInv, p
<1> QED BY <1>2, <1>3, <1>5, <1>8, <1>9, <1>10, OutcomeStepKeepsInv, Zenon DEF p

\* A resolver settles the locks of t the way its primary is settled.
LEMMA KvResolveLockKeepsInv ==
  ASSUME IInv, NEW t \in Txn, NEW r \in Regions, KvResolveLock(t, r)
  PROVE  IInv'
<1> DEFINE p == Primary[t]
<1>1. p \in Key /\ ProtocolInv(t) BY KeysAreKeys, Zenon DEF IInv
<1>2. PICK c \in 0 .. MaxTS :
        /\ <<t, c>> \in known /\ ResolveLock(r.startKey, r.endKey, startTS[t], c)
        /\ UNCHANGED <<tso, startTS, commitTS, phase, acked, met, known, reads>>
  BY Zenon DEF KvResolveLock, client, resolver
<1>3. startTS[t] # 0 BY <1>2, Zenon DEF IInv, PhaseInv
<1>4. IF c = 0 THEN RolledBackOn(t, p) ELSE c = commitTS[t] /\ CommittedOn(t, p)
  BY <1>1, <1>2, Zenon DEF ProtocolInv
<1> HIDE DEF p
<1>5. StoreInv BY Zenon DEF IInv, StoreInv
<1>6. c = 0 \/ (c = commitTS[t] /\ commitTS[t] # 0) BY <1>4, Zenon
<1>7. /\ TxnStep(t)
      /\ \A k \in Key :
           /\ c = 0 => (CommittedOn(t, k)' => CommittedOn(t, k))
           /\ c # 0 => (RolledBackOn(t, k)' => RolledBackOn(t, k))
           /\ LockedBy(k, startTS[t])' => LockedBy(k, startTS[t])
  BY <1>2, <1>3, <1>5, <1>6, ResolveLockStep, Zenon
<1>8. \A k \in Key : /\ CommittedOn(t, k) => CommittedOn(t, k)'
                     /\ RolledBackOn(t, k) => RolledBackOn(t, k)'
  BY <1>2, <1>7, StepKeepsAll, Zenon
<1>9. \A k \in Key : CommittedOn(t, k)' => CommittedOn(t, p)'
  BY <1>1, <1>4, <1>7, <1>8, Zenon DEF ProtocolInv, p
<1>10. \A k \in Key : RolledBackOn(t, k)' => RolledBackOn(t, p)' \/ phase[t] = "aborted"
  BY <1>1, <1>4, <1>7, <1>8, Zenon DEF ProtocolInv, p
<1> QED BY <1>2, <1>3, <1>7, <1>9, <1>10, OutcomeStepKeepsInv, Zenon DEF p

--------------------------------------------------------------------------------
(* Steps of clients keep the invariant *)

\* Nothing in the database carries a timestamp that is not handed out yet.
LEMMA NothingFromTheFuture ==
  ASSUME StoreInv, NEW ts, ts > tso, ts \in Nat, NEW k \in Key
  PROVE  ~ LockedBy(k, ts) /\ \A w \in writes[k] : w.startTS # ts
BY Numbers DEF StoreInv, OracleInv, EntryInv, RecordOf, LockedBy

\* A transaction that begins gets a timestamp above all that was handed out.
LEMMA BeginKeepsInv ==
  ASSUME IInv, NEW t \in Txn, Begin(t)
  PROVE  IInv'
<1>1. /\ phase[t] = "idle" /\ tso < MaxTS /\ tso' = tso + 1
      /\ startTS' = [startTS EXCEPT ![t] = tso + 1]
      /\ phase' = [phase EXCEPT ![t] = "prewriting"]
      /\ UNCHANGED <<lock, writes, commitTS, acked, met, known, reads>>
  BY Zenon DEF Begin, getTS, db, resolver
<1>2. StoreInv BY Zenon DEF IInv, StoreInv
<1>3. tso \in Nat /\ MaxTS \in Nat /\ \A u \in Txn : startTS[u] \in Nat /\ commitTS[u] \in Nat
  BY <1>2, Numbers, Zenon DEF StoreInv
<1>4. startTS[t] = 0 /\ commitTS[t] = 0 /\ acked[t] = {} /\ t \notin met
      /\ \A c \in 0 .. MaxTS : <<t, c>> \notin known
  BY <1>1, Zenon DEF IInv, PhaseInv
<1>5. startTS'[t] = tso + 1 /\ \A u \in Txn \ {t} : startTS'[u] = startTS[u]
  BY <1>1, Zenon DEF IInv, TypeOK
<1>6. phase'[t] = "prewriting" /\ \A u \in Txn \ {t} : phase'[u] = phase[u]
  BY <1>1, Zenon DEF IInv, TypeOK
<1>7. TypeOK' BY <1>1, <1>3 DEF IInv, TypeOK, DBTypeOK
<1>8. OracleInv' BY <1>1, <1>3, <1>4, <1>5 DEF IInv, OracleInv
<1>9. PhaseInv'
  <2>1. ASSUME NEW u \in Txn, u # t
        PROVE  startTS'[u] = startTS[u] /\ phase'[u] = phase[u]
    BY <1>5, <1>6, <2>1, Zenon
  <2> QED BY <1>1, <1>3, <1>4, <1>5, <1>6, <2>1 DEF IInv, PhaseInv, Keys
<1>10. ASSUME NEW k \in Key PROVE EntryInv(k)'
  <2>1. \A w, u : u \in Txn \ {t} => (RecordOf(w, k, u)' <=> RecordOf(w, k, u))
    BY <1>1, <1>5, Zenon DEF RecordOf, Keys
  <2>2. EntryInv(k) BY Zenon DEF IInv
  <2>3. \A w \in writes'[k] : \E u \in Txn : RecordOf(w, k, u)'
    BY <1>1, <1>4, <2>1, <2>2 DEF EntryInv, RecordOf
  <2>4. lock'[k] # NoLock => \E u \in Txn : /\ startTS'[u] # 0
                                            /\ lock'[k].startTS = startTS'[u]
                                            /\ k \in Keys(u) /\ lock'[k].op # "Lock"
                                            /\ lock'[k].ttl = TTL
    BY <1>1, <1>4, <1>5, <2>2, Zenon DEF EntryInv
  <2> QED BY <1>1, <2>2, <2>3, <2>4, Zenon DEF EntryInv, Keys
<1>11. ASSUME NEW u \in Txn PROVE ProtocolInv(u)'
  <2>1. CASE u = t
    <3>1. \A k \in Key : ~ LockedBy(k, startTS[t])' /\ ~ CommittedOn(t, k)'
                         /\ ~ RolledBackOn(t, k)'
      BY <1>1, <1>2, <1>3, <1>5, NothingFromTheFuture, SMTT(30) DEF LockedBy, CommittedOn, RolledBackOn
    <3> QED BY <1>1, <1>4, <1>6, <2>1, <3>1, Zenon DEF ProtocolInv
  <2>2. CASE u # t
    <3>1. startTS'[u] = startTS[u] /\ phase'[u] = phase[u] BY <1>5, <1>6, <2>2, Zenon
    <3>2. ProtocolInv(u) BY Zenon DEF IInv
    <3> QED BY <1>1, <3>1, <3>2 DEF ProtocolInv, Touched, Recorded, TxnInfos, LockedBy,
               CommittedOn, RolledBackOn
  <2> QED BY <2>1, <2>2, Zenon
<1>12. ReadInv'
  <2>1. ASSUME NEW r \in reads PROVE r.txn \in Txn \ {t} /\ startTS'[r.txn] = startTS[r.txn]
    <3>1. r.txn \in Txn BY TxnAssumption, Zenon DEF IInv, TypeOK
    <3>2. startTS[r.txn] # 0 BY Zenon DEF IInv, ReadInv
    <3> QED BY <1>4, <1>5, <3>1, <3>2, Zenon
  <2>2. RepeatableReads'
    BY <1>1, <2>1, Zenon DEF IInv, ReadInv, RepeatableReads, ReadVersion, Visible
  <2>3. \A u \in Txn : commitTS'[u] # 0 => u # t /\ startTS'[u] = startTS[u]
    BY <1>1, <1>4, <1>5, Zenon
  <2> QED BY <1>1, <2>1, <2>2, <2>3 DEF IInv, ReadInv, Recorded, TxnInfos, Keys
<1> QED BY <1>7, <1>8, <1>9, <1>10, <1>11, <1>12, Zenon DEF IInv

\* A non-empty set of numbers has a smallest element.
LEMMA Smallest ==
  ASSUME NEW S \in SUBSET Nat, S # {}
  PROVE  \E n \in S : \A m \in S : n =< m
<1> DEFINE R == {p \in Nat \X Nat : p[1] < p[2]}
<1>1. IsWellFoundedOn(OpToRel(<, Nat), Nat) BY NatLessThanWellFounded, Zenon
<1>2. IsWellFoundedOn(R, Nat) BY <1>1, Zenon DEF OpToRel
<1>3. \A m, n \in Nat : m < n => <<m, n>> \in R BY Zenon
<1> HIDE DEF R
<1>4. PICK n \in S : \A m \in S : ~ (<<m, n>> \in R) BY <1>2, WFMin, Zenon
<1>5. ASSUME NEW m \in S PROVE n =< m
  <2>1. m \in Nat /\ n \in Nat BY Zenon
  <2>2. ~ (m < n) BY <1>3, <1>4, <2>1, Zenon
  <2> QED BY <2>1, <2>2
<1> QED BY <1>5, Zenon

\* What a snapshot shows of a key has a newest version.
LEMMA NewestVisible ==
  ASSUME StoreInv, NEW k \in Key, NEW ts, Visible(k, ts) # {}
  PROVE  /\ Newest(Visible(k, ts)) \in Visible(k, ts)
         /\ \A w \in Visible(k, ts) : w.commitTS =< Newest(Visible(k, ts)).commitTS
<1>1. ASSUME NEW w \in Visible(k, ts) PROVE w.commitTS \in Nat /\ w.commitTS =< MaxTS
  <2>1. w \in writes[k] BY Zenon DEF Visible
  <2>2. PICK u \in Txn : RecordOf(w, k, u) BY <2>1, Zenon DEF StoreInv, EntryInv
  <2> QED BY <2>2, Numbers, Zenon DEF RecordOf, StoreInv
<1> DEFINE S == {MaxTS - w.commitTS : w \in Visible(k, ts)}
<1>2. S \in SUBSET Nat BY <1>1, TxnAssumption
<1>3. S # {} BY Zenon
<1>4. PICK n \in S : \A m \in S : n =< m BY <1>2, <1>3, Smallest, Zenon
<1>5. PICK x \in Visible(k, ts) : n = MaxTS - x.commitTS BY Zenon
<1>6. ASSUME NEW w \in Visible(k, ts) PROVE w.commitTS =< x.commitTS
  <2>1. MaxTS - x.commitTS =< MaxTS - w.commitTS BY <1>4, <1>5, Zenon
  <2> QED BY <1>1, <2>1, TxnAssumption
<1> QED BY <1>6, Zenon DEF Newest

\* A commit timestamp is above every snapshot that was read.
LEMMA StartCommitKeepsInv ==
  ASSUME IInv, NEW t \in Txn, StartCommit(t)
  PROVE  IInv'
<1>1. /\ phase[t] = "prewriting" /\ acked[t] = Keys(t) /\ tso < MaxTS /\ tso' = tso + 1
      /\ commitTS' = [commitTS EXCEPT ![t] = tso + 1]
      /\ phase' = [phase EXCEPT ![t] = "committing"]
      /\ UNCHANGED <<lock, writes, startTS, acked, met, known, reads>>
  BY Zenon DEF StartCommit, getTS, db, resolver
<1>2. StoreInv BY Zenon DEF IInv, StoreInv
<1>3. tso \in Nat /\ MaxTS \in Nat /\ \A u \in Txn : startTS[u] \in Nat /\ commitTS[u] \in Nat
  BY <1>2, Numbers, Zenon DEF StoreInv
<1>4. startTS[t] # 0 /\ commitTS[t] = 0 BY <1>1, Zenon DEF IInv, PhaseInv
<1>5. commitTS'[t] = tso + 1 /\ \A u \in Txn \ {t} : commitTS'[u] = commitTS[u]
  BY <1>1, Zenon DEF IInv, TypeOK
<1>6. phase'[t] = "committing" /\ \A u \in Txn \ {t} : phase'[u] = phase[u]
  BY <1>1, Zenon DEF IInv, TypeOK
<1>7. TypeOK' BY <1>1, <1>3 DEF IInv, TypeOK, DBTypeOK
<1>8. OracleInv' BY <1>1, <1>3, <1>4, <1>5 DEF IInv, OracleInv
<1>9. PhaseInv'
  <2>1. ASSUME NEW u \in Txn, u # t
        PROVE  commitTS'[u] = commitTS[u] /\ phase'[u] = phase[u]
    BY <1>5, <1>6, <2>1, Zenon
  <2> QED BY <1>1, <1>3, <1>4, <1>5, <1>6, <2>1 DEF IInv, PhaseInv, Keys
<1>10. ASSUME NEW k \in Key PROVE EntryInv(k)'
  <2>1. ASSUME NEW w, NEW u \in Txn, RecordOf(w, k, u) PROVE RecordOf(w, k, u)'
    BY <1>1, <1>4, <1>5, <2>1 DEF RecordOf, Keys
  <2>2. EntryInv(k) BY Zenon DEF IInv
  <2>3. \A w \in writes'[k] : \E u \in Txn : RecordOf(w, k, u)'
    BY <1>1, <2>1, <2>2, Zenon DEF EntryInv
  <2> QED BY <1>1, <2>2, <2>3, Zenon DEF EntryInv, Keys
<1>11. ASSUME NEW u \in Txn PROVE ProtocolInv(u)'
  <2>1. ProtocolInv(u) BY Zenon DEF IInv
  <2>2. CASE u = t
    <3>1. \A c \in 0 .. MaxTS : <<t, c>> \in known => c = 0 /\ RolledBackOn(t, Primary[t])
      BY <1>4, <2>1, <2>2, Zenon DEF ProtocolInv
    <3> QED BY <1>1, <1>6, <2>1, <2>2, <3>1 DEF ProtocolInv, Touched, Recorded, TxnInfos,
               LockedBy, CommittedOn, RolledBackOn
  <2>3. CASE u # t
    <3>1. commitTS'[u] = commitTS[u] /\ phase'[u] = phase[u] BY <1>5, <1>6, <2>3, Zenon
    <3> QED BY <1>1, <2>1, <3>1, ZenonT(30) DEF ProtocolInv, Touched, Recorded, TxnInfos, LockedBy,
               CommittedOn, RolledBackOn
  <2> QED BY <2>2, <2>3, Zenon
<1>12. ReadInv'
  <2>1. ASSUME NEW r \in reads
        PROVE  r.txn \in Txn /\ startTS[r.txn] =< tso
    <3>1. r.txn \in Txn BY TxnAssumption, Zenon DEF IInv, TypeOK
    <3> QED BY <3>1, Zenon DEF IInv, OracleInv
  <2>2. RepeatableReads'
    BY <1>1, Zenon DEF IInv, ReadInv, RepeatableReads, ReadVersion, Visible
  <2>3. ASSUME NEW r \in reads, NEW u \in Txn, commitTS'[u] # 0,
               commitTS'[u] =< startTS'[r.txn], r.key \in Keys(u)
        PROVE  Recorded(u, r.key)'
    <3>1. u # t BY <1>1, <1>3, <1>5, <2>1, <2>3
    <3>2. commitTS'[u] = commitTS[u] BY <1>5, <3>1, Zenon
    <3> QED BY <1>1, <2>3, <3>2, Zenon DEF IInv, ReadInv, Recorded, TxnInfos
  <2> QED BY <1>1, <2>2, <2>3, Zenon DEF IInv, ReadInv, Keys
<1> QED BY <1>7, <1>8, <1>9, <1>10, <1>11, <1>12, Zenon DEF IInv

\* A client gives up before it has a commit timestamp.
LEMMA GiveUpKeepsInv ==
  ASSUME IInv, NEW t \in Txn, GiveUp(t)
  PROVE  IInv'
<1>1. /\ phase[t] = "prewriting" /\ phase' = [phase EXCEPT ![t] = "aborted"]
      /\ UNCHANGED <<lock, writes, tso, startTS, commitTS, acked, met, known, reads>>
  BY Zenon DEF GiveUp, db, resolver
<1>2. phase'[t] = "aborted" /\ \A u \in Txn \ {t} : phase'[u] = phase[u]
  BY <1>1, Zenon DEF IInv, TypeOK
<1>3. commitTS[t] = 0 /\ startTS[t] # 0 BY <1>1, Zenon DEF IInv, PhaseInv
<1>4. StoreInv BY Zenon DEF IInv, StoreInv
<1>5. TxnStep(t)
  <2>1. UNCHANGED <<db, startTS>> BY <1>1, Zenon DEF db
  <2> QED BY <1>4, <2>1, FailedStep, Zenon
<1>6. TypeOK' BY <1>1, Zenon DEF IInv, TypeOK, DBTypeOK
<1>7. PhaseInv' BY <1>1, <1>2, <1>3, Zenon DEF IInv, PhaseInv, Keys
<1>8. ProtocolInv(t)'
  <2>1. ProtocolInv(t) BY Zenon DEF IInv
  <2> QED BY <1>1, <1>2, <1>3, <2>1, ZenonT(30) DEF ProtocolInv, Touched, Recorded, TxnInfos, LockedBy,
             CommittedOn, RolledBackOn
<1> QED BY <1>1, <1>2, <1>5, <1>6, <1>7, <1>8, TxnStepKeepsInv, Zenon

\* Who meets a lock meets one whose primary is locked or recorded.
LEMMA MeetLockKeepsInv ==
  ASSUME IInv, NEW t \in Txn, MeetLock(t)
  PROVE  IInv'
<1>1. /\ startTS[t] # 0 /\ \E k \in Key : LockedBy(k, startTS[t])
      /\ met' = met \cup {t}
      /\ UNCHANGED <<lock, writes, tso, startTS, commitTS, phase, acked, known, reads>>
  BY Zenon DEF MeetLock, ScanLock, db, client
<1>2. Touched(t, Primary[t]) BY <1>1, Zenon DEF IInv, ProtocolInv
<1>3. StoreInv BY Zenon DEF IInv, StoreInv
<1>4. TxnStep(t)
  <2>1. UNCHANGED <<db, startTS>> BY <1>1, Zenon DEF db
  <2> QED BY <1>3, <2>1, FailedStep, Zenon
<1>5. TypeOK' BY <1>1, Zenon DEF IInv, TypeOK, DBTypeOK
<1>6. PhaseInv' BY <1>1, Zenon DEF IInv, PhaseInv, Keys
<1>7. ProtocolInv(t)'
  <2>1. ProtocolInv(t) BY Zenon DEF IInv
  <2> QED BY <1>1, <1>2, <2>1, ZenonT(30) DEF ProtocolInv, Touched, Recorded, TxnInfos, LockedBy,
             CommittedOn, RolledBackOn
<1> QED BY <1>1, <1>4, <1>5, <1>6, <1>7, TxnStepKeepsInv, Zenon

\* A read that is not refused finds a record for every commit below it: a key
\* of such a transaction that has no record still has its lock.
LEMMA UnlockedIsRecorded ==
  ASSUME IInv, NEW t \in Txn, NEW k \in Key, getValue(k, startTS[t], "SI").kind # "locked",
         NEW u \in Txn, commitTS[u] # 0, commitTS[u] =< startTS[t], k \in Keys(u)
  PROVE  Recorded(u, k)
<1>1. StoreInv BY Zenon DEF IInv, StoreInv
<1>2. Touched(u, k) BY ZenonT(30) DEF IInv, PhaseInv, ProtocolInv
<1>3. ASSUME LockedBy(k, startTS[u]) PROVE FALSE
  <2>1. startTS[u] < commitTS[u] BY Zenon DEF IInv, OracleInv
  <2>2. startTS[u] =< startTS[t] /\ startTS[t] # MaxUint64
    BY <1>1, <2>1, Numbers DEF StoreInv
  <2>3. lock[k] # NoLock /\ lock[k].startTS = startTS[u] /\ lock[k].op # "Lock"
    BY <1>1, <1>3, Zenon DEF LockedBy, StoreInv, EntryInv
  <2>4. Blocks(lock[k], startTS[t], k) BY <2>2, <2>3, Zenon DEF Blocks
  <2>5. getValue(k, startTS[t], "SI") = Locked(k) BY <2>3, <2>4, Zenon DEF getValue
  <2> QED BY <2>5 DEF Locked
<1> QED BY <1>2, <1>3, Zenon DEF Touched

\* A read that is answered keeps the invariant.
LEMMA KvGetKeepsInv ==
  ASSUME IInv, NEW t \in Txn, NEW k \in Key, KvGet(t, k)
  PROVE  IInv'
<1> DEFINE new == [txn |-> t, key |-> k, ver |-> ReadVersion(k, startTS[t])]
<1>1. /\ t \in Readers /\ startTS[t] # 0
      /\ getValue(k, startTS[t], "SI").kind # "locked"
      /\ reads' = reads \cup {new}
      /\ UNCHANGED <<lock, writes, tso, startTS, commitTS, phase, acked, met, known>>
  BY Zenon DEF KvGet, db, client, resolver
<1>2. StoreInv BY Zenon DEF IInv, StoreInv
<1>3. \A u \in Txn : (/\ commitTS[u] # 0 /\ commitTS[u] =< startTS[t]
                        /\ k \in Keys(u)) => Recorded(u, k)
  BY <1>1, UnlockedIsRecorded, Zenon
<1>4. ReadVersion(k, startTS[t]) \in 0 .. MaxTS
  <2>1. CASE Visible(k, startTS[t]) = {} BY <2>1, TxnAssumption DEF ReadVersion
  <2>2. CASE Visible(k, startTS[t]) # {}
    <3>1. ASSUME NEW w \in Visible(k, startTS[t])
          PROVE  w.commitTS \in Nat /\ w.commitTS =< MaxTS
      <4>1. w \in writes[k] BY Zenon DEF Visible
      <4>2. PICK u \in Txn : RecordOf(w, k, u) BY <1>2, <4>1, Zenon DEF StoreInv, EntryInv
      <4> QED BY <1>2, <4>2, Numbers, Zenon DEF RecordOf, StoreInv
    <3>2. Newest(Visible(k, startTS[t])) \in Visible(k, startTS[t])
      BY <1>2, <2>2, NewestVisible, Zenon
    <3> QED BY <2>2, <3>1, <3>2, TxnAssumption DEF ReadVersion
  <2> QED BY <2>1, <2>2, Zenon
<1>5. new \in [txn : Readers, key : Key, ver : 0 .. MaxTS] BY <1>1, <1>4, Zenon
<1>6. new.txn = t /\ new.key = k /\ new.ver = ReadVersion(k, startTS[t]) BY Zenon
<1> HIDE DEF new
<1>7. TypeOK' BY <1>1, <1>5, Zenon DEF IInv, TypeOK, DBTypeOK
<1>8. ReadInv'
  <2>1. RepeatableReads'
    BY <1>1, <1>6, Zenon DEF IInv, ReadInv, RepeatableReads, ReadVersion, Visible
  <2>2. \A u \in Txn, j \in Key : Recorded(u, j)' <=> Recorded(u, j)
    BY <1>1, Zenon DEF Recorded, TxnInfos
  <2>3. \A r \in reads : r.key \in Key BY Zenon DEF IInv, TypeOK
  <2> QED BY <1>1, <1>3, <1>6, <2>1, <2>2, <2>3, Zenon DEF IInv, ReadInv, Keys
<1>9. OracleInv' /\ PhaseInv' BY <1>1, Zenon DEF IInv, OracleInv, PhaseInv, Keys
<1>10. ASSUME NEW j \in Key PROVE EntryInv(j)'
  BY <1>1, ZenonT(30) DEF IInv, EntryInv, RecordOf, Keys
<1>11. ASSUME NEW u \in Txn PROVE ProtocolInv(u)'
  <2>1. ProtocolInv(u) BY Zenon DEF IInv
  <2> QED BY <1>1, <2>1, Zenon DEF ProtocolInv, Touched, Recorded, TxnInfos, LockedBy,
             CommittedOn, RolledBackOn
<1> QED BY <1>7, <1>8, <1>9, <1>10, <1>11, Zenon DEF IInv


--------------------------------------------------------------------------------
(* The invariant holds in every reachable state *)

\* The initial state satisfies the invariant.
LEMMA InitInv ==
  ASSUME Init
  PROVE  IInv
<1>1. MaxTS \in Nat /\ 0 \in 0 .. MaxTS BY TxnAssumption
<1>2. \A k \in Key : lock[k] = NoLock /\ writes[k] = {} BY Zenon DEF Init, InitDB
<1>3. \A t \in Txn : /\ startTS[t] = 0 /\ commitTS[t] = 0
                     /\ phase[t] = "idle" /\ acked[t] = {}
  BY Zenon DEF Init
<1>4. TypeOK BY <1>1, Zenon DEF Init, InitDB, TypeOK, DBTypeOK
<1>5. OracleInv /\ PhaseInv BY <1>3 DEF Init, OracleInv, PhaseInv
<1>6. ReadInv BY Zenon DEF Init, ReadInv, RepeatableReads
<1>7. \A k \in Key : EntryInv(k) BY <1>2, Zenon DEF EntryInv
<1>8. \A t \in Txn : ProtocolInv(t)
  BY <1>2, <1>3, KeysAreKeys, Zenon DEF Init, ProtocolInv, LockedBy, CommittedOn, RolledBackOn
<1> QED BY <1>4, <1>5, <1>6, <1>7, <1>8, Zenon DEF IInv

\* A step that changes nothing keeps the invariant.
LEMMA StutterKeepsInv ==
  ASSUME IInv, UNCHANGED vars
  PROVE  IInv'
<1>1. UNCHANGED <<lock, writes, tso, startTS, commitTS, phase, acked, met, known, reads>>
  BY Zenon DEF vars, db, client, resolver
<1>2. TypeOK' /\ OracleInv' /\ PhaseInv'
  BY <1>1, Zenon DEF IInv, TypeOK, DBTypeOK, OracleInv, PhaseInv, Keys
<1>3. ReadInv'
  BY <1>1 DEF IInv, ReadInv, RepeatableReads, ReadVersion, Visible, Recorded, TxnInfos, Keys
<1>4. \A k \in Key : EntryInv(k)' BY <1>1 DEF IInv, EntryInv, RecordOf, Keys
<1>5. ASSUME NEW t \in Txn PROVE ProtocolInv(t)'
  <2>1. ProtocolInv(t) BY Zenon DEF IInv
  <2> QED BY <1>1, <2>1, Zenon DEF ProtocolInv, Touched, Recorded, TxnInfos, LockedBy,
             CommittedOn, RolledBackOn
<1> QED BY <1>2, <1>3, <1>4, <1>5, Zenon DEF IInv

\* Every step keeps the invariant.
LEMMA NextKeepsInv ==
  ASSUME Disciplined, IInv, [Next]_vars
  PROVE  IInv'
<1>1. CASE UNCHANGED vars BY <1>1, StutterKeepsInv, Zenon
<1>2. ASSUME NEW t \in Txn, Begin(t) \/ GiveUp(t) \/ StartCommit(t) PROVE IInv'
  BY <1>2, BeginKeepsInv, GiveUpKeepsInv, StartCommitKeepsInv, Zenon
<1>3. ASSUME NEW t \in Txn, MeetLock(t) \/ KvCleanup(t) PROVE IInv'
  BY <1>3, MeetLockKeepsInv, KvCleanupKeepsInv, Zenon
<1>4. ASSUME NEW t \in Txn, NEW r \in Regions,
             KvPrewrite(t, r) \/ KvCommit(t, r) \/ KvBatchRollback(t, r) \/ KvResolveLock(t, r)
      PROVE  IInv'
  BY <1>4, KvPrewriteKeepsInv, KvCommitKeepsInv, KvBatchRollbackKeepsInv,
     KvResolveLockKeepsInv, Zenon
<1>5. ASSUME NEW t \in Txn, NEW k \in Key, KvGet(t, k) PROVE IInv'
  BY <1>5, KvGetKeepsInv, Zenon
<1>6. ASSUME NEW t \in Txn, NEW caller \in Txn, NEW currentTS,
             KvCheckTxnStatus(t, caller, currentTS)
      PROVE  IInv'
  BY <1>6, KvCheckTxnStatusKeepsInv, Zenon
<1> QED BY <1>1, <1>2, <1>3, <1>4, <1>5, <1>6, Zenon DEF Next

\* The inductive invariant holds throughout.
THEOREM Invariance ==
  ASSUME Disciplined
  PROVE  Spec => []IInv
<1>1. Init => IInv BY InitInv, Zenon
<1>2. IInv /\ [Next]_vars => IInv' BY NextKeepsInv, Zenon
<1> QED BY <1>1, <1>2, PTL DEF Spec

--------------------------------------------------------------------------------
(* What the invariant says *)

\* The state has its type: timestamps, phases, records and replies.
THEOREM TypeCorrect ==
  ASSUME Disciplined
  PROVE  Spec => []TypeOK
<1>1. IInv => TypeOK BY Zenon DEF IInv
<1> QED BY <1>1, Invariance, PTL

\* The record on the primary decides, so no transaction ends in both ways.
LEMMA OneOutcome ==
  ASSUME IInv, NEW t \in Txn, NEW j \in Key, NEW k \in Key, startTS[t] # 0,
         CommittedOn(t, j), RolledBackOn(t, k)
  PROVE  FALSE
<1>1. CommittedOn(t, Primary[t]) BY Zenon DEF IInv, ProtocolInv
<1>2. Primary[t] \in Key BY KeysAreKeys, Zenon
<1>3. EntryInv(Primary[t]) /\ OracleInv BY <1>2, Zenon DEF IInv
<1>4. ~ RolledBackOn(t, Primary[t]) /\ commitTS[t] # 0
  BY <1>1, <1>2, <1>3, CommitInfo, Zenon
<1> QED BY <1>4, Zenon DEF IInv, ProtocolInv

\* Whatever KvCommit, KvBatchRollback, KvCleanup, KvCheckTxnStatus and
\* KvResolveLock do and in whatever order, no transaction is committed on one
\* key and rolled back on another.
THEOREM AtomicityHolds ==
  ASSUME Disciplined
  PROVE  Spec => []Atomicity
<1>1. IInv => Atomicity BY OneOutcome, Zenon DEF Atomicity
<1> QED BY <1>1, Invariance, PTL

\* What KvCommit reported as committed stays, as a record or under its lock.
THEOREM SuccessHolds ==
  ASSUME Disciplined
  PROVE  Spec => []SuccessIsDurable
<1>1. ASSUME IInv PROVE SuccessIsDurable
  <2>1. SUFFICES ASSUME NEW t \in Txn, phase[t] = "committed", NEW k \in Keys(t)
                 PROVE  CommittedOn(t, k) \/ LockedBy(k, startTS[t])
    BY Zenon DEF SuccessIsDurable
  <2>2. CommittedOn(t, Primary[t]) /\ commitTS[t] # 0 /\ acked[t] = Keys(t)
        /\ startTS[t] # 0
    BY <1>1, <2>1, Zenon DEF IInv, ProtocolInv, PhaseInv, OracleInv
  <2>3. Touched(t, k) BY <1>1, <2>2, Zenon DEF IInv, ProtocolInv
  <2>4. k \in Key /\ Primary[t] \in Key BY KeysAreKeys, Zenon
  <2>5. ~ RolledBackOn(t, k) BY <1>1, <2>2, <2>4, OneOutcome, Zenon
  <2>6. Recorded(t, k) => CommittedOn(t, k)
    BY <1>1, <2>4, <2>5, CommitInfo, Zenon DEF IInv
  <2> QED BY <2>3, <2>6, Zenon DEF Touched
<1>2. IInv => SuccessIsDurable BY <1>1, Zenon
<1> QED BY <1>2, Invariance, PTL

\* A transaction whose client gave up or was told to restart commits nothing.
THEOREM FailureHolds ==
  ASSUME Disciplined
  PROVE  Spec => []FailureLeavesNothing
<1>1. ASSUME IInv PROVE FailureLeavesNothing
  <2>1. SUFFICES ASSUME NEW t \in Txn, phase[t] = "aborted", NEW k \in Key, CommittedOn(t, k)
                 PROVE  FALSE
    BY Zenon DEF FailureLeavesNothing
  <2>2. commitTS[t] # 0
    <3>1. EntryInv(k) /\ OracleInv BY <1>1, Zenon DEF IInv
    <3> QED BY <2>1, <3>1, CommitInfo, Zenon
  <2>3. startTS[t] # 0 BY <1>1, <2>2, Zenon DEF IInv, OracleInv
  <2>4. RolledBackOn(t, Primary[t]) /\ Primary[t] \in Key
    BY <1>1, <2>1, <2>2, KeysAreKeys, Zenon DEF IInv, ProtocolInv
  <2> QED BY <1>1, <2>1, <2>3, <2>4, OneOutcome, Zenon
<1>2. IInv => FailureLeavesNothing BY <1>1, Zenon
<1> QED BY <1>2, Invariance, PTL

\* A transaction reported as rolled back by KvCleanup or KvCheckTxnStatus
\* commits nothing afterwards.
THEOREM RollbackHolds ==
  ASSUME Disciplined
  PROVE  Spec => []RolledBackStaysSo
<1>1. ASSUME IInv PROVE RolledBackStaysSo
  <2>1. SUFFICES ASSUME NEW t \in Txn, <<t, 0>> \in known, NEW k \in Key, CommittedOn(t, k)
                 PROVE  FALSE
    BY Zenon DEF RolledBackStaysSo
  <2>2. 0 \in 0 .. MaxTS BY TxnAssumption
  <2>3. RolledBackOn(t, Primary[t]) /\ Primary[t] \in Key
    BY <1>1, <2>1, <2>2, KeysAreKeys, Zenon DEF IInv, ProtocolInv
  <2>4. startTS[t] # 0 BY <1>1, <2>1, <2>2, Zenon DEF IInv, PhaseInv
  <2> QED BY <1>1, <2>1, <2>3, <2>4, OneOutcome, Zenon
<1>2. IInv => RolledBackStaysSo BY <1>1, Zenon
<1> QED BY <1>2, Invariance, PTL

\* What KvGet returned for a snapshot, it returns for ever.
THEOREM RepeatableReadsHold ==
  ASSUME Disciplined
  PROVE  Spec => []RepeatableReads
<1>1. IInv => RepeatableReads BY Zenon DEF IInv, ReadInv
<1> QED BY <1>1, Invariance, PTL

\* Reads of one snapshot see all of a transaction or nothing of it.
THEOREM NoFracturedReadsHold ==
  ASSUME Disciplined
  PROVE  Spec => []NoFracturedReads
<1>1. ASSUME IInv PROVE NoFracturedReads
  <2>1. SUFFICES ASSUME NEW p \in reads, NEW q \in reads, NEW t \in Txn, p.txn = q.txn,
                        p.ver # 0, p.ver = commitTS[t], q.key \in Keys(t)
                 PROVE  q.ver >= p.ver
    BY Zenon DEF NoFracturedReads
  <2> DEFINE ts == startTS[p.txn]
  <2>2. /\ StoreInv /\ p.key \in Key /\ q.key \in Key
        /\ p.ver = ReadVersion(p.key, ts) /\ q.ver = ReadVersion(q.key, ts)
    BY <1>1, <2>1, Zenon DEF IInv, StoreInv, TypeOK, ReadInv, RepeatableReads
  <2> HIDE DEF ts
  <2>3. PICK v \in Visible(p.key, ts) : v.commitTS = p.ver
    BY <2>1, <2>2, NewestVisible, Zenon DEF ReadVersion
  <2>4. v \in writes[p.key] /\ Committed(v) /\ v.commitTS =< ts BY <2>3, Zenon DEF Visible
  <2>5. PICK u \in Txn : RecordOf(v, p.key, u) BY <2>2, <2>4, Zenon DEF StoreInv, EntryInv
  <2>6. u = t BY <2>1, <2>2, <2>3, <2>4, <2>5, Zenon DEF RecordOf, StoreInv, OracleInv
  <2>7. CommittedOn(t, p.key) /\ startTS[t] # 0 /\ commitTS[t] # 0 /\ commitTS[t] =< ts
    BY <2>1, <2>3, <2>4, <2>5, <2>6, Zenon DEF CommittedOn, RecordOf
  <2>8. Recorded(t, q.key) BY <1>1, <2>1, <2>7, Zenon DEF IInv, ReadInv, ts
  <2>9. ~ RolledBackOn(t, q.key) BY <1>1, <2>2, <2>7, OneOutcome, Zenon
  <2>10. CommittedOn(t, q.key) BY <2>2, <2>8, <2>9, CommitInfo, Zenon DEF StoreInv
  <2>11. PICK w \in writes[q.key] : w.startTS = startTS[t] /\ Committed(w)
    BY <2>10, Zenon DEF CommittedOn
  <2>12. w.commitTS = commitTS[t]
    <3>1. PICK x \in Txn : RecordOf(w, q.key, x) BY <2>2, <2>11, Zenon DEF StoreInv, EntryInv
    <3>2. x = t BY <2>2, <2>7, <2>11, <3>1, Zenon DEF RecordOf, StoreInv, OracleInv
    <3> QED BY <2>11, <3>1, <3>2, Zenon DEF RecordOf
  <2>13. w \in Visible(q.key, ts) BY <2>7, <2>11, <2>12, Zenon DEF Visible
  <2>14. w.commitTS =< ReadVersion(q.key, ts)
    BY <2>2, <2>13, NewestVisible, Zenon DEF ReadVersion
  <2>15. p.ver \in Nat /\ q.ver \in Nat
    BY <2>1, TxnAssumption, <1>1 DEF IInv, TypeOK
  <2> QED BY <2>1, <2>2, <2>12, <2>14, <2>15, Zenon
<1>2. IInv => NoFracturedReads BY <1>1, Zenon
<1> QED BY <1>2, Invariance, PTL

--------------------------------------------------------------------------------
(* The abstract transactions *)

\* What is committed at the abstract level is what the primary's record says.
LEMMA OutcomeOf ==
  ASSUME IInv, NEW t \in Txn
  PROVE  /\ CommittedAt[t] \in Nat
         /\ CommittedAt[t] # 0 => /\ CommittedAt[t] = commitTS[t]
                                  /\ CommittedOn(t, Primary[t]) /\ startTS[t] # 0
         /\ CommittedOn(t, Primary[t]) => CommittedAt[t] = commitTS[t] /\ commitTS[t] # 0
         /\ CommittedAt[t] = 0 \/ CommittedAt[t] = commitTS[t]
<1>1. Primary[t] \in Key BY KeysAreKeys, Zenon
<1>2. OracleInv /\ EntryInv(Primary[t]) /\ TypeOK BY <1>1, Zenon DEF IInv
<1>3. commitTS[t] \in Nat BY <1>2, Numbers, Zenon
<1>4. CommittedOn(t, Primary[t]) => commitTS[t] # 0 BY <1>1, <1>2, CommitInfo, Zenon
<1> QED BY <1>2, <1>3, <1>4, Zenon DEF CommittedAt, OracleInv

\* A key of a committed transaction has a commit record or still its lock.
LEMMA CommittedKey ==
  ASSUME IInv, NEW t \in Txn, CommittedAt[t] # 0, NEW k \in Keys(t)
  PROVE  LockedBy(k, startTS[t]) \/
         \E w \in writes[k] : Committed(w) /\ w.startTS = startTS[t] /\ w.commitTS = commitTS[t]
<1>1. CommittedOn(t, Primary[t]) /\ startTS[t] # 0 /\ commitTS[t] # 0
  BY OutcomeOf, Zenon
<1>2. k \in Key /\ Primary[t] \in Key BY KeysAreKeys, Zenon
<1>3. Touched(t, k) BY <1>1, Zenon DEF IInv, PhaseInv, ProtocolInv
<1>4. ~ RolledBackOn(t, k) BY <1>1, <1>2, OneOutcome, Zenon
<1>5. OracleInv /\ EntryInv(k) BY <1>2, Zenon DEF IInv
<1>6. CASE Recorded(t, k)
  <2>1. CommittedOn(t, k) BY <1>2, <1>4, <1>5, <1>6, CommitInfo, Zenon
  <2>2. PICK w \in writes[k] : w.startTS = startTS[t] /\ Committed(w)
    BY <2>1, Zenon DEF CommittedOn
  <2>3. PICK u \in Txn : RecordOf(w, k, u) BY <1>5, <2>2, Zenon DEF EntryInv
  <2>4. u = t BY <1>1, <1>5, <2>2, <2>3, Zenon DEF RecordOf, OracleInv
  <2> QED BY <2>2, <2>3, <2>4, Zenon DEF RecordOf
<1> QED BY <1>3, <1>6, Zenon DEF Touched

\* The version KvGet returns is the newest one of the abstract snapshot, when
\* every commit of the key below the snapshot has left its record.
LEMMA ReadsTheSnapshot ==
  ASSUME IInv, NEW k \in Key, NEW ts \in Nat,
         \A u \in Txn : (commitTS[u] # 0 /\ commitTS[u] =< ts /\ k \in Keys(u)) =>
                          Recorded(u, k)
  PROVE  Outcomes!IsVersion(ReadVersion(k, ts), k, ts)
<1>1. StoreInv BY Zenon DEF IInv, StoreInv
<1>2. ASSUME NEW w \in Visible(k, ts) PROVE w.commitTS \in Outcomes!Snapshot(k, ts)
  <2>1. w \in writes[k] /\ Committed(w) /\ w.commitTS =< ts BY Zenon DEF Visible
  <2>2. PICK u \in Txn : RecordOf(w, k, u) BY <1>1, <2>1, Zenon DEF StoreInv, EntryInv
  <2>3. k \in Keys(u) /\ commitTS[u] # 0 /\ w.commitTS = commitTS[u] /\ CommittedOn(u, k)
    BY <2>1, <2>2, Zenon DEF RecordOf, CommittedOn
  <2>4. CommittedOn(u, Primary[u]) BY <2>3, Zenon DEF IInv, ProtocolInv
  <2>5. CommittedAt[u] = w.commitTS BY <2>3, <2>4, OutcomeOf, Zenon
  <2> QED BY <2>1, <2>3, <2>5, Zenon DEF Outcomes!Snapshot
<1>3. ASSUME NEW c \in Outcomes!Snapshot(k, ts)
      PROVE  \E w \in Visible(k, ts) : w.commitTS = c
  <2>1. PICK u \in Txn : k \in Keys(u) /\ CommittedAt[u] # 0 /\ CommittedAt[u] =< ts
                         /\ c = CommittedAt[u]
    BY Zenon DEF Outcomes!Snapshot
  <2>2. CommittedAt[u] = commitTS[u] BY <2>1, OutcomeOf, Zenon
  <2>3. Recorded(u, k) BY <2>1, <2>2, Zenon
  <2>4. ~ LockedBy(k, startTS[u])
    BY <1>1, <2>3 DEF StoreInv, EntryInv, LockedBy, Recorded, TxnInfos
  <2>5. PICK w \in writes[k] : Committed(w) /\ w.commitTS = commitTS[u]
    BY <2>1, <2>4, CommittedKey, Zenon
  <2> QED BY <2>1, <2>2, <2>5, Zenon DEF Visible
<1>4. CASE Visible(k, ts) = {}
  BY <1>3, <1>4, Zenon DEF ReadVersion, Outcomes!IsVersion
<1>5. CASE Visible(k, ts) # {}
  <2>1. /\ Newest(Visible(k, ts)) \in Visible(k, ts)
        /\ \A w \in Visible(k, ts) : w.commitTS =< Newest(Visible(k, ts)).commitTS
    BY <1>1, <1>5, NewestVisible, Zenon
  <2>2. ReadVersion(k, ts) = Newest(Visible(k, ts)).commitTS BY <1>5, Zenon DEF ReadVersion
  <2> QED BY <1>2, <1>3, <2>1, <2>2, Zenon DEF Outcomes!IsVersion
<1> QED BY <1>4, <1>5, Zenon

--------------------------------------------------------------------------------
(* Steps *)

\* A step that leaves the records of the primaries alone is invisible.
LEMMA Invisible ==
  ASSUME UNCHANGED <<startTS, reads>>,
         \A t \in Txn : /\ CommittedOn(t, Primary[t])' <=> CommittedOn(t, Primary[t])
                        /\ RolledBackOn(t, Primary[t])' <=> RolledBackOn(t, Primary[t])
                        /\ CommittedOn(t, Primary[t]) => commitTS'[t] = commitTS[t]
  PROVE  UNCHANGED Outcomes!vars
<1>1. CommittedAt' = CommittedAt BY Zenon DEF CommittedAt
<1>2. Aborted' = Aborted BY Zenon DEF Aborted
<1> QED BY <1>1, <1>2, Zenon DEF Outcomes!vars

\* While its primary is locked, a transaction that has a commit timestamp holds
\* the lock of each of its keys.
LEMMA HoldsItsLocks ==
  ASSUME IInv, NEW t \in Txn, commitTS[t] # 0, LockedBy(Primary[t], startTS[t]),
         NEW k \in Keys(t)
  PROVE  LockedBy(k, startTS[t]) /\ ~ Recorded(t, k)
<1>1. k \in Key /\ Primary[t] \in Key BY KeysAreKeys, Zenon
<1>2. /\ OracleInv /\ EntryInv(k) /\ EntryInv(Primary[t]) /\ ProtocolInv(t)
      /\ acked[t] = Keys(t) /\ startTS[t] # 0
  BY <1>1, Zenon DEF IInv, PhaseInv, OracleInv
<1>3. ~ CommittedOn(t, Primary[t]) /\ ~ RolledBackOn(t, Primary[t])
  BY <1>2, Zenon DEF EntryInv, LockedBy, CommittedOn, RolledBackOn
<1>4. ~ CommittedOn(t, k) /\ ~ RolledBackOn(t, k)
  BY <1>1, <1>2, <1>3, Zenon DEF ProtocolInv
<1>5. ~ Recorded(t, k) BY <1>1, <1>2, <1>4, CommitInfo, Zenon
<1> QED BY <1>2, <1>5, Zenon DEF ProtocolInv, Touched

\* The step that commits the primary is the commit of the transaction.
LEMMA CommitRefines ==
  ASSUME IInv, NEW t \in Txn, Commits(t, Primary[t]), UNCHANGED <<startTS, commitTS, reads>>,
         \A u \in Txn \ {t} :
           /\ CommittedOn(u, Primary[u])' <=> CommittedOn(u, Primary[u])
           /\ RolledBackOn(u, Primary[u])' <=> RolledBackOn(u, Primary[u])
  PROVE  Outcomes!Next
<1>1. Primary[t] \in Key BY KeysAreKeys, Zenon
<1>2. OracleInv /\ EntryInv(Primary[t]) /\ TypeOK BY <1>1, Zenon DEF IInv
<1>3. LockedBy(Primary[t], startTS[t]) /\ commitTS[t] # 0 BY Zenon DEF Commits
<1>4. ~ CommittedOn(t, Primary[t]) /\ ~ RolledBackOn(t, Primary[t])
  BY <1>2, <1>3, Zenon DEF EntryInv, LockedBy, CommittedOn, RolledBackOn
<1>5. CommittedOn(t, Primary[t])' /\ ~ RolledBackOn(t, Primary[t])'
  BY <1>1, <1>4, CommitsRecords, Zenon
<1>6. /\ startTS[t] # 0 /\ startTS[t] < commitTS[t] /\ commitTS[t] \in 1 .. MaxTS
      /\ \A u \in Txn : startTS[u] \in Nat /\ commitTS[u] \in Nat
  BY <1>2, <1>3, Numbers DEF OracleInv
<1>7. CommittedAt[t] = 0 /\ t \notin Aborted BY <1>4, Zenon DEF CommittedAt, Aborted
<1>8. \A u \in Txn : CommittedAt[u] # commitTS[t]
  BY <1>2, <1>3, <1>7, OutcomeOf, Zenon DEF OracleInv
<1>9. ASSUME NEW u \in Txn, Keys(u) \cap Keys(t) # {} PROVE CommittedAt[u] < startTS[t]
  <2>1. CASE CommittedAt[u] = 0 BY <1>6, <2>1
  <2>2. CASE CommittedAt[u] # 0
    <3>1. PICK k \in Keys(u) : k \in Keys(t) BY <1>9, Zenon
    <3>2. k \in Key /\ LockedBy(k, startTS[t]) BY <1>3, <3>1, HoldsItsLocks, KeysAreKeys, Zenon
    <3>3. u # t BY <1>7, <2>2, Zenon
    <3>4. ~ LockedBy(k, startTS[u]) BY <1>2, <1>6, <3>2, <3>3, Zenon DEF LockedBy, OracleInv
    <3>5. PICK w \in writes[k] : Committed(w) /\ w.commitTS = commitTS[u]
      BY <2>2, <3>4, CommittedKey, Zenon
    <3>6. EntryInv(k) BY <3>2, Zenon DEF IInv
    <3>7. w.commitTS < startTS[t] BY <3>2, <3>5, <3>6, Zenon DEF EntryInv, LockedBy
    <3> QED BY <2>2, <3>5, <3>7, OutcomeOf, Zenon
  <2> QED BY <2>1, <2>2, Zenon
<1>10. ASSUME NEW r \in reads, r.key \in Keys(t) PROVE startTS[r.txn] < commitTS[t]
  <2>1. r.txn \in Txn BY <1>2, TxnAssumption, Zenon DEF TypeOK
  <2>2. ~ Recorded(t, r.key) BY <1>3, <1>10, HoldsItsLocks, Zenon
  <2>3. ~ (commitTS[t] =< startTS[r.txn]) BY <1>3, <1>10, <2>2, Zenon DEF IInv, ReadInv
  <2> QED BY <1>6, <2>1, <2>3
<1>11. CommittedAt' = [CommittedAt EXCEPT ![t] = commitTS[t]]
  BY <1>5, Zenon DEF CommittedAt
<1>12. Aborted' = Aborted BY <1>4, <1>5, Zenon DEF Aborted
<1>13. Outcomes!Pending(t) BY <1>6, <1>7, Zenon DEF Outcomes!Pending
<1>14. Outcomes!Commit(t, commitTS[t])
  BY <1>6, <1>8, <1>9, <1>10, <1>11, <1>12, <1>13, Zenon DEF Outcomes!Commit
<1> QED BY <1>6, <1>14, Zenon DEF Outcomes!Next

\* The step that rolls the primary back is the abort of the transaction.
LEMMA RollbackRefines ==
  ASSUME IInv, NEW t \in Txn, RollsBack(t, Primary[t]), UNCHANGED <<startTS, commitTS, reads>>,
         \A u \in Txn \ {t} :
           /\ CommittedOn(u, Primary[u])' <=> CommittedOn(u, Primary[u])
           /\ RolledBackOn(u, Primary[u])' <=> RolledBackOn(u, Primary[u])
  PROVE  Outcomes!Next
<1>1. Primary[t] \in Key BY KeysAreKeys, Zenon
<1>2. EntryInv(Primary[t]) BY <1>1, Zenon DEF IInv
<1>3. startTS[t] # 0 /\ ~ Recorded(t, Primary[t])
  BY <1>2, Zenon DEF RollsBack, Touched, EntryInv, LockedBy, Recorded, TxnInfos
<1>4. ~ CommittedOn(t, Primary[t]) /\ ~ RolledBackOn(t, Primary[t])
  BY <1>3, Zenon DEF Recorded, TxnInfos, CommittedOn, RolledBackOn
<1>5. RolledBackOn(t, Primary[t])' /\ ~ CommittedOn(t, Primary[t])'
  BY <1>1, <1>4, RollsBackRecords, Zenon
<1>6. CommittedAt[t] = 0 /\ t \notin Aborted BY <1>4, Zenon DEF CommittedAt, Aborted
<1>7. CommittedAt' = CommittedAt BY <1>4, <1>5, Zenon DEF CommittedAt
<1>8. Aborted' = Aborted \cup {t} BY <1>5, Zenon DEF Aborted
<1>9. Outcomes!Abort(t) BY <1>3, <1>6, <1>7, <1>8, Zenon DEF Outcomes!Abort, Outcomes!Pending
<1> QED BY <1>9, Zenon DEF Outcomes!Next

\* A handler that works for t shows nothing, or the end of t.
LEMMA TxnStepRefines ==
  ASSUME IInv, NEW t \in Txn, TxnStep(t), UNCHANGED <<startTS, commitTS, reads>>
  PROVE  [Outcomes!Next]_(Outcomes!vars)
<1>1. \A u \in Txn : Primary[u] \in Key BY KeysAreKeys, Zenon
<1>2. TypeOK /\ OracleInv /\ \A k \in Key : EntryInv(k) BY Zenon DEF IInv
<1>3. ASSUME NEW u \in Txn, u # t
      PROVE  /\ CommittedOn(u, Primary[u])' <=> CommittedOn(u, Primary[u])
             /\ RolledBackOn(u, Primary[u])' <=> RolledBackOn(u, Primary[u])
  <2>1. KeyStep(t, Primary[u]) BY <1>1, Zenon DEF TxnStep
  <2>2. TxnInfos(Primary[u], startTS[u])' = TxnInfos(Primary[u], startTS[u])
    BY <1>1, <1>2, <1>3, <2>1, StepOther, Zenon
  <2> QED BY <2>2, Zenon DEF TxnInfos, CommittedOn, RolledBackOn
<1>4. KeyStep(t, Primary[t]) BY <1>1, Zenon DEF TxnStep
<1>5. CASE Commits(t, Primary[t]) BY <1>3, <1>5, CommitRefines, Zenon
<1>6. CASE RollsBack(t, Primary[t]) BY <1>3, <1>6, RollbackRefines, Zenon
<1>7. CASE Same(Primary[t]) \/ Puts(t, Primary[t]) \/ Rewrites(t, Primary[t])
  <2>1. writes'[Primary[t]] = writes[Primary[t]] BY <1>7, Zenon DEF Same, Puts, Rewrites
  <2>2. /\ CommittedOn(t, Primary[t])' <=> CommittedOn(t, Primary[t])
        /\ RolledBackOn(t, Primary[t])' <=> RolledBackOn(t, Primary[t])
    BY <2>1, Zenon DEF CommittedOn, RolledBackOn
  <2>3. UNCHANGED Outcomes!vars BY <1>3, <2>2, Invisible, Zenon
  <2> QED BY <2>3, Zenon
<1> QED BY <1>4, <1>5, <1>6, <1>7, Zenon DEF KeyStep

\* A new start timestamp begins the transaction at the abstract level.
LEMMA BeginRefines ==
  ASSUME IInv, NEW t \in Txn, Begin(t)
  PROVE  Outcomes!Next
<1>1. /\ phase[t] = "idle" /\ tso < MaxTS /\ tso' = tso + 1
      /\ startTS' = [startTS EXCEPT ![t] = tso + 1]
      /\ UNCHANGED <<lock, writes, commitTS, reads>>
  BY Zenon DEF Begin, getTS, db
<1>2. StoreInv BY Zenon DEF IInv, StoreInv
<1>3. startTS[t] = 0 BY <1>1, Zenon DEF IInv, PhaseInv
<1>4. tso \in Nat /\ MaxTS \in Nat /\ \A u \in Txn : startTS[u] =< tso /\ commitTS[u] =< tso
  BY <1>2, Numbers, Zenon DEF StoreInv, OracleInv
<1>5. startTS'[t] = tso + 1 /\ \A u \in Txn \ {t} : startTS'[u] = startTS[u]
  BY <1>1, Zenon DEF IInv, TypeOK
<1>6. ASSUME NEW k \in Key, NEW w \in writes[k] PROVE w.startTS # startTS[t] /\ w.startTS # startTS'[t]
  <2>1. w.startTS # tso + 1 BY <1>2, <1>4, NothingFromTheFuture
  <2>2. w.startTS # 0 BY <1>2 DEF StoreInv, EntryInv, RecordOf
  <2> QED BY <1>3, <1>5, <2>1, <2>2, Zenon
<1>7. ASSUME NEW u \in Txn
      PROVE  /\ CommittedOn(u, Primary[u])' <=> CommittedOn(u, Primary[u])
             /\ RolledBackOn(u, Primary[u])' <=> RolledBackOn(u, Primary[u])
  <2>1. Primary[u] \in Key BY KeysAreKeys, Zenon
  <2>2. CASE u = t BY <1>1, <1>6, <2>1, <2>2, Zenon DEF CommittedOn, RolledBackOn
  <2>3. CASE u # t BY <1>1, <1>5, <2>3, Zenon DEF CommittedOn, RolledBackOn
  <2> QED BY <2>2, <2>3, Zenon
<1>8. CommittedAt' = CommittedAt /\ Aborted' = Aborted
  BY <1>1, <1>7, Zenon DEF CommittedAt, Aborted
<1>9. \A u \in Txn : startTS[u] < tso + 1 /\ CommittedAt[u] < tso + 1
  <2>1. \A u \in Txn : startTS[u] \in Nat /\ commitTS[u] \in Nat
    BY <1>2, Numbers, Zenon DEF StoreInv
  <2> QED BY <1>4, <2>1, OutcomeOf
<1>10. Outcomes!Begin(t, tso + 1) BY <1>1, <1>3, <1>8, <1>9, Zenon DEF Outcomes!Begin
<1>11. tso + 1 \in 1 .. MaxTS BY <1>1, <1>4
<1> QED BY <1>10, <1>11, Zenon DEF Outcomes!Next

\* The client's choices and what resolvers learn are invisible.
LEMMA ClientRefines ==
  ASSUME IInv, NEW t \in Txn, GiveUp(t) \/ StartCommit(t) \/ MeetLock(t)
  PROVE  UNCHANGED Outcomes!vars
<1>1. UNCHANGED <<lock, writes, startTS, reads>>
  BY Zenon DEF GiveUp, StartCommit, MeetLock, db, client
<1>2. \A u \in Txn : /\ CommittedOn(u, Primary[u])' <=> CommittedOn(u, Primary[u])
                     /\ RolledBackOn(u, Primary[u])' <=> RolledBackOn(u, Primary[u])
  BY <1>1, Zenon DEF CommittedOn, RolledBackOn
<1>3. ASSUME NEW u \in Txn, CommittedOn(u, Primary[u]) PROVE commitTS'[u] = commitTS[u]
  <2>1. commitTS[u] # 0 BY <1>3, OutcomeOf, Zenon
  <2>2. CASE StartCommit(t)
    <3>1. phase[t] = "prewriting" /\ commitTS' = [commitTS EXCEPT ![t] = tso']
      BY <2>2, Zenon DEF StartCommit
    <3>2. commitTS[t] = 0 BY <3>1, Zenon DEF IInv, PhaseInv
    <3> QED BY <2>1, <3>1, <3>2, Zenon DEF IInv, TypeOK
  <2>3. CASE GiveUp(t) \/ MeetLock(t) BY <2>3, Zenon DEF GiveUp, MeetLock, client
  <2> QED BY <2>2, <2>3, Zenon
<1> QED BY <1>1, <1>2, <1>3, Invisible, Zenon

\* A read that is answered is a read of the abstract snapshot.
LEMMA KvGetRefines ==
  ASSUME IInv, NEW t \in Txn, NEW k \in Key, KvGet(t, k)
  PROVE  [Outcomes!Next]_(Outcomes!vars)
<1> DEFINE v == ReadVersion(k, startTS[t])
           r == [txn |-> t, key |-> k, ver |-> v]
<1>1. /\ t \in Readers /\ startTS[t] # 0
      /\ getValue(k, startTS[t], "SI").kind # "locked"
      /\ reads' = reads \cup {r}
      /\ UNCHANGED <<lock, writes, startTS, commitTS>>
  BY Zenon DEF KvGet, db, client
<1>2. startTS[t] \in Nat BY Numbers, Zenon DEF IInv
<1>3. Outcomes!IsVersion(v, k, startTS[t])
  BY <1>1, <1>2, UnlockedIsRecorded, ReadsTheSnapshot, Zenon
<1>4. v \in (1 .. MaxTS) \cup {0}
  <2>1. ASSUME NEW c \in Outcomes!Snapshot(k, startTS[t]) PROVE c \in 1 .. MaxTS
    <3>1. PICK u \in Txn : c = CommittedAt[u] /\ CommittedAt[u] # 0
      BY Zenon DEF Outcomes!Snapshot
    <3>2. c = commitTS[u] /\ c # 0 BY <3>1, OutcomeOf, Zenon
    <3> QED BY <3>2, Numbers DEF IInv
  <2> QED BY <1>3, <2>1, Zenon DEF Outcomes!IsVersion
<1> HIDE DEF v
<1>5. CommittedAt' = CommittedAt /\ Aborted' = Aborted
  BY <1>1, Zenon DEF CommittedAt, Aborted, CommittedOn, RolledBackOn
<1>6. Outcomes!Read(t, k, v) BY <1>1, <1>3, <1>5, Zenon DEF Outcomes!Read
<1> QED BY <1>4, <1>6, Zenon DEF Outcomes!Next

\* Every handler works for one transaction.
LEMMA HandlerRefines ==
  ASSUME Disciplined, IInv, NEW t \in Txn, NEW r \in Regions,
         KvPrewrite(t, r) \/ KvCommit(t, r) \/ KvBatchRollback(t, r) \/ KvResolveLock(t, r)
  PROVE  [Outcomes!Next]_(Outcomes!vars)
<1>1. StoreInv BY Zenon DEF IInv, StoreInv
<1>2. Batch(t, r) \in SUBSET Keys(t) /\ Batch(t, r) \in SUBSET Key
  BY KeysAreKeys, Zenon DEF Batch
<1>3. CASE KvPrewrite(t, r)
  <2>1. /\ startTS[t] # 0 /\ UNCHANGED <<startTS, commitTS, reads>>
        /\ Prewrite(Restriction(Mutations[t], Batch(t, r)), Primary[t], startTS[t], TTL)
    BY <1>3, Zenon DEF KvPrewrite
  <2>2. TxnStep(t) BY <1>1, <1>2, <2>1, PrewriteStep, Zenon
  <2> QED BY <2>1, <2>2, TxnStepRefines, Zenon
<1>4. CASE KvCommit(t, r)
  <2>1. /\ commitTS[t] # 0 /\ UNCHANGED <<startTS, commitTS, reads>>
        /\ Commit(Batch(t, r), startTS[t], commitTS[t])
    BY <1>4, Zenon DEF KvCommit
  <2>2. TxnStep(t) BY <1>1, <1>2, <2>1, CommitStep, Zenon
  <2> QED BY <2>1, <2>2, TxnStepRefines, Zenon
<1>5. CASE KvBatchRollback(t, r)
  <2>1. /\ phase[t] = "aborted" /\ UNCHANGED <<startTS, commitTS, reads>>
        /\ Rollback(Batch(t, r), startTS[t])
    BY <1>5, Zenon DEF KvBatchRollback, client
  <2>2. startTS[t] # 0 BY <2>1, Zenon DEF IInv, PhaseInv
  <2>3. TxnStep(t) BY <1>1, <1>2, <2>1, <2>2, RollbackStep, Zenon
  <2> QED BY <2>1, <2>3, TxnStepRefines, Zenon
<1>6. CASE KvResolveLock(t, r)
  <2>1. PICK c \in 0 .. MaxTS :
          /\ <<t, c>> \in known /\ UNCHANGED <<startTS, commitTS, reads>>
          /\ ResolveLock(r.startKey, r.endKey, startTS[t], c)
    BY <1>6, Zenon DEF KvResolveLock, client
  <2>2. startTS[t] # 0 BY <2>1, Zenon DEF IInv, PhaseInv
  <2>3. c = 0 \/ (c = commitTS[t] /\ commitTS[t] # 0)
    BY <2>1, Zenon DEF IInv, ProtocolInv
  <2>4. TxnStep(t) BY <1>1, <2>1, <2>2, <2>3, ResolveLockStep, Zenon
  <2> QED BY <2>1, <2>4, TxnStepRefines, Zenon
<1> QED BY <1>3, <1>4, <1>5, <1>6, Zenon

\* So do the handlers that ask for the outcome of a transaction.
LEMMA StatusRefines ==
  ASSUME IInv, NEW t \in Txn,
         KvCleanup(t) \/ \E caller \in Txn, current \in {tso, MaxUint64} :
                           KvCheckTxnStatus(t, caller, current)
  PROVE  [Outcomes!Next]_(Outcomes!vars)
<1>1. StoreInv BY Zenon DEF IInv, StoreInv
<1>2. Primary[t] \in Key BY KeysAreKeys, Zenon
<1>3. CASE KvCleanup(t)
  <2>1. /\ t \in met /\ UNCHANGED <<startTS, commitTS, reads>>
        /\ Rollback({Primary[t]}, startTS[t])
    BY <1>3, Zenon DEF KvCleanup, Cleanup, client
  <2>2. startTS[t] # 0 BY <2>1, Zenon DEF IInv, PhaseInv
  <2>3. {Primary[t]} \in SUBSET Key BY <1>2, Zenon
  <2>4. TxnStep(t) BY <1>1, <2>1, <2>2, <2>3, RollbackStep, Zenon
  <2> QED BY <2>1, <2>4, TxnStepRefines, Zenon
<1>4. ASSUME NEW caller \in Txn, NEW current, KvCheckTxnStatus(t, caller, current)
      PROVE  [Outcomes!Next]_(Outcomes!vars)
  <2>1. /\ t \in met /\ UNCHANGED <<startTS, commitTS, reads>>
        /\ CheckTxnStatus(Primary[t], startTS[t], startTS[caller], current)
    BY <1>4, Zenon DEF KvCheckTxnStatus, client
  <2>2. startTS[t] # 0 BY <2>1, Zenon DEF IInv, PhaseInv
  <2>3. TxnStep(t) BY <1>1, <1>2, <2>1, <2>2, CheckTxnStatusStep, Zenon
  <2> QED BY <2>1, <2>3, TxnStepRefines, Zenon
<1> QED BY <1>3, <1>4, Zenon

\* Two-phase commit over the store implements snapshot isolation, whatever the
\* keys, the transactions, the regions, and the order, loss and repetition of
\* requests.
THEOREM Refinement ==
  ASSUME Disciplined
  PROVE  Spec => ImplementsTransactions
<1>1. ASSUME Init PROVE Outcomes!Init
  <2>1. \A t \in Txn : ~ CommittedOn(t, Primary[t]) /\ ~ RolledBackOn(t, Primary[t])
    BY <1>1, KeysAreKeys, Zenon DEF Init, InitDB, CommittedOn, RolledBackOn
  <2>2. CommittedAt = [t \in Txn |-> 0] /\ Aborted = {} BY <2>1, Zenon DEF CommittedAt, Aborted
  <2> QED BY <1>1, <2>2, Zenon DEF Init, Outcomes!Init
<1>2. ASSUME IInv, [Next]_vars PROVE [Outcomes!Next]_(Outcomes!vars)
  <2>1. CASE UNCHANGED vars
    <3>1. UNCHANGED <<lock, writes, startTS, commitTS, reads>>
      BY <2>1, Zenon DEF vars, db, client
    <3>2. \A t \in Txn : /\ CommittedOn(t, Primary[t])' <=> CommittedOn(t, Primary[t])
                         /\ RolledBackOn(t, Primary[t])' <=> RolledBackOn(t, Primary[t])
      BY <3>1, Zenon DEF CommittedOn, RolledBackOn
    <3> QED BY <3>1, <3>2, Invisible, Zenon
  <2>2. CASE Next
    BY <1>2, <2>2, BeginRefines, ClientRefines, HandlerRefines, StatusRefines, KvGetRefines, Zenon
    DEF Next
  <2> QED BY <1>2, <2>1, <2>2, Zenon
<1>3. Init => Outcomes!Init BY <1>1, Zenon
<1>4. IInv /\ [Next]_vars => [Outcomes!Next]_(Outcomes!vars) BY <1>2, Zenon
<1> QED BY <1>3, <1>4, Invariance, PTL DEF Spec, ImplementsTransactions, Outcomes!Spec

--------------------------------------------------------------------------------
(* What the abstract specification promises *)

\* The inductive invariant of Transactions: a transaction that committed or
\* read has begun, and commits come after their starts.
OutcomeInv ==
  /\ startTS \in [Txn -> Nat] /\ CommittedAt \in [Txn -> Nat]
  /\ \A t \in Txn : CommittedAt[t] # 0 => startTS[t] # 0
  /\ \A r \in reads : r.txn \in Txn /\ startTS[r.txn] # 0
  /\ Outcomes!WriteRule /\ Outcomes!ReadRule

\* A step that changes neither starts nor reads, and after which the snapshots
\* of the reads are as they were, keeps the read rule.
LEMMA SnapshotsKeepReads ==
  ASSUME Outcomes!ReadRule, UNCHANGED <<startTS, reads>>,
         \A r \in reads : Outcomes!Snapshot(r.key, startTS[r.txn])'
                            = Outcomes!Snapshot(r.key, startTS[r.txn])
  PROVE  Outcomes!ReadRule'
BY DEF Outcomes!ReadRule, Outcomes!IsVersion

\* Beginning, committing, aborting and reading keep the invariant.
LEMMA OutcomeStep ==
  ASSUME OutcomeInv, [Outcomes!Next]_(Outcomes!vars)
  PROVE  OutcomeInv'
<1>1. /\ startTS \in [Txn -> Nat] /\ CommittedAt \in [Txn -> Nat]
      /\ \A t \in Txn : CommittedAt[t] # 0 => startTS[t] # 0
      /\ \A r \in reads : r.txn \in Txn /\ startTS[r.txn] # 0
      /\ Outcomes!WriteRule /\ Outcomes!ReadRule
  BY Zenon DEF OutcomeInv
<1>2. CASE UNCHANGED Outcomes!vars
  <2>1. UNCHANGED <<startTS, CommittedAt, reads>> BY <1>2, Zenon DEF Outcomes!vars
  <2>2. Outcomes!WriteRule' BY <1>1, <2>1 DEF Outcomes!WriteRule
  <2>3. Outcomes!ReadRule'
    BY <1>1, <2>1 DEF Outcomes!ReadRule, Outcomes!IsVersion, Outcomes!Snapshot
  <2> QED BY <1>1, <2>1, <2>2, <2>3, Zenon DEF OutcomeInv
<1>3. ASSUME NEW t \in Txn, NEW ts \in 1 .. MaxTS, Outcomes!Begin(t, ts)
      PROVE  OutcomeInv'
  <2>1. /\ startTS[t] = 0 /\ startTS' = [startTS EXCEPT ![t] = ts]
        /\ UNCHANGED <<CommittedAt, reads>>
    BY <1>3, Zenon DEF Outcomes!Begin
  <2>2. ts \in Nat /\ ts # 0 BY TxnAssumption
  <2>3. startTS' \in [Txn -> Nat] /\ startTS'[t] # 0
        /\ \A u \in Txn : startTS[u] # 0 => startTS'[u] = startTS[u]
    BY <1>1, <2>1, <2>2
  <2>4. \A r \in reads : startTS'[r.txn] = startTS[r.txn] BY <1>1, <2>3, Zenon
  <2>5. Outcomes!WriteRule'
    BY <1>1, <2>1, <2>3 DEF Outcomes!WriteRule
  <2>6. Outcomes!ReadRule'
    BY <1>1, <2>1, <2>4 DEF Outcomes!ReadRule, Outcomes!IsVersion, Outcomes!Snapshot
  <2> QED BY <1>1, <2>1, <2>3, <2>4, <2>5, <2>6 DEF OutcomeInv
<1>4. ASSUME NEW t \in Txn, NEW ts \in 1 .. MaxTS, Outcomes!Commit(t, ts)
      PROVE  OutcomeInv'
  <2>1. /\ startTS[t] # 0 /\ CommittedAt[t] = 0
        /\ \A u \in Txn : Keys(u) \cap Keys(t) # {} => CommittedAt[u] < startTS[t]
        /\ \A r \in reads : r.key \in Keys(t) => startTS[r.txn] < ts
        /\ CommittedAt' = [CommittedAt EXCEPT ![t] = ts]
        /\ UNCHANGED <<startTS, reads>>
    BY <1>4 DEF Outcomes!Commit, Outcomes!Pending
  <2>2. ts \in Nat /\ ts # 0 BY TxnAssumption
  <2>3. CommittedAt' \in [Txn -> Nat] /\ CommittedAt'[t] = ts
        /\ \A u \in Txn : u # t => CommittedAt'[u] = CommittedAt[u]
    BY <1>1, <2>1, <2>2
  <2>4. Outcomes!WriteRule'
    BY <1>1, <2>1, <2>3 DEF Outcomes!WriteRule
  <2>5. ASSUME NEW r \in reads
        PROVE  Outcomes!Snapshot(r.key, startTS[r.txn])' = Outcomes!Snapshot(r.key, startTS[r.txn])
    <3>1. startTS[r.txn] \in Nat BY <1>1, Zenon
    <3>2. ASSUME NEW u \in Txn, r.key \in Keys(u)
          PROVE  \/ CommittedAt'[u] = CommittedAt[u]
                 \/ /\ CommittedAt[u] = 0 /\ CommittedAt'[u] # 0
                    /\ ~ (CommittedAt'[u] =< startTS[r.txn])
      BY <2>1, <2>2, <2>3, <3>1, <3>2
    <3> QED BY <2>1, <3>1, <3>2, Zenon DEF Outcomes!Snapshot
  <2>6. Outcomes!ReadRule' BY <1>1, <2>1, <2>5, SnapshotsKeepReads, Zenon
  <2> QED BY <1>1, <2>1, <2>3, <2>4, <2>6 DEF OutcomeInv
<1>5. ASSUME NEW t \in Txn, Outcomes!Abort(t) PROVE OutcomeInv'
  <2>1. UNCHANGED <<startTS, CommittedAt, reads>> BY <1>5, Zenon DEF Outcomes!Abort
  <2>2. Outcomes!WriteRule' BY <1>1, <2>1 DEF Outcomes!WriteRule
  <2>3. Outcomes!ReadRule'
    BY <1>1, <2>1 DEF Outcomes!ReadRule, Outcomes!IsVersion, Outcomes!Snapshot
  <2> QED BY <1>1, <2>1, <2>2, <2>3, Zenon DEF OutcomeInv
<1>6. ASSUME NEW t \in Txn, NEW k \in Key, NEW v, Outcomes!Read(t, k, v) PROVE OutcomeInv'
  <2>1. /\ startTS[t] # 0 /\ UNCHANGED <<startTS, CommittedAt>>
        /\ Outcomes!IsVersion(v, k, startTS[t])
        /\ reads' = reads \cup {[txn |-> t, key |-> k, ver |-> v]}
    BY <1>6, Zenon DEF Outcomes!Read
  <2>2. Outcomes!WriteRule' BY <1>1, <2>1 DEF Outcomes!WriteRule
  <2>3. Outcomes!ReadRule'
    <3>1. ASSUME NEW ver, NEW key, NEW u
          PROVE  Outcomes!IsVersion(ver, key, startTS[u])' <=> Outcomes!IsVersion(ver, key, startTS[u])
      BY <2>1 DEF Outcomes!IsVersion, Outcomes!Snapshot
    <3>2. ASSUME NEW r \in reads' PROVE Outcomes!IsVersion(r.ver, r.key, startTS[r.txn])
      <4>1. CASE r \in reads BY <1>1, <4>1, Zenon DEF Outcomes!ReadRule
      <4>2. CASE r = [txn |-> t, key |-> k, ver |-> v] BY <2>1, <4>2
      <4> QED BY <2>1, <4>1, <4>2, Zenon
    <3> QED BY <3>1, <3>2, Zenon DEF Outcomes!ReadRule
  <2>4. \A r \in reads' : r.txn \in Txn /\ startTS[r.txn] # 0 BY <1>1, <2>1
  <2> QED BY <1>1, <2>1, <2>2, <2>3, <2>4, Zenon DEF OutcomeInv
<1> QED BY <1>2, <1>3, <1>4, <1>5, <1>6, Zenon DEF Outcomes!Next

\* The write rule and the read rule of snapshot isolation hold for whole
\* transactions: they are invariants of Transactions, which two-phase commit
\* implements.
THEOREM IsolationHolds ==
  ASSUME Disciplined
  PROVE  Spec => []SnapshotIsolation
<1>1. Outcomes!Init => OutcomeInv
  BY DEF Outcomes!Init, OutcomeInv, Outcomes!WriteRule, Outcomes!ReadRule
<1>2. OutcomeInv /\ [Outcomes!Next]_(Outcomes!vars) => OutcomeInv' BY OutcomeStep, Zenon
<1>3. OutcomeInv => SnapshotIsolation BY Zenon DEF OutcomeInv, SnapshotIsolation
<1> QED BY <1>1, <1>2, <1>3, Refinement, PTL DEF ImplementsTransactions, Outcomes!Spec

================================================================================
