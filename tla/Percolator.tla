------------------------------ MODULE Percolator -------------------------------
(***************************************************************************)
(* Two-phase commit over the store: the transactional handlers of          *)
(* server/store.go, the timestamp oracle of server/server.go, and the      *)
(* clients that call them.  The clients are not part of the repository;    *)
(* they are modelled from the requests the handlers expect and the replies *)
(* they give.                                                              *)
(*                                                                         *)
(* A request is executed any number of times, at any moment after its      *)
(* client could have sent it: this is loss, duplication, delay and         *)
(* reordering.  A reply is lost or taken at once; a client that is slow to *)
(* use what a reply says covers late replies.  A client may stop anywhere. *)
(***************************************************************************)
EXTENDS MVCCLevelDB

CONSTANTS Txn,           \* the transactions
          Mutations,     \* Mutations[t]: the keys t writes and their mutations
          Primary,       \* Primary[t]: the primary key of t
          Regions,       \* the key ranges a request may be addressed to
          TTL,           \* the time to live of a lock
          MaxTS,         \* bound on the timestamps the oracle hands out
          PrimaryFirst,  \* clients prewrite secondaries after the primary
          Readers        \* the transactions whose reads are recorded

ASSUME TxnAssumption ==
  /\ Primary \in [Txn -> Key]
  /\ \A t \in Txn : /\ DOMAIN Mutations[t] \subseteq Key
                    /\ Mutations[t] \in [DOMAIN Mutations[t] -> Mutation]
                    /\ DOMAIN Mutations[t] # {} => Primary[t] \in DOMAIN Mutations[t]
  /\ Regions \subseteq [startKey : Nat, endKey : Nat]
  /\ TTL \in Uint64 /\ MaxTS \in Nat /\ MaxTS < MaxUint64
  /\ PrimaryFirst \in BOOLEAN /\ Readers \subseteq Txn

\* What the clients of a deployment keep to.  Every mutation writes: a lock-only
\* mutation leaves no record when it is committed.  A lock has time to live: the
\* status of one that has none reads like that of a rollback.
Disciplined ==
  /\ PrimaryFirst
  /\ TTL > 0
  /\ \A t \in Txn : \A k \in DOMAIN Mutations[t] : Mutations[t][k].op # "Lock"

VARIABLES tso,       \* the last timestamp handed out
          startTS,   \* startTS[t]: start timestamp of t, or 0
          commitTS,  \* commitTS[t]: commit timestamp of t, or 0
          phase,     \* phase[t]: how far the client of t has come
          acked,     \* acked[t]: keys whose prewrite t knows to have succeeded
          met,       \* transactions of which somebody has met a lock
          known,     \* outcomes <<t, c>> somebody was told; c = 0 is a rollback
          reads      \* snapshot reads that returned, for the properties

client == <<tso, startTS, commitTS, phase, acked>>
resolver == <<met, known>>
vars == <<db, client, resolver, reads>>

Keys(t) == DOMAIN Mutations[t]

Restriction(f, S) == [x \in S |-> f[x]]

Batch(t, r) == {k \in Keys(t) : InRange(k, r.startKey, r.endKey)}

TypeOK ==
  /\ DBTypeOK
  /\ tso \in 0 .. MaxTS
  /\ startTS \in [Txn -> 0 .. MaxTS] /\ commitTS \in [Txn -> 0 .. MaxTS]
  /\ phase \in [Txn -> {"idle", "prewriting", "committing", "committed", "aborted"}]
  /\ acked \in [Txn -> SUBSET Key]
  /\ met \subseteq Txn /\ known \subseteq Txn \X (0 .. MaxTS)
  /\ reads \subseteq [txn : Readers, key : Key, ver : 0 .. MaxTS]

Init == /\ InitDB
        /\ tso = 0
        /\ startTS = [t \in Txn |-> 0] /\ commitTS = [t \in Txn |-> 0]
        /\ phase = [t \in Txn |-> "idle"]
        /\ acked = [t \in Txn |-> {}]
        /\ met = {} /\ known = {} /\ reads = {}

\* Server.getTS: the oracle's timestamps increase.
getTS == tso < MaxTS /\ tso' = tso + 1

--------------------------------------------------------------------------------
(* The client that runs a transaction *)

Begin(t) == /\ phase[t] = "idle"
            /\ getTS
            /\ startTS' = [startTS EXCEPT ![t] = tso']
            /\ phase' = [phase EXCEPT ![t] = "prewriting"]
            /\ UNCHANGED <<db, commitTS, acked, resolver, reads>>

GiveUp(t) == /\ phase[t] = "prewriting" /\ Keys(t) # {}
             /\ phase' = [phase EXCEPT ![t] = "aborted"]
             /\ UNCHANGED <<db, tso, startTS, commitTS, acked, resolver, reads>>

\* The second phase starts when every key is prewritten.
StartCommit(t) == /\ phase[t] = "prewriting" /\ Keys(t) # {} /\ acked[t] = Keys(t)
                  /\ getTS
                  /\ commitTS' = [commitTS EXCEPT ![t] = tso']
                  /\ phase' = [phase EXCEPT ![t] = "committing"]
                  /\ UNCHANGED <<db, startTS, acked, resolver, reads>>

PrewriteReply(t, ks, ok) ==
  \/ UNCHANGED <<acked, phase>>
  \/ /\ ok /\ phase[t] = "prewriting"
     /\ acked' = [acked EXCEPT ![t] = @ \cup ks]
     /\ UNCHANGED phase

KvPrewrite(t, r) ==
  LET ks == Batch(t, r)
  IN  /\ startTS[t] # 0 /\ ks # {}
      /\ PrimaryFirst => Primary[t] \in ks \cup acked[t]
      /\ Prewrite(Restriction(Mutations[t], ks), Primary[t], startTS[t], TTL)
      /\ PrewriteReply(t, ks, PrewriteOK(Restriction(Mutations[t], ks), startTS[t]))
      /\ UNCHANGED <<tso, startTS, commitTS, resolver, reads>>

CommitReply(t, ks, ok) ==
  \/ UNCHANGED phase
  \/ /\ phase[t] = "committing" /\ Primary[t] \in ks
     /\ phase' = [phase EXCEPT ![t] = IF ok THEN "committed" ELSE "aborted"]

\* Secondaries are committed once the primary is known to be committed.
KvCommit(t, r) ==
  LET ks == Batch(t, r)
  IN  /\ commitTS[t] # 0 /\ ks # {}
      /\ Primary[t] \in ks \/ phase[t] = "committed"
      /\ Commit(ks, startTS[t], commitTS[t])
      /\ CommitReply(t, ks, CommitOK(ks, startTS[t]))
      /\ UNCHANGED <<tso, startTS, commitTS, acked, resolver, reads>>

KvBatchRollback(t, r) ==
  LET ks == Batch(t, r)
  IN  /\ phase[t] = "aborted" /\ ks # {}
      /\ Rollback(ks, startTS[t])
      /\ UNCHANGED <<client, resolver, reads>>

--------------------------------------------------------------------------------
(* Readers, and clients that resolve the locks they meet *)

\* A scan for locks comes back with one of t.  A get or a prewrite that runs
\* into a lock learns no more than a scan.
MeetLock(t) == /\ t \notin met /\ startTS[t] # 0
               /\ \E r \in Regions : \E k \in ScanLock(r.startKey, r.endKey, tso) :
                    LockedBy(k, startTS[t])
               /\ met' = met \cup {t}
               /\ UNCHANGED <<db, client, known, reads>>

ReadVersion(k, ts) == IF Visible(k, ts) = {} THEN 0
                      ELSE Newest(Visible(k, ts)).commitTS

KvGet(t, k) == /\ t \in Readers /\ startTS[t] # 0
               /\ getValue(k, startTS[t], "SI").kind # "locked"
               /\ reads' = reads \cup {[txn |-> t, key |-> k,
                                        ver |-> ReadVersion(k, startTS[t])]}
               /\ UNCHANGED <<db, client, resolver>>

\* The outcome of t is c, if the reply that says so arrives.
Learn(t, c) == known' \in {known, known \cup {<<t, c>>}}

KvCleanup(t) ==
  /\ t \in met
  /\ Cleanup(Primary[t], startTS[t])
  /\ Learn(t, IF rollbackOK(Primary[t], startTS[t]) THEN 0
              ELSE getTxnCommitInfo(Primary[t], startTS[t]).commitTS)
  /\ UNCHANGED <<client, met, reads>>

\* currentTS is the oracle's time, or the largest number to expire any lock.
KvCheckTxnStatus(t, caller, currentTS) ==
  LET status == TxnStatus(Primary[t], startTS[t], currentTS)
  IN  /\ t \in met /\ startTS[caller] # 0
      /\ CheckTxnStatus(Primary[t], startTS[t], startTS[caller], currentTS)
      /\ IF status.ttl = 0 THEN Learn(t, status.commitTS) ELSE UNCHANGED known
      /\ UNCHANGED <<client, met, reads>>

\* The handler resolves the locks of the whole region.
KvResolveLock(t, r) ==
  \E c \in 0 .. MaxTS :
    /\ <<t, c>> \in known
    /\ ResolveLock(r.startKey, r.endKey, startTS[t], c)
    /\ UNCHANGED <<client, resolver, reads>>

--------------------------------------------------------------------------------

Resolve(t) == \/ MeetLock(t)
              \/ KvCleanup(t) /\ known' # known
              \/ \E r \in Regions : KvResolveLock(t, r) /\ lock' # lock

Next ==
  \/ \E t \in Txn :
       \/ Begin(t) \/ GiveUp(t) \/ StartCommit(t)
       \/ MeetLock(t) \/ KvCleanup(t)
       \/ \E r \in Regions : \/ KvPrewrite(t, r) \/ KvCommit(t, r)
                             \/ KvBatchRollback(t, r) \/ KvResolveLock(t, r)
       \/ \E k \in Key : KvGet(t, k)
       \/ \E caller \in Txn, currentTS \in {tso, MaxUint64} :
            KvCheckTxnStatus(t, caller, currentTS)

Spec == Init /\ [][Next]_vars

\* A lock that stays in the way is met by a reader, which asks for the outcome
\* of its transaction, repeats the request until a reply comes, and resolves.
FairSpec == Spec /\ \A t \in Txn : WF_vars(Resolve(t))

--------------------------------------------------------------------------------
(* Properties *)

CommittedOn(t, k) == \E w \in writes[k] : w.startTS = startTS[t] /\ Committed(w)

RolledBackOn(t, k) == \E w \in writes[k] : w.startTS = startTS[t] /\ ~ Committed(w)

\* A transaction is not committed on one key and rolled back on another,
\* although its keys are committed, rolled back and resolved by different
\* clients in separate requests (KvCommit, KvBatchRollback, KvCleanup,
\* KvCheckTxnStatus, KvResolveLock).
Atomicity ==
  \A t \in Txn : startTS[t] # 0 =>
    \A j, k \in Key : ~ (CommittedOn(t, j) /\ RolledBackOn(t, k))

\* Once KvCommit has told the client that the primary is committed, every value
\* of the transaction is committed or still waits under its lock, whatever the
\* resolvers do meanwhile.
SuccessIsDurable ==
  \A t \in Txn : phase[t] = "committed" =>
    \A k \in Keys(t) : Mutations[t][k].op # "Lock" =>
      CommittedOn(t, k) \/ LockedBy(k, startTS[t])

\* Once KvCommit has told the client to restart the transaction ("txn not
\* found"), nothing of it is committed, even when an earlier commit request was
\* executed and its reply was lost.
FailureLeavesNothing ==
  \A t \in Txn : phase[t] = "aborted" => \A k \in Key : ~ CommittedOn(t, k)

\* A transaction whose commit succeeded is never rolled back on any key, be it
\* a key it only locked: KvCleanup answers with ErrAlreadyCommitted.
CommittedIsNotRolledBack ==
  \A t \in Txn : phase[t] = "committed" => \A k \in Key : ~ RolledBackOn(t, k)

\* A transaction that KvCleanup or KvCheckTxnStatus reported as rolled back
\* commits nothing afterwards.
RolledBackStaysSo ==
  \A t \in Txn : <<t, 0>> \in known => \A k \in Key : ~ CommittedOn(t, k)

\* A snapshot read is repeatable: what KvGet returned at a timestamp stays the
\* newest version at that timestamp, so no commit slips in below a read that
\* found no lock.
RepeatableReads ==
  \A r \in reads : ReadVersion(r.key, startTS[r.txn]) = r.ver

\* Reads of one snapshot see all of a transaction or nothing of it, although
\* its keys are committed one region at a time.
NoFracturedReads ==
  \A p, q \in reads : \A t \in Txn :
    (p.txn = q.txn /\ p.ver # 0 /\ p.ver = commitTS[t]
       /\ q.key \in Keys(t) /\ Mutations[t][q.key].op # "Lock") => q.ver >= p.ver

\* A lock never stays for good: whatever client stops wherever, the readers
\* that meet the lock remove it by KvCleanup and KvResolveLock.
LocksCleared ==
  \A k \in Key : lock[k] # NoLock ~> lock[k] = NoLock

--------------------------------------------------------------------------------
(* The abstract specification this module implements *)

\* The outcome of a transaction is the record on its primary.
CommittedAt == [t \in Txn |-> IF CommittedOn(t, Primary[t]) THEN commitTS[t] ELSE 0]

Aborted == {t \in Txn : RolledBackOn(t, Primary[t])}

Outcomes == INSTANCE Transactions WITH
  WriteSet    <- [t \in Txn |-> Keys(t)],
  Timestamp   <- 1 .. MaxTS,
  committedAt <- CommittedAt,
  aborted     <- Aborted

\* Two-phase commit gives snapshot isolation: to its users a transaction
\* commits all its keys in the one step that commits its primary or aborts in
\* the one step that rolls its primary back, no two of them that overlap write
\* the same key, and every read returns the newest version of its snapshot,
\* although a key may still wait under its lock for KvCommit or KvResolveLock.
ImplementsTransactions == Outcomes!Spec

\* Whole transactions are isolated, not only their single keys: of two that
\* committed and write a common key, one committed before the other began, and
\* what KvGet returned is the newest version of its snapshot among all
\* transactions whose primary is committed by now, those included whose version
\* of the key still waits under a lock.
SnapshotIsolation == Outcomes!WriteRule /\ Outcomes!ReadRule

================================================================================
