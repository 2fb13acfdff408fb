------------------------------- MODULE MVCCStore -------------------------------
(***************************************************************************)
(* The store of MVCCLevelDB driven by arbitrary callers: any handler may   *)
(* be called at any moment with any keys and any timestamps.  Requests     *)
(* that are duplicated, delayed, reordered or sent by a confused caller    *)
(* are all behaviours of this specification.                               *)
(*                                                                         *)
(* Two facts about timestamps are assumed of the callers, both promises of *)
(* the timestamp oracle (Server.getTS in server/server.go): a timestamp is *)
(* handed out once, so no start timestamp is also a commit timestamp, and  *)
(* a transaction commits at a timestamp above the one it started at.       *)
(***************************************************************************)
EXTENDS MVCCLevelDB

CONSTANTS StartTS,   \* timestamps handed out to begin a transaction
          CommitTS,  \* timestamps handed out to commit a transaction
          Sent,      \* the mutations of prewrites
          TTL,       \* the times to live a prewrite asks for
          CurrentTS  \* the times at which callers ask for a status

ASSUME TimestampAssumption == /\ StartTS \subseteq Uint64 \ {0, lockVer}
                              /\ CommitTS \subseteq Uint64 \ {0, lockVer}
                              /\ StartTS \cap CommitTS = {}

ASSUME CallerAssumption == /\ Sent \subseteq Mutation
                           /\ TTL \subseteq Uint64 /\ CurrentTS \subseteq Uint64

\* A range request names keys or leaves its start or its end empty.
Bound == Key \cup {EmptyKey}

\* The commit timestamps transaction startTS may be given.
CommitOf(startTS) == {c \in CommitTS : c > startTS}

\* What a caller knows of transactions: some are rolled back (0), others
\* committed.
TxnInfo(ts) == {f \in [ts -> CommitTS \cup {0}] :
                  \A s \in ts : f[s] = 0 \/ f[s] \in CommitOf(s)}

Next ==
  \/ \E keys \in SUBSET Key : \E mutations \in [keys -> Sent] :
       \E primary \in Key, s \in StartTS, ttl \in TTL :
         Prewrite(mutations, primary, s, ttl)
  \/ \E keys \in SUBSET Key, s \in StartTS : \E c \in CommitOf(s) :
       Commit(keys, s, c)
  \/ \E keys \in SUBSET Key, s \in StartTS : Rollback(keys, s)
  \/ \E k \in Key, s \in StartTS : Cleanup(k, s)
  \/ \E k \in Key, s \in StartTS, caller \in StartTS, current \in CurrentTS :
       CheckTxnStatus(k, s, caller, current)
  \/ \E b, e \in Bound, s \in StartTS : \E c \in CommitOf(s) \cup {0} :
       ResolveLock(b, e, s, c)
  \/ \E b, e \in Bound : \E ts \in SUBSET StartTS : \E infos \in TxnInfo(ts) :
       BatchResolveLock(b, e, infos)
  \/ \E b, e \in Bound : DeleteRange(b, e)

Spec == InitDB /\ [][Next]_db

--------------------------------------------------------------------------------
(* Properties *)

\* Snapshot isolation's write rule: of two transactions that both committed a
\* value on a key, one committed before the other started.  prewriteMutation's
\* lock and conflict checks must give this whatever order the calls come in.
FirstCommitterWins ==
  \A k \in Key : \A v, w \in writes[k] :
    Committed(v) /\ Committed(w) /\ v # w =>
      v.commitTS < w.startTS \/ w.commitTS < v.startTS

\* A transaction has one outcome on a key: it is never both committed and
\* rolled back there, nor committed twice, and it holds no lock on a key where
\* its outcome is recorded, however late or often prewrite, commit, rollback
\* and resolve requests arrive.
OneOutcomePerKey ==
  \A k \in Key : \A v \in writes[k] :
    /\ ~ LockedBy(k, v.startTS)
    /\ \A w \in writes[k] : v.startTS = w.startTS => v = w

\* The "point get latest version" of mvccLock.check: a read at the largest
\* timestamp steps over the lock of a transaction whose primary is the key it
\* reads, and still returns the newest committed value of that key.
PointGetSeesNewest ==
  \A k \in Key :
    (lock[k] # NoLock /\ lock[k].primary = k) =>
      getValue(k, MaxUint64, "SI") = getValue(k, MaxUint64, "RC")

\* No call but DeleteRange removes or replaces an entry: in particular a
\* rollback tombstone, written at version startTS, never replaces a committed
\* value, and a commit never replaces a tombstone.
EntriesStay ==
  [][\/ \A k \in Key : writes[k] \subseteq writes'[k]
     \/ \E b, e \in Bound : DeleteRange(b, e)]_db

\* What the store answers to prewrite, commit and rollback of key k and to
\* questions about k by or about transaction startTS.
Answers(k, startTS, currentTS) ==
  <<prewriteOK(k, startTS), commitOK(k, startTS), rollbackOK(k, startTS),
    TxnStatus(k, startTS, currentTS)>>

\* Once the outcome of a transaction is recorded on a key, the answers to its
\* requests never change, whatever else is called in between and unless the key
\* is deleted: a commit that succeeded succeeds when it is repeated after a lost
\* reply, a rollback of it keeps failing with ErrAlreadyCommitted, a prewrite
\* that comes late keeps failing, and CheckTxnStatus reports the same outcome to
\* everybody at any time.
AnswersAreFinal ==
  [][\/ \A k \in Key : UNCHANGED <<lock[k], writes[k]>> \/
          \A w \in writes[k], current \in CurrentTS :
            Answers(k, w.startTS, current)' = Answers(k, w.startTS, current)
     \/ \E b, e \in Bound : DeleteRange(b, e)]_db

================================================================================
