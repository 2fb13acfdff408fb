------------------------------ MODULE MinCommitTS ------------------------------
(***************************************************************************)
(* What CheckTxnStatus promises the readers that meet a live lock: once a  *)
(* call has given the lock a minCommitTS, later calls keep it above the    *)
(* timestamps of their callers.  Two variables remember the promise.       *)
(***************************************************************************)
EXTENDS MVCCStore

VARIABLES marked,  \* the keys to whose lock a call has given a minCommitTS
          pushed   \* pushed[k]: the largest caller that found k marked

PushInit == InitDB /\ marked = {} /\ pushed = [k \in Key |-> 0]

\* A reader meets the lock of another transaction.  It read currentTS from the
\* oracle after its own start timestamp.
Push == \E k \in Key, s, caller \in StartTS, current \in CurrentTS :
          /\ s # caller /\ caller < current
          /\ LockedBy(k, s) /\ ~ Expired(lock[k], current)
          /\ CheckTxnStatus(k, s, caller, current)
          /\ marked' = marked \cup {k}
          /\ pushed' = [pushed EXCEPT ![k] =
                          IF k \in marked /\ @ < caller THEN caller ELSE @]

\* Any other call; the promise ends with the lock.
Call == /\ Next
        /\ marked' = {k \in marked : lock'[k] # NoLock}
        /\ pushed' = [k \in Key |-> IF k \in marked' THEN pushed[k] ELSE 0]

PushSpec == PushInit /\ [][Push \/ Call]_<<db, marked, pushed>>

\* "We *must* guarantee the invariance lock.minCommitTS >= callerStartTS + 1"
\* (CheckTxnStatus, mvcc_leveldb.go), of the lock that the database holds.
MinCommitTSAboveCallers ==
  \A k \in Key : pushed[k] # 0 => lock[k].minCommitTS >= pushed[k] + 1

================================================================================
