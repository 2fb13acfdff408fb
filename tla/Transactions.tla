----------------------------- MODULE Transactions ------------------------------
(***************************************************************************)
(* What the store and its clients promise together, with no locks, no      *)
(* regions and no messages: transactions that begin at a timestamp, read   *)
(* the snapshot of that timestamp, and either commit all their keys at     *)
(* one timestamp in one step or abort.  This is snapshot isolation.        *)
(* Percolator implements it.                                               *)
(***************************************************************************)
EXTENDS Integers

CONSTANTS Txn,        \* the transactions
          Key,        \* the keys
          WriteSet,   \* WriteSet[t]: the keys t writes
          Timestamp,  \* the timestamps, positive numbers
          Readers     \* the transactions whose reads are recorded

VARIABLES startTS,      \* startTS[t]: the snapshot of t, or 0
          committedAt,  \* committedAt[t]: when t committed, or 0
          aborted,      \* the transactions that aborted
          reads         \* the reads that returned

vars == <<startTS, committedAt, aborted, reads>>

Init == /\ startTS = [t \in Txn |-> 0]
        /\ committedAt = [t \in Txn |-> 0]
        /\ aborted = {}
        /\ reads = {}

\* The commits a snapshot of key k at ts includes.
Snapshot(k, ts) == {committedAt[t] : t \in {u \in Txn : /\ k \in WriteSet[u]
                                                        /\ committedAt[u] # 0
                                                        /\ committedAt[u] =< ts}}

\* The newest version of a snapshot; 0 when the key has none.
IsVersion(v, k, ts) == /\ v \in Snapshot(k, ts) \cup {0}
                       /\ \A c \in Snapshot(k, ts) : c =< v

Begin(t, ts) == /\ startTS[t] = 0
                /\ \A u \in Txn : startTS[u] < ts /\ committedAt[u] < ts
                /\ startTS' = [startTS EXCEPT ![t] = ts]
                /\ UNCHANGED <<committedAt, aborted, reads>>

Pending(t) == startTS[t] # 0 /\ committedAt[t] = 0 /\ t \notin aborted

\* The first committer wins, and no commit goes below a read that has returned.
Commit(t, ts) == /\ Pending(t)
                 /\ startTS[t] < ts
                 /\ \A u \in Txn : committedAt[u] # ts
                 /\ \A u \in Txn : WriteSet[u] \cap WriteSet[t] # {} =>
                                     committedAt[u] < startTS[t]
                 /\ \A r \in reads : r.key \in WriteSet[t] => startTS[r.txn] < ts
                 /\ committedAt' = [committedAt EXCEPT ![t] = ts]
                 /\ UNCHANGED <<startTS, aborted, reads>>

Abort(t) == /\ Pending(t)
            /\ aborted' = aborted \cup {t}
            /\ UNCHANGED <<startTS, committedAt, reads>>

Read(t, k, v) == /\ t \in Readers /\ startTS[t] # 0
                 /\ IsVersion(v, k, startTS[t])
                 /\ reads' = reads \cup {[txn |-> t, key |-> k, ver |-> v]}
                 /\ UNCHANGED <<startTS, committedAt, aborted>>

\* A read that is repeated changes nothing.
Next == \/ UNCHANGED vars
        \/ \E t \in Txn : \/ \E ts \in Timestamp : Begin(t, ts) \/ Commit(t, ts)
                          \/ Abort(t)
                          \/ \E k \in Key, v \in Timestamp \cup {0} : Read(t, k, v)

Spec == Init /\ [][Next]_vars

--------------------------------------------------------------------------------
(* What follows for its users *)

\* The write rule: of two transactions that write a common key and committed,
\* one committed before the other began.
WriteRule ==
  \A t, u \in Txn :
    (t # u /\ committedAt[t] # 0 /\ committedAt[u] # 0
       /\ WriteSet[t] \cap WriteSet[u] # {}) =>
         committedAt[t] < startTS[u] \/ committedAt[u] < startTS[t]

\* The read rule: what a read returned is the newest version of its snapshot,
\* among all transactions that have committed up to now.
ReadRule == \A r \in reads : IsVersion(r.ver, r.key, startTS[r.txn])

================================================================================
