# A TLA+ model of mock-tikv

mock-tikv is a TiKV and PD server for testing clients: it keeps everything in
one process and in memory, and speaks TiKV's and PD's protocols. This directory
models it in TLA+, checks the models with TLC and proves theorems about them
with TLAPS. `PROJECT.json` holds the index: components, runs, the map from
definitions to source lines, findings, hazards and theorems.

## The system and its parts

| Part | Source (`src/server/`) | Module | Status |
|---|---|---|---|
| MVCC store: locks, values and tombstones in an ordered database | `mvcc_leveldb.go`, `mvcc.go` | `MVCCLevelDB`, `MVCCStore`, `Scans`, `MVCCStoreProofs`, `ScanProofs` | modelled |
| Transactional handlers, two-phase commit with their clients | `store.go` | `Percolator`, `PercolatorProofs` | modelled |
| What the two promise together: snapshot isolation | - | `Transactions`, `PercolatorProofs` | implemented by `Percolator` |
| minCommitTS of large transactions | `mvcc_leveldb.go`, `mvcc.go` | `MinCommitTS` | modelled |
| Regions: creation, lookup, request check, split | `cluster.go`, `region.go`, `store.go` | `Cluster`, `ClusterProofs` | modelled |
| Memory-comparable codec and entry keys | `codec.go`, `mvcc_leveldb.go`, `mvcc.go` | `Codec`, `CodecProofs` | modelled |
| Scans across regions that are split | `store.go`, `mvcc_leveldb.go` | `RegionScan`, `ScanRequestProofs`, `RegionScanProofs` | modelled |
| Lifecycle of server, clusters and stores | `server.go`, `cluster.go`, `store.go`, `member.go` | `Lifecycle`, `PDProofs` | one cluster |
| Timestamp oracle, GC safe point | `server.go`, `member.go`, `cluster.go` | `PD`, `PDProofs` | modelled |
| Other services of the PD member | `member.go` | `Cluster` (`GetRegion`, `GetRegionByID`) | constant replies left out |
| Raw key-value operations | `mvcc_leveldb.go`, `store.go` | `Codec` (`doRawDeleteRange`) | the rest left out |
| Fail points, batch commands, HTTP API, conversions, command line, log | the rest | - | see "Not modelled" |

A client asks PD (`member.go`) for timestamps and regions and sends requests to
a store (`store.go`). The store checks that the region in the request is its
own and that its epoch is current (`checkRequest`), then calls the database all
stores of the cluster share (`mvcc_leveldb.go`). Two-phase commit is the
client's: it prewrites all keys, commits the primary key, then the others.
Whoever meets a lock asks for the outcome of its transaction at the primary and
resolves the lock accordingly. `SplitRegion` changes the regions meanwhile.

## The models

**`MVCCLevelDB`** is the store. `lock[k]` is the entry of key `k` at version
`lockVer`, and `writes[k]` the set of its entries at other versions: committed
values at `commitTS`, tombstones at `startTS`. Each operation holds
`MVCCLevelDB.mu` from its first read to the write of its batch, so each is one
action, with the source's name; an operation that fails on one key writes
nothing. `PutValue` keeps one entry per version, since a put replaces what has
the same key and version. `MarshalBinary` is what comes back of a lock that was
written: the field `minCommitTS` does not. `Wrap` keeps sums in the machine
word, scaled down by the constant `MaxUint64`; `LogicalSize` is the number of
timestamps in one physical tick.

**`MVCCStore`** lets arbitrary callers call the store: any operation, any keys,
any timestamps, at any moment. Duplicated, delayed and reordered requests are
its behaviours. Of the callers it assumes only what the oracle promises: a start
timestamp is no commit timestamp, and a transaction commits above its start.

**`Percolator`** composes the store with the handlers of `store.go`, the oracle
and the clients. Clients are not in the repository; they are modelled from the
requests the handlers take. A request is executed any number of times and at
any time after it could have been sent, and any reply may be lost. `phase` is
what a client knows of its transaction, `known` what resolvers were told, and
`reads` what snapshot reads returned. `PrimaryFirst` says that a client
prewrites its primary before, or together with, the other keys.

`Disciplined` is what the theorems ask of the clients: that order, a positive
time to live, and no lock-only mutations.

**`Transactions`** is the abstract specification: a transaction begins at a
timestamp, commits all its keys in one step or aborts, no two that overlap write
the same key, and a read returns the newest version of its snapshot. There are
no locks, regions or messages in it. `Percolator` maps to it by the record on
the primary (`CommittedAt`, `Aborted`, `ImplementsTransactions`). `WriteRule` and
`ReadRule` are the two rules of snapshot isolation, about whole transactions.

**`Scans`** adds to `MVCCStore` the reads of several keys: `Scan` with one
iterator and the decoders that move it (`lockDecoder`, `valueDecoder`,
`skipDecoder`), and `ReverseScan`, which collects the versions of a key
backwards and judges them in `finishEntry`. An iterator is the set of the
entries it has not passed, and a loop the function from a number of iterations
to the state after them. `BatchGet` is a get of each key, and needs no model.

**`MinCommitTS`** adds to `MVCCStore` what `CheckTxnStatus` promised its callers.

**`Cluster`** is the list of regions with the calls that read and split it. A
step is one critical section of the cluster's lock: `SplitRegion` (request
check), `LookupRegion`, `SplitRaw`, and for the reply, which is marshalled
without the lock, `MarshalEndKey` and `MarshalEpoch`. `cached` is the region a
client believes in, from PD, from an epoch error or, with `TrustSplitReply`,
from a split reply. A region is identified by its place in the list.

**`Codec`** is `codec.go` and the entry keys on byte strings of any length: the
loops over groups of eight bytes are position arithmetic, so that proofs need no
induction. It also has the range delete, which works on encoded keys.

**`RegionScan`** composes `Cluster` and `Codec`: a client reads a range region
by region with `KvScan` or `KvScanLock`, while others split the regions.
`checkRequest` copies the range of the region, and the read uses the copy in a
later step. Where a handler compares or converts keys, it does so on their
bytes (`scanEndKey`, `Raw(NewMvccKey(...))`, `newScanIterator`). The client
(`Locate`, `Relocate`, `RequestEnd`, `After`) is not in the repository: it goes
on behind the last pair of a full reply, or else at the end of the region. It
asks up to the end of the region it knows at most, so the branch of `KvScan`
that cuts a request off at the end of the region is not met by a bounded scan.
Region bounds are encodings, as those a split makes; the API takes any bytes for
the first ones, and `Raw` panics on others.

**`Lifecycle`** creates, serves and deletes one cluster: the member and the
stores are started, the regions initialised, the database opened and the cluster
listed; `DeleteCluster` takes the server's lock, then the cluster's, and stops
one server after the other, waiting for the requests of each. Sections under a
read lock do not block and are single steps. A server admits requests as soon as
it is started (`Arrive`): before `initRegions` a region has no leader, whose id
`checkRequestContext` reads, and before `NewMVCCLevelDB` a handler gets a nil
database. Either ends the process (`Panic`), since nothing recovers the panic of
a gRPC handler. `initRegions` and the assignment of the database take no lock;
they are one step each, and what a handler can see of one that is half done is
what it sees before it. When a listener cannot be opened (`startFails`), `stop`
waits for the stores that were started, panics at the first that was not
(`stopPanics`), which the API recovers, and leaves the member running. Panics
for a key outside the region are the subject of `NoPanic` in `Cluster`; the calls
whose handler is only a panic ("unimplemented") are assumed not to be made.

**`PD`** adds what the member hands out during that life: a Tso stream receives
a request, takes a timestamp under `tsMu` and sends it, in steps of their own;
the clock reads anything, also less than before. `GetGCSafePoint` and
`UpdateGCSafePoint` run under the cluster's lock.

The modules `MC*` give the constants their values; operators marked `Mutant`
are plausible mistakes that the properties are known to detect.

## The runs

| Run | Checks | Shows |
|---|---|---|
| `store` | `DBTypeOK`, `FirstCommitterWins`, `OneOutcomePerKey`, `PointGetSeesNewest`, `ScanAgreesWithGets`, `ReverseScanAgreesWithGets`, `EntriesStay`, `AnswersAreFinal` | any calls in any order: no lost update, one outcome per key, the point get misses nothing, scans agree with gets, entries are never replaced, a repeated or late request gets the answer of the recorded outcome |
| `percolator` | `TypeOK`, `Atomicity`, `SuccessIsDurable`, `FailureLeavesNothing`, `RepeatableReads`, `NoFracturedReads`, `RolledBackStaysSo`, `SnapshotIsolation`, `ImplementsTransactions` | two writers, a reader and resolvers on an unreliable network |
| `percolator_live` | `LocksCleared` | every lock is cleared in the end |
| `cluster` | `TypeOK`, `Covered`, `NoPanic` | two racing splits from every accepted region list |
| `region_scan` | `ScanTypeOK`, `ScanIsExact`, `Partition`, `NoPanic`, `RepliesStayInRegion`, `ScansMoveForward`, `ScanFinishes` | bounded scans and lock scans get every key once and never stand still while regions are split one call at a time; the regions stay disjoint, and even the regions of a split reply may be cached |
| `lifecycle` | `PDTypeOK`, `OnlyEarlyPanics`, `StoppedIsQuiet`, `TimestampsAreFresh`, `SafePointIsKept`, `TsoAnswered` | a request that comes before the cluster is listed may end the process, one that comes later does not; no request is left when the cluster is deleted or on the stores of a failed creation; what PD hands out in between |

Six runs end in a violation; each is a finding of `PROJECT.json`:

| Run | What the counterexample shows |
|---|---|
| `lock_only_cleanup` | committing a lock-only key leaves no record, so a cleanup rolls back a committed transaction whose primary was only locked (and a commit repeated after a lost reply fails) |
| `min_commit_ts` | `minCommitTS` is lost when the lock is written |
| `concurrent_split` | two calls that looked up the same region leave overlapping and inverted regions |
| `split_reply` | a split reply marshalled during another split pairs a new epoch with an old range |
| `scan_past_region` | `KvScan` without an end key hands the region's encoded end key to `Scan`, which encodes it again, and returns keys of the next region |
| `delete_hangs` | `DeleteCluster` holds the lock that a running request needs and waits for the request to end |

### Bounds

- `store` has two keys, so that requests touch several keys and ranges split
  them; two transactions and three commit timestamps, one between the starts
  and two above both, so that transactions follow each other, overlap or nest;
  and two times to ask at, one before and one after a lock expires. The
  properties relate two transactions and a lock on one key, and the proofs below
  show that the bounds do not matter for them. The scans are evaluated in every
  state, on every range, limit and isolation level; two keys are enough for a
  scan to pass a key that is locked, deleted, rolled back, or left halfway.
  `ReverseScanAgreesWithGets` is about databases without empty puts and without
  the deletes that committed inserts become: on those the code's two scans differ.
- `percolator` has two writers on the same two keys with different primaries,
  puts and a delete, the region of both keys and the two regions a split makes
  of it, and `MaxTS = 5`: a start and a commit for each writer and a snapshot that can be
  taken between any two of them. The lock-only mutation is kept out of this
  run, because `lock_only_cleanup` shows what it breaks; `percolator_live` has
  one on a key that is not the primary.
- `cluster` has four keys, every list of up to three regions that
  `validateRegion` accepts, two handlers and up to four regions: enough for two
  splits of one region. The violation runs start from the lists in which only
  the last region is unbounded; `validateRegion` also accepts lists in which
  regions start over after an unbounded one, and those overlap from the
  beginning.
- `region_scan` has six keys: strings that differ only in trailing zeros, which
  the padding must tell apart, and strings around a full group of eight bytes,
  where the marker must. Every subset of three of them is stored. `Limit = 2`
  makes replies full and not full; up to two splits at any key may fall before,
  between and during the requests. Scans are bounded, as `scan_past_region`
  shows why; lock scans are not.
- `lifecycle` has a member and two stores, so that one is stopped while another
  serves and a creation can fail with a store already serving, two requests or
  streams, two deletes, two readings of the clock and two safe points.
  `MaxLogical` bounds the timestamps asked for. It may really stop (a deleted
  cluster, a process that ended, or the deadlock of `delete_hangs`), so deadlock
  is not checked. `delete_hangs` needs one store, one request and one delete.

### Fairness

`percolator_live` assumes weak fairness of `Resolve(t)` only: a lock that is in
the way is met, the request for the outcome is repeated until a reply comes, and
the locks of every region are resolved. This is what clients do with
`ErrLocked`, and the store never refuses it: operations take a mutex, do a
bounded amount of work and return. Nothing is assumed of the client that owns
the transaction; it may stop anywhere. `delete_hangs` assumes weak fairness of the
goroutines, that is of `Stop` and `Delete` for each call and of the steps of each
handler, and has no streams: the call hangs
although everybody who can run does. `lifecycle` assumes weak fairness of the
goroutine of a stream between two messages (`getTS` or `Send`), which the runtime
schedules, and nothing of clients or of `DeleteCluster`. `region_scan` assumes
that requests are served and that the scanning client goes on; nobody has to
split a region, and a split does not have to be completed.

## The proofs

`MVCCStoreProofs` proves, for all sets of keys, values and timestamps and every
word size, that `MVCCStore` satisfies `DBTypeOK`, `FirstCommitterWins`,
`OneOutcomePerKey`, `PointGetSeesNewest`, `EntriesStay` and `AnswersAreFinal`,
and `ScanProofs` that it satisfies `ScanAgreesWithGets` and
`ReverseScanAgreesWithGets`. They assume `KeyAssumption`, `WordAssumption`,
`ValueAssumption`, `NoLockAssumption`, `TimestampAssumption`, `CallerAssumption`
and, for the scans, `FiniteAssumption` (a database has finitely many keys), which
TLC evaluates in the run of the store.

The argument is local to a key. `EntryInv(l, ws)` relates the lock and the
entries of one key. None of the properties is inductive alone: first-committer-wins
needs that a lock's transaction started after every value committed so far,
which prewrite establishes and later commits keep only because the lock shuts
others out; one-outcome needs that a lock's transaction has no entry yet;
`EntriesStay` needs that a tombstone's version is a start timestamp and a
value's version a commit timestamp, so that they never meet. Every call but
`DeleteRange`, which empties keys, does to each key one of four things
(`EntryStep`: lock it, commit its lock, roll its transaction back, keep it).
`NextIsEntryStep` shows this once for each operation, `EntryStepKeepsInv` shows
that such a step keeps `EntryInv`, and the theorems follow. `AnswersAreFinal`
(`RetriesAgree`) needs both halves: with `EntryInv` the one record of a
transaction decides all answers about it (`RecordDecides`), since no lock of that
transaction is left and no newer record can hide it; and no call removes it.

The scans read the database and change nothing, so their theorems are facts
about any database with `EntryInv`. It makes the versions of a key unique; so the
entries are totally ordered (`EntryOrder`), finite (`EntriesAreFinite`), and an
iterator that is not exhausted has a first and a last entry (`FirstIsFirst`,
`LastIsLast`). `GetOnIterator` shows that the decoders, started anywhere at the
entries of a key, find what a get finds and leave only entries of that key or
behind it; `GetOnEntry` that the versions collected backwards and reversed give
the same answer, with `PlainValues`. Each loop has an invariant. `Forward` says
that the iterator has exactly the entries at or behind the current key and the
pairs are the answers for the keys before it; `Backward` that the pairs are the
answers for the keys above the current one, and the helper has exactly the values
and the lock of the current key that the iterator has passed. Both count the
entries that are left, so that the number of iterations `Scan` and `ReverseScan`
look at is enough: the loops have ended there. The loops are functions of the
number of iterations; that such a function satisfies its recursion
(`ScanLoopSteps`, `ReverseLoopSteps`), and that what every iteration keeps holds
after any number of them (`Successors`), comes from the least-element principle
(`Smallest`).

`ClusterProofs` proves for any number of handlers, clients, stores and keys:

- `SplitsKeepCoverage`: every key stays in some region, however splits race.
  `SplitCovers` is the reason: splitting a region at any key, even one outside
  it, leaves two regions that contain all it contained.
- `AcceptedListsCover`: the lists of regions `validateRegion` accepts, which are
  the ones a cluster starts with (`LayoutAssumption`), cover all keys. The first
  region of the list that does not end at or before a key contains it.
- `EpochProtectsHandlers`: without `TrustSplitReply`, no client runs into a
  key-not-in-region panic. The invariant `CacheInv` says that a cached region is
  never newer than the region, and has its range as long as it is not older; a
  split gives the region a version that nobody has cached.
- `SequentialSplitsKeepPartition` and `SequentialRepliesAreSafe`: with a single
  handler, `Partition` is kept and `NoPanic` holds even with `TrustSplitReply`.
  The strengthening (`KeysInside`, `ReplyInv`) says that the region between
  lookup and split still contains the split key, and that a reply being
  marshalled still describes the region.

`PercolatorProofs` proves, for any keys, transactions, regions and timestamps,
the safety properties of `Percolator` from `ASSUME Disciplined`. The invariant
has four parts: timestamps are used once and in order (`OracleInv`); every entry
belongs to a transaction and a lock excludes a record of the same transaction
(`EntryInv`); the record on the primary decides, whatever anybody knows agrees
with it, and a prewritten key holds the lock or a record ever after
(`ProtocolInv`); and below a snapshot that was read, every commit of the key has
left its record (`ReadInv`). None of the properties is inductive without the
third part: a rollback of a secondary is safe only because the primary can no
longer commit. Every handler is shown to be a `TxnStep`, which does to each key
nothing, or puts, rewrites, commits or rolls back the entries of one
transaction; the invariant is then proved for steps of that kind.

`PercolatorProofs` also proves `Spec => ImplementsTransactions` from the same
invariant: the commit of the primary is the abstract commit, its rollback the
abstract abort, a read is a read, and all else stutters. First-committer-wins
needs that a transaction that is about to commit still holds its locks.
`IsolationHolds` (`SnapshotIsolation`) is proved on the abstract side: `WriteRule`
and `ReadRule` are inductive together with the types and with starts that come
before commits and reads (`OutcomeInv`), by the guards of the abstract steps; the
refinement shows that the handlers respect those guards, so that nothing about
locks is needed a second time.

`CodecProofs` proves for byte strings of any length that `EncodeBytes` keeps the
order and makes no prefix of another encoding, that entries sort as the comment
in `MVCCLevelDB` lays them out, that both decoders undo both encoders, and that
`DeleteRange` removes exactly its range. There is no induction: the first
position where two strings differ gives the first where their encodings do.
The converse of the round trips holds too: what `DecodeBytes` accepts is the
encoding of the key it returns and the rest it returns (`DecodedIsEncoded`), since
it checks markers and padding; so `mvccDecode` takes nothing for an entry that
`mvccEncode`, or `EncodeBytes` alone, did not make (`OnlyEntriesDecode`).

`RegionScanProofs` proves `ScanIsExact` and `RepliesStayInRegion` for any byte
strings, regions, clients and limit, from `RawKeyAssumption` (keys are numbered
in byte order), a single split handler, a partition to begin with, and
`EmptyKey \notin ScanEnd` (scans have an end, as `scan_past_region` requires).
`RequestsSeeTheirRange` (`ScanRequestProofs`) carries the comparisons of bytes over to the order of
keys; `ScanInv` says that a client has got exactly the keys below where it is,
that the range its request was checked against starts and ends where the cached
region does, and that region boundaries, once made, stay, so that a region that
is split after the check does not make the client skip or repeat a key.
`ScanTypeCorrect` needs none of these restrictions: scans are well formed with
any number of handlers and with or without an end. Nor does `ScansAdvance`
(`ScansMoveForward`), the safety half of `ScanFinishes`: while a request is under
way the region the client knows contains the key it asks from (`Knows`), so its
end lies ahead; and the keys of a reply are not below that key whatever end the
handler computed (`IteratorStart`), so the key after a full reply lies ahead too.
`SplitsDuringScansAreSafe` carries `Partition` and `NoPanic` over to the
composition, for a single handler.

`PDProofs` proves `OnlyEarlyPanics` and `StoppedIsQuiet` for any number of
stores, calls and requests. The invariant ties the locks to the calls that hold
them and the servers already stopped to requests that have ended (`Deletion`,
`Draining`); it says that a failed creation never comes to stop the member, and
that a request admitted once the cluster was listed finds the cluster complete
and holds no nil database (`Admitted`), although requests admitted earlier, which
may hold one, run beside it. It shows that `PDSpec` implies the specification of `Lifecycle`
and proves `TimestampsAreFresh`, with the invariant that no timestamp in a
client's or a stream's hands is above the last one issued, and
`SafePointIsKept`; the types follow from the three invariants (`PDTypeOK`). The
assumptions on constants (`LifecycleAssumption`, `PDAssumption`, `LayoutAssumption`, `TxnAssumption` and those named above) are
evaluated by TLC in the runs.

Every safety property of a passing run is proved, under the restrictions named
above. Only model-checked is liveness (`LocksCleared`, `ScanFinishes`,
`TsoAnswered`), which is outside the proof system.

## Not modelled, and why

- A failing write of the database, and a restart: the server keeps its data in
  memory (`NewMVCCLevelDB("")`), so neither occurs in it.
- Raw operations but the range delete: each is one call of the database under
  the store's mutex. They write unencoded keys among the encoded entries and do
  not look at the bounds of regions, and nothing in the repository says what
  should hold when raw and transactional keys share a cluster.
- Undecodable database keys: only raw writes make them (`MvccDecodeRoundTrip`),
  and they are reported as errors unless they look like entries (`OnlyEntriesDecode`).
- Fail points: the table is the failpoint library's, one for the process. The
  effect of one, an error for a reply, is among the lost replies of
  `Percolator`. That `deleteFailPoint` disables one of three names and always
  returns an error is visible in the code, with no behaviour over time to check.
- `BatchCommands`: calls `KvGet` and `KvScan` in turn and keeps no state.
- Several clusters: they share the map of clusters, which `doCreateCluster`
  writes without the server's lock (undefined in the runtime), and `tsMu`, which
  belongs to the process and is modelled.
- `mvccEntry`'s `Prewrite`, `Commit` and `Rollback`, the btree items and the
  descending decoder have no caller.
- The cluster config (an integer that nothing else reads), `AllocID`, `GetStore`,
  `GetAllStores`, `Bootstrap`: replies from constants or a counter.
- HTTP API, conversions, command line, configuration, log: routing, copying and
  formatting, with no state of their own.
- The count of a Tso request and the composition of the two halves of a
  timestamp: the server ignores the one and leaves the other to the client.
- Request size limits, key-only scans, error texts: no state depends on them.
- The leader cases of the request check: a region has one peer, its leader.
- Pessimistic locks, heartbeats, coprocessor, raft and import handlers: they
  panic or answer as unimplemented. `KvGC` does nothing.
- `BatchResolveLock` is modelled in the store, but `KvResolveLock` never calls
  it: the handler ignores the transaction list of a request.
