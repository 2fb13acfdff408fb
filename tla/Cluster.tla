-------------------------------- MODULE Cluster --------------------------------
(***************************************************************************)
(* The regions of one cluster: server/cluster.go and server/region.go, with *)
(* the request check and the SplitRegion handler of server/store.go.        *)
(*                                                                         *)
(* Keys are numbers in the order of their encodings, and 0 is the empty    *)
(* key.  A region is identified by its place in clusterInstance.regions:   *)
(* regions are only appended and ids are never reused, so place and id     *)
(* determine each other and regionByID is indexing.  A region has one peer *)
(* (regionInstance.init makes one, SplitRaw copies it), which is its       *)
(* leader; only the store of that peer is kept.  The first version of a    *)
(* region is an allocated id; it is 1 here, since versions are compared    *)
(* for one region at a time.                                               *)
(***************************************************************************)
EXTENDS Integers, Sequences

CONSTANTS Key,            \* encoded keys, the empty key included
          Layouts,        \* the region lists clusters are created with
          NumStores,      \* len(c.stores)
          Handler,        \* goroutines serving SplitRegion
          Client,         \* clients that cache a region
          NoRegion,       \* a client has cached nothing
          TrustSplitReply,\* clients cache the regions of a SplitRegion reply
          MaxRegions      \* bound on the number of regions

EmptyKey == 0

KeyRange == [startKey : Key, endKey : Key]

\* regionContains of server/mvcc.go.
regionContains(r, k) ==
  r.startKey =< k /\ (k < r.endKey \/ r.endKey = EmptyKey)

validateRegion(l) ==
  /\ l # <<>> /\ l[1].startKey = EmptyKey
  /\ \A i \in 2 .. Len(l) : l[i].startKey = l[i - 1].endKey
  /\ \A i \in 1 .. Len(l) :
       l[i].endKey # EmptyKey /\ l[i].startKey # EmptyKey
         => l[i].startKey < l[i].endKey
  /\ l[Len(l)].endKey = EmptyKey

Covers(l) == \A k \in Key : \E i \in 1 .. Len(l) : regionContains(l[i], k)

\* doCreateCluster creates no cluster with a list validateRegion refuses.
ASSUME LayoutAssumption ==
  /\ Key \subseteq Nat /\ EmptyKey \in Key
  /\ NumStores \in Nat \ {0}
  /\ Layouts \subseteq Seq(KeyRange)
  /\ \A l \in Layouts : validateRegion(l)

Store == 0 .. NumStores - 1

Region == [startKey : Key, endKey : Key, version : Nat, store : Store]

\* What getRegionByKey and getRegionByID clone, and clients cache.
Descriptor == [region : Nat, startKey : Key, endKey : Key, version : Nat, store : Store]

ASSUME ClientAssumption == NoRegion \notin Descriptor /\ TrustSplitReply \in BOOLEAN

VARIABLES regions,  \* clusterInstance.regions
          call,     \* call[h]: the progress of the SplitRegion call h serves
          cached    \* cached[c]: the region client c believes in

vars == <<regions, call, cached>>

Idle == [at |-> "idle", key |-> EmptyKey, region |-> 0, endKey |-> EmptyKey]

TypeOK ==
  /\ regions \in Seq(Region)
  /\ call \in [Handler -> [at : {"idle", "lookup", "split", "reply", "epoch"},
                           key : Key, region : Nat, endKey : Key]]
  /\ \A h \in Handler :
       call[h].at \in {"split", "reply", "epoch"} => call[h].region \in 1 .. Len(regions)
  /\ cached \in [Client -> Descriptor \cup {NoRegion}]

\* Mutant: region i is put on store i.
initRegionsNoModulo(l) ==
  [i \in 1 .. Len(l) |-> [startKey |-> l[i].startKey, endKey |-> l[i].endKey,
                          version |-> 1, store |-> i - 1]]

initRegions(l) ==
  [i \in 1 .. Len(l) |-> [startKey |-> l[i].startKey, endKey |-> l[i].endKey,
                          version |-> 1, store |-> (i - 1) % NumStores]]

Init == /\ \E l \in Layouts : regions = initRegions(l)
        /\ call = [h \in Handler |-> Idle]
        /\ cached = [c \in Client |-> NoRegion]

--------------------------------------------------------------------------------
(* Looking up regions *)

\* getRegionByKey takes the first region in the list that contains the key.
IsRegionByKey(i, k) ==
  /\ i \in 1 .. Len(regions) /\ regionContains(regions[i], k)
  /\ \A j \in 1 .. i - 1 : ~ regionContains(regions[j], k)

\* Mutant: the clone leaves the epoch out.
CloneNoEpoch(i) == [region |-> i, startKey |-> regions[i].startKey, endKey |-> regions[i].endKey,
                    version |-> 0, store |-> regions[i].store]

Clone(i) == [region |-> i, startKey |-> regions[i].startKey, endKey |-> regions[i].endKey,
             version |-> regions[i].version, store |-> regions[i].store]

\* The region error store s gives a request with context d, or "ok".  The
\* leader cases cannot occur: the only peer of a region is its leader.
checkRequestContext(s, d) ==
  CASE d.store # s -> "store not match"
    [] d.store = s /\ d.region \notin 1 .. Len(regions) -> "region not found"
    [] d.store = s /\ d.region \in 1 .. Len(regions)
       /\ regions[d.region].store # s -> "region not found"
    [] d.store = s /\ d.region \in 1 .. Len(regions)
       /\ regions[d.region].store = s /\ regions[d.region].version # d.version
         -> "epoch not match"
    [] OTHER -> "ok"

\* PD's GetRegion and GetRegionByID.
GetRegion(c, k) ==
  /\ \E i \in 1 .. Len(regions) : /\ IsRegionByKey(i, k)
                                  /\ cached' = [cached EXCEPT ![c] = Clone(i)]
  /\ UNCHANGED <<regions, call>>

GetRegionByID(c, i) ==
  /\ i \in 1 .. Len(regions)
  /\ cached' = [cached EXCEPT ![c] = Clone(i)]
  /\ UNCHANGED <<regions, call>>

\* A request with a stale epoch is answered with the region and the one after
\* it; the client goes on with either.  The two are cloned one after the other,
\* and what happens in between the client may as well learn from GetRegion.
EpochNotMatch(c, s) ==
  /\ cached[c] # NoRegion
  /\ checkRequestContext(s, cached[c]) = "epoch not match"
  /\ \E i \in 1 .. Len(regions) :
       /\ i = cached[c].region \/ IsRegionByKey(i, regions[cached[c].region].endKey)
       /\ cached' = [cached EXCEPT ![c] = Clone(i)]
  /\ UNCHANGED <<regions, call>>

--------------------------------------------------------------------------------
(* SplitRegion: each step is one critical section of clusterInstance's lock *)

\* The request check.  It does not look at the split key.
SplitRegion(h, c, s, k) ==
  /\ call[h].at = "idle"
  /\ cached[c] # NoRegion /\ checkRequestContext(s, cached[c]) = "ok"
  /\ call' = [call EXCEPT ![h] = [Idle EXCEPT !.at = "lookup", !.key = k]]
  /\ UNCHANGED <<regions, cached>>

\* Mutant: a region is split at its own start key.
LookupRegionAny(h) ==
  /\ call[h].at = "lookup"
  /\ \E i \in 1 .. Len(regions) :
       /\ IsRegionByKey(i, call[h].key)
       /\ call' = [call EXCEPT ![h].at = "split", ![h].region = i]
  /\ UNCHANGED <<regions, cached>>

LookupRegion(h) ==
  /\ call[h].at = "lookup"
  /\ \E i \in 1 .. Len(regions) :
       /\ IsRegionByKey(i, call[h].key)
       /\ call' = [call EXCEPT ![h] = IF regions[i].startKey = call[h].key THEN Idle
                                      ELSE [@ EXCEPT !.at = "split", !.region = i]]
  /\ UNCHANGED <<regions, cached>>

\* Mutant: the new region takes the end key its origin has after the split.
splitLate(i, k) ==
  LET origin == [regions[i] EXCEPT !.endKey = k, !.version = @ + 1]
  IN  Append([regions EXCEPT ![i] = origin], [origin EXCEPT !.startKey = k])

\* Mutant: only the new region gets a new version.
splitOldEpoch(i, k) ==
  Append([regions EXCEPT ![i].endKey = k],
         [regions[i] EXCEPT !.startKey = k, !.version = @ + 1])

\* Mutant: the new region goes to the next store, past the last one.
splitNextStore(i, k) ==
  LET r == regions[i]
  IN  Append([regions EXCEPT ![i] = [r EXCEPT !.endKey = k, !.version = r.version + 1]],
             [r EXCEPT !.startKey = k, !.version = r.version + 1, !.store = @ + 1])

\* The regions after region i is split at k.
split(i, k) ==
  LET r == regions[i]
  IN  Append([regions EXCEPT ![i] = [r EXCEPT !.endKey = k, !.version = r.version + 1]],
             [r EXCEPT !.startKey = k, !.version = r.version + 1])

\* The reply points at the live regions and is marshalled after the lock is
\* released; the client looks at the left or the right one, or the reply is lost.
SplitRaw(h) ==
  /\ call[h].at = "split" /\ Len(regions) < MaxRegions
  /\ regions' = split(call[h].region, call[h].key)
  /\ \/ call' = [call EXCEPT ![h] = Idle]
     \/ \E i \in {call[h].region, Len(regions) + 1} :
          call' = [call EXCEPT ![h].at = "reply", ![h].region = i]
  /\ UNCHANGED cached

MarshalEndKey(h) ==
  /\ call[h].at = "reply"
  /\ call' = [call EXCEPT ![h].at = "epoch", ![h].endKey = regions[call[h].region].endKey]
  /\ UNCHANGED <<regions, cached>>

MarshalEpoch(h, c) ==
  /\ call[h].at = "epoch"
  /\ cached' = IF TrustSplitReply
               THEN [cached EXCEPT ![c] = [Clone(call[h].region) EXCEPT !.endKey = call[h].endKey]]
               ELSE cached
  /\ call' = [call EXCEPT ![h] = Idle]
  /\ UNCHANGED regions

Next ==
  \/ \E c \in Client, k \in Key : GetRegion(c, k)
  \/ \E c \in Client, i \in 1 .. MaxRegions : GetRegionByID(c, i)
  \/ \E c \in Client, s \in Store : EpochNotMatch(c, s)
  \/ \E h \in Handler, c \in Client, s \in Store, k \in Key : SplitRegion(h, c, s, k)
  \/ \E h \in Handler : LookupRegion(h) \/ SplitRaw(h) \/ MarshalEndKey(h)
  \/ \E h \in Handler, c \in Client : MarshalEpoch(h, c)

Spec == Init /\ [][Next]_vars

--------------------------------------------------------------------------------
(* Properties *)

\* Every key lies in a region, whatever splits run at the same time: the
\* lookups of SplitRegion and of PD's GetRegion always find a region, and the
\* handler never reads the peers of a nil one.
Covered == Covers(regions)

\* The handlers panic with "key not in region" when a request passes the epoch
\* check but its key is outside the region.  A client that only sends keys of
\* the region it cached never makes them: the version a client knows determines
\* the range.
NoPanic ==
  \A c \in Client, s \in Store, k \in Key :
    /\ cached[c] # NoRegion /\ regionContains(cached[c], k)
    /\ checkRequestContext(s, cached[c]) = "ok"
    => regionContains(regions[cached[c].region], k)

\* What validateRegion demands of the regions of a new cluster still holds of
\* the regions splits make of them: no region ends before it starts, and no
\* two regions share a key.
Partition ==
  /\ \A i \in 1 .. Len(regions) :
       regions[i].endKey # EmptyKey => regions[i].startKey < regions[i].endKey
  /\ \A i, j \in 1 .. Len(regions) : \A k \in Key :
       regionContains(regions[i], k) /\ regionContains(regions[j], k) => i = j

================================================================================
