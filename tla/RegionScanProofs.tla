---------------------------- MODULE RegionScanProofs ---------------------------
(***************************************************************************)
(* Proofs about RegionScan, for any keys, any stored entries, any limit    *)
(* and any number of regions: a scan that is bounded gets exactly its      *)
(* range, whatever is split while it runs.                                 *)
(***************************************************************************)
EXTENDS ClusterProofs, ScanRequestProofs

--------------------------------------------------------------------------------
(* The regions while clients scan *)

RegInv == SeqInv /\ PartInv

\* A region starts at k.
Boundary(k) == \E i \in 1 .. Len(regions) : regions[i].startKey = k

\* Types of the regions' fields.
LEMMA RegionKeys ==
  ASSUME TypeOK, NEW i \in 1 .. Len(regions)
  PROVE  /\ regions[i].startKey \in Key /\ regions[i].endKey \in Key
         /\ regions[i].startKey \in Nat /\ regions[i].endKey \in Nat
<1>1. regions[i] \in Region
  BY DEF TypeOK
<1>2. regions[i].startKey \in Key /\ regions[i].endKey \in Key
  BY <1>1, Zenon DEF Region
<1> QED
  BY <1>2, Keys, Zenon

\* The region of a boundary starts there.
LEMMA BoundaryStartsRegion ==
  ASSUME TypeOK, Partition, NEW k \in Key, Boundary(k),
         NEW i \in 1 .. Len(regions), regionContains(regions[i], k)
  PROVE  regions[i].startKey = k
<1>1. PICK j \in 1 .. Len(regions) : regions[j].startKey = k
  BY Zenon DEF Boundary
<1>2. regions[j].endKey # EmptyKey => regions[j].startKey < regions[j].endKey
  BY Zenon DEF Partition
<1>3. regions[j].startKey \in Nat /\ regions[j].endKey \in Nat
  BY RegionKeys, Zenon
<1>4. regionContains(regions[j], k)
  BY <1>1, <1>2, <1>3, SMTT(30) DEF regionContains
<1>5. i = j
  BY <1>4, Zenon DEF Partition
<1> QED
  BY <1>1, <1>5, Zenon

\* Where a region ends the next one starts.
LEMMA EndIsBoundary ==
  ASSUME TypeOK, Covered, Partition, NEW i \in 1 .. Len(regions),
         regions[i].endKey # EmptyKey
  PROVE  Boundary(regions[i].endKey)
<1> DEFINE e == regions[i].endKey
           s == regions[i].startKey
<1>1. e \in Key /\ s \in Key /\ e \in Nat /\ s \in Nat /\ EmptyKey = 0
  BY RegionKeys, Keys, Zenon
<1>2. s < e
  BY Zenon DEF Partition
<1>3. PICK j \in 1 .. Len(regions) : regionContains(regions[j], e)
  BY <1>1, Zenon DEF Covered, Covers
<1> DEFINE t == regions[j].startKey
<1>4. t \in Key /\ t \in Nat /\ regions[j].endKey \in Nat
  BY RegionKeys, Zenon
<1>5. t =< e /\ (e < regions[j].endKey \/ regions[j].endKey = EmptyKey)
  BY <1>3, Zenon DEF regionContains
<1> DEFINE f == regions[j].endKey
           x == IF s < t THEN t ELSE s
<1>6. ASSUME t < e PROVE FALSE
  <2>1. x \in Key
    BY <1>1, <1>4, Zenon
  <2>2. s =< x /\ t =< x /\ x < e /\ x \in Nat
    BY <1>1, <1>2, <1>4, <1>6
  <2> HIDE DEF x
  <2>3. regionContains(regions[i], x)
    BY <2>2, Zenon DEF regionContains
  <2>4. regionContains(regions[j], x)
    BY <1>1, <1>4, <1>5, <2>2 DEF regionContains
  <2>5. i = j
    BY <2>1, <2>3, <2>4, Zenon DEF Partition
  <2> QED
    BY <1>1, <1>5, <2>5
<1>7. t = e
  BY <1>1, <1>4, <1>5, <1>6
<1> QED
  BY <1>7, Zenon DEF Boundary

\* Regions only get smaller: a boundary stays one.
LEMMA BoundaryStays ==
  ASSUME TypeOK, NEW k, Boundary(k), NEW h \in Handler, SplitRaw(h)
  PROVE  Boundary(k)'
<1>1. regions \in Seq(Region) /\ Len(regions) \in Nat
  BY DEF TypeOK
<1> DEFINE i == call[h].region
           x == call[h].key
<1>2. i \in 1 .. Len(regions) /\ x \in Key
  BY Zenon DEF SplitRaw, TypeOK
<1>3. regions' = split(i, x)
  BY SMTT(30) DEF SplitRaw
<1> HIDE DEF i, x
<1>4. /\ Len(split(i, x)) = Len(regions) + 1
      /\ \A j \in 1 .. Len(regions) : j # i => split(i, x)[j] = regions[j]
      /\ split(i, x)[i] = [regions[i] EXCEPT !.endKey = x, !.version = regions[i].version + 1]
  BY <1>1, <1>2, SplitEffect, Zenon
<1>5. PICK j \in 1 .. Len(regions) : regions[j].startKey = k
  BY Zenon DEF Boundary
<1>6. j \in 1 .. Len(regions') /\ regions'[j].startKey = k
  <2>1. CASE j # i
    BY <1>1, <1>3, <1>4, <1>5, <2>1
  <2>2. CASE j = i
    <3>1. regions[i] \in Region
      BY <1>1, <1>2
    <3>2. regions'[i].startKey = regions[i].startKey
      BY <1>3, <1>4, <3>1, Zenon DEF Region
    <3> QED
      BY <1>1, <1>3, <1>4, <1>5, <2>2, <3>2
  <2> QED
    BY <2>1, <2>2, Zenon
<1> QED
  BY <1>6, Zenon DEF Boundary

Scanned == [rpc : {"KvScan", "KvScanLock"}, endKey : Key, next : Key,
            at : {"client", "store", "done"}, reqCtx : KeyRange, got : Seq(StoredKey)]

\* What client c got, and what its request found.  KvScanLock has no bounds: it
\* is exact because its scan goes on where a region starts, and regions never
\* stop starting there.
ClientInv(c) ==
  LET s == scan[c]
      Got(S) == Sorted(s.got, S)
  IN  /\ s.rpc = "KvScan" <=> s.endKey # EmptyKey
      /\ s.at # "done" => Got({k \in stored : k < s.next})
      /\ s.at # "done" /\ s.endKey # EmptyKey => s.next < s.endKey
      /\ s.at = "done" => Got({k \in stored : s.endKey = EmptyKey \/ k < s.endKey})
      /\ s.at = "store" =>
           /\ cached[c] # NoRegion /\ regionContains(cached[c], s.next)
           /\ s.reqCtx = [startKey |-> cached[c].startKey, endKey |-> cached[c].endKey]
      /\ s.rpc = "KvScanLock" /\ s.at # "done" => Boundary(s.next)
      /\ s.rpc = "KvScanLock" /\ s.at = "store" =>
           /\ s.reqCtx.startKey = s.next
           /\ s.reqCtx.endKey # EmptyKey => Boundary(s.reqCtx.endKey)

ScanInv == RegInv /\ ScanTypeOK /\ \A c \in Client : ClientInv(c)

\* Accepting a split request changes no region.
LEMMA AcceptKeepsCover ==
  ASSUME CoverInv, NEW h \in Handler, NEW k \in Key, AcceptSplit(h, k)
  PROVE  CoverInv' /\ call'[h].at = "lookup" /\ \A g \in Handler : g # h => call'[g] = call[g]
<1> DEFINE r == [Idle EXCEPT !.at = "lookup", !.key = k]
<1>1. TypeOK /\ Covered
  BY Zenon DEF CoverInv
<1>2. r \in Calls /\ r.at = "lookup"
  BY IdleType, Zenon DEF Calls, Stage
<1>3. call' = [call EXCEPT ![h] = r] /\ UNCHANGED <<regions, cached>>
  BY Zenon DEF AcceptSplit
<1> HIDE DEF r
<1>4. /\ regions' \in Seq(Region) /\ Len(regions') >= Len(regions)
      /\ cached' \in [Client -> Descriptor \cup {NoRegion}]
      /\ call \in [Handler -> Calls]
  BY <1>1, <1>3 DEF TypeOK, Calls, Stage
<1>5. TypeOK'
  BY <1>1, <1>2, <1>3, <1>4, CallType, ZenonT(30)
<1>6. Covered'
  BY <1>1, <1>3 DEF Covered, Covers
<1>7. call'[h].at = "lookup" /\ \A g \in Handler : g # h => call'[g] = call[g]
  BY <1>2, <1>3, <1>4, Zenon
<1> QED
  BY <1>5, <1>6, <1>7, Zenon DEF CoverInv

\* Nor does it touch what is known of replies.
LEMMA AcceptKeepsRegions ==
  ASSUME RegInv, NEW h \in Handler, NEW k \in Key, AcceptSplit(h, k)
  PROVE  RegInv'
<1>1. CoverInv /\ CacheInv /\ ReplyInv /\ Partition /\ KeysInside
  BY Zenon DEF RegInv, SeqInv, PartInv
<1>2. UNCHANGED <<regions, cached>>
  BY Zenon DEF AcceptSplit
<1>3. CoverInv' /\ call'[h].at = "lookup" /\ \A g \in Handler : g # h => call'[g] = call[g]
  BY <1>1, AcceptKeepsCover, Zenon
<1>4. CacheInv' /\ Partition'
  BY <1>1, <1>2 DEF CacheInv, Partition
<1>5. ReplyInv' /\ KeysInside'
  BY <1>1, <1>2, <1>3 DEF ReplyInv, KeysInside
<1> QED
  BY <1>3, <1>4, <1>5, Zenon DEF RegInv, SeqInv, PartInv

\* Every step of clients and handlers is one that Cluster allows, or accepts a
\* split request.
LEMMA ClusterStep ==
  ASSUME ScanTypeOK, [ScanNext]_scanVars
  PROVE  [Next]_vars \/ \E h \in Handler, k \in Key : AcceptSplit(h, k)
<1>1. TypeOK /\ \A c \in Client : scan[c].next \in Key
  BY Zenon DEF ScanTypeOK
<1>2. ASSUME NEW c \in Client, Locate(c) PROVE Next
  BY <1>1, <1>2, Zenon DEF Locate, Next
<1>3. ASSUME NEW c \in Client, Relocate(c) PROVE Next
  <2>1. cached[c] \in Descriptor
    BY <1>1, <1>3, Zenon DEF Relocate, Asks, TypeOK
  <2>2. cached[c].store \in Store
    BY <2>1, Zenon DEF Descriptor
  <2> QED
    BY <1>3, <2>2, Zenon DEF Relocate, Next
<1>4. ASSUME NEW h \in Handler, Split(h) PROVE Next
  BY <1>4, Zenon DEF Split, Next
<1>5. ASSUME NEW h \in Handler, NEW c \in Client, SplitReply(h, c) PROVE Next
  BY <1>5, Zenon DEF SplitReply, Next
<1>6. ASSUME NEW c \in Client, checkRequest(c) \/ KvScan(c) \/ KvScanLock(c)
      PROVE  UNCHANGED vars
  BY <1>6, Zenon DEF checkRequest, KvScan, KvScanLock, vars
<1>7. CASE UNCHANGED scanVars
  BY <1>7, SMTT(30) DEF scanVars, vars
<1> QED
  BY <1>2, <1>3, <1>4, <1>5, <1>6, <1>7, Zenon DEF ScanNext, ScanStep, Finished

\* So the regions stay as they should be.
LEMMA RegionStep ==
  ASSUME \A g, h \in Handler : g = h, RegInv, ScanTypeOK, [ScanNext]_scanVars
  PROVE  RegInv'
<1>1. ASSUME [Next]_vars PROVE RegInv'
  BY <1>1, NextSeq, NextPart, Zenon DEF RegInv
<1> QED
  BY <1>1, ClusterStep, AcceptKeepsRegions, Zenon

\* A step that leaves a client's scan and its cached region alone, and no
\* boundary out, keeps what is known of it.
LEMMA ClientKept ==
  ASSUME NEW c \in Client, ClientInv(c), scan'[c] = scan[c], UNCHANGED stored,
         scan[c].at = "store" => cached'[c] = cached[c],
         \A k : Boundary(k) => Boundary(k)'
  PROVE  ClientInv(c)'
<1> DEFINE s == scan[c]
<1>1. /\ s.rpc = "KvScan" <=> s.endKey # EmptyKey
      /\ s.at # "done" => Sorted(s.got, {k \in stored : k < s.next})
      /\ s.at # "done" /\ s.endKey # EmptyKey => s.next < s.endKey
      /\ s.at = "done" => Sorted(s.got, {k \in stored : s.endKey = EmptyKey \/ k < s.endKey})
      /\ s.at = "store" =>
           /\ cached[c] # NoRegion /\ regionContains(cached[c], s.next)
           /\ s.reqCtx = [startKey |-> cached[c].startKey, endKey |-> cached[c].endKey]
      /\ s.rpc = "KvScanLock" /\ s.at # "done" => Boundary(s.next)
      /\ s.rpc = "KvScanLock" /\ s.at = "store" =>
           /\ s.reqCtx.startKey = s.next
           /\ s.reqCtx.endKey # EmptyKey => Boundary(s.reqCtx.endKey)
  BY SMTT(30) DEF ClientInv
<1> QED
  BY <1>1, SMTT(30) DEF ClientInv

--------------------------------------------------------------------------------
(* A reply *)

Full(c, pairs) == scan[c].rpc = "KvScan" /\ Len(pairs) = Limit

\* A scan between two requests.
LEMMA ScanRecord ==
  ASSUME NEW rpc \in {"KvScan", "KvScanLock"}, NEW e \in Key, NEW m \in Key,
         NEW at \in {"client", "done"}, NEW got \in Seq(StoredKey), NEW x,
         x = [rpc |-> rpc, endKey |-> e, next |-> m, at |-> at, reqCtx |-> NoContext,
              got |-> got]
  PROVE  /\ x \in Scanned /\ x.rpc = rpc /\ x.endKey = e /\ x.next = m
         /\ x.at = at /\ x.got = got
<1>1. NoContext \in KeyRange
  BY Keys, Zenon DEF NoContext, KeyRange
<1> QED
  BY <1>1, Zenon DEF Scanned

\* The scan of a client after a reply, field by field.
LEMMA AfterReply ==
  ASSUME ScanTypeOK, NEW c \in Client, cached[c] # NoRegion, NEW pairs \in Seq(StoredKey)
  PROVE  \E n \in Key, over \in BOOLEAN :
           /\ After(c, pairs)
                = [rpc |-> scan[c].rpc, endKey |-> scan[c].endKey, next |-> n,
                   at |-> IF over THEN "done" ELSE "client", reqCtx |-> NoContext,
                   got |-> scan[c].got \o pairs]
           /\ Full(c, pairs) => RawKey[n] = RawKey[pairs[Limit]] \o <<0>>
           /\ ~ Full(c, pairs) => n = cached[c].endKey
           /\ over <=> \/ ~ Full(c, pairs) /\ cached[c].endKey = EmptyKey
                       \/ scan[c].endKey # EmptyKey /\ n >= scan[c].endKey
<1> DEFINE e == cached[c].endKey
           n == IF Full(c, pairs) THEN CHOOSE n \in Key : RawKey[n] = RawKey[pairs[Limit]] \o <<0>>
                ELSE e
           over == \/ ~ Full(c, pairs) /\ e = EmptyKey
                   \/ scan[c].endKey # EmptyKey /\ n >= scan[c].endKey
<1>1. scan[c] \in Scanned
  BY Zenon DEF ScanTypeOK, Scanned
<1>2. e \in Key
  <2>1. cached[c] \in Descriptor
    BY Zenon DEF ScanTypeOK, TypeOK
  <2> QED
    BY <2>1, Zenon DEF Descriptor
<1>3. Full(c, pairs) => \E x \in Key : RawKey[x] = RawKey[pairs[Limit]] \o <<0>>
  <2>1. Limit \in Nat \ {0} /\ Len(pairs) \in Nat
    BY RawKeyAssumption
  <2>2. Full(c, pairs) => pairs[Limit] \in StoredKey
    BY <2>1 DEF Full
  <2> QED
    BY <2>2, RawKeyAssumption, Zenon
<1>4. n \in Key /\ (Full(c, pairs) => RawKey[n] = RawKey[pairs[Limit]] \o <<0>>)
      /\ (~ Full(c, pairs) => n = e)
  BY <1>2, <1>3, Zenon
<1>5. After(c, pairs) = [scan[c] EXCEPT !.got = @ \o pairs, !.next = n, !.reqCtx = NoContext,
                                        !.at = IF over THEN "done" ELSE "client"]
  BY Zenon DEF After, Full
<1> HIDE DEF n, e
<1>6. over \in BOOLEAN
  BY Zenon
<1>7. over <=> \/ ~ Full(c, pairs) /\ e = EmptyKey
               \/ scan[c].endKey # EmptyKey /\ n >= scan[c].endKey
  BY Zenon
<1> HIDE DEF over
<1>8. After(c, pairs)
        = [rpc |-> scan[c].rpc, endKey |-> scan[c].endKey, next |-> n,
           at |-> IF over THEN "done" ELSE "client", reqCtx |-> NoContext,
           got |-> scan[c].got \o pairs]
  BY <1>1, <1>5, Zenon DEF Scanned
<1> QED
  BY <1>4, <1>6, <1>7, <1>8, Zenon DEF e

\* What a reply of KvScan adds: the keys from where the scan is, up to where it
\* goes on or ends.
LEMMA KvScanReply ==
  ASSUME ScanInv, NEW c \in Client, KvScan(c)
  PROVE  /\ \E p \in Seq(StoredKey) :
              /\ scan' = [scan EXCEPT ![c] = After(c, p)]
              /\ \A i \in 1 .. Len(p) : regionContains(scan[c].reqCtx, p[i])
         /\ scan'[c] \in Scanned /\ ClientInv(c)'
<1> DEFINE s == scan[c]
           n == s.next
           e == s.endKey
           r == cached[c].endKey
           q == RequestEnd(c)
           S == KeysFrom(n, q) \cap stored
           G == {k \in stored : k < n}
<1>1. /\ s \in Scanned /\ stored \in SUBSET StoredKey /\ TypeOK
      /\ n \in Key /\ e \in Key /\ s.rpc = "KvScan" /\ s.at = "store"
      /\ s.got \in Seq(StoredKey)
  BY Zenon DEF ScanInv, ScanTypeOK, Scanned, KvScan
<1>2. /\ cached[c] # NoRegion /\ cached[c].startKey =< n /\ (n < r \/ r = EmptyKey)
      /\ s.reqCtx = [startKey |-> cached[c].startKey, endKey |-> r]
      /\ Sorted(s.got, G) /\ e # EmptyKey /\ n < e
  BY <1>1, Zenon DEF ScanInv, ClientInv, regionContains
<1>3. r \in Key /\ cached[c].startKey \in Key
  <2>1. cached[c] \in Descriptor
    BY <1>1, <1>2, Zenon DEF TypeOK
  <2> QED
    BY <2>1, Zenon DEF Descriptor
<1>4. /\ n \in Nat /\ e \in Nat /\ r \in Nat /\ cached[c].startKey \in Nat /\ EmptyKey = 0
      /\ \A k \in stored : k \in Nat /\ k \in Key /\ k \in StoredKey
  BY <1>1, <1>3, RawKeyAssumption, Keys, Zenon
<1>5. q = IF r # EmptyKey /\ r < e THEN r ELSE e
  BY <1>2, Zenon DEF RequestEnd
<1>6. q \in Key /\ q \in Nat /\ q # EmptyKey /\ n < q /\ q =< e /\ (r = EmptyKey \/ q =< r)
  BY <1>1, <1>2, <1>3, <1>4, <1>5
<1> HIDE DEF q
<1>7. S \in SUBSET StoredKey /\ S = {k \in stored : n =< k /\ k < q}
  BY <1>4, <1>6, Zenon DEF KeysFrom
<1>8. IsFiniteSet(S) /\ \A k \in S : k \in Nat
  BY <1>4, <1>7, RawKeyAssumption, FS_Subset, Zenon
<1> DEFINE all == InOrder(S)
           p == FirstOf(all, Limit)
<1>9. Sorted(all, S)
  BY <1>7, <1>8, InOrderIsAscending, AscendingIsSorted, Zenon
<1>10. Limit \in Nat \ {0}
  BY RawKeyAssumption, Zenon
<1>11. scan' = [scan EXCEPT ![c] = After(c, p)] /\ UNCHANGED <<regions, call, cached, stored>>
  <2>1. PICK x \in ScanRanges :
          /\ x.startKey = n /\ x.reqEnd = q /\ x.endKey = s.reqCtx.endKey
          /\ scan' = [scan EXCEPT ![c] = After(c, FirstOf(InOrder(x.keys \cap stored), Limit))]
          /\ UNCHANGED <<regions, call, cached, stored>>
    BY Zenon DEF KvScan, q
  <2>2. x.endKey = r
    BY <1>2, <2>1
  <2>3. x.keys = newScanIterator(RawKey[x.startKey], scanEndKey(RawKey[x.reqEnd], NewMvccKey(RawKey[x.endKey])))
    BY DEF ScanRanges
  <2>4. x.keys = newScanIterator(RawKey[n], scanEndKey(RawKey[q], NewMvccKey(RawKey[r])))
    BY <2>1, <2>2, <2>3, Zenon
  <2>5. newScanIterator(RawKey[n], scanEndKey(RawKey[q], NewMvccKey(RawKey[r]))) = KeysFrom(n, q)
    <3> HIDE DEF n, r
    <3> QED
      BY <1>1, <1>3, <1>6, RequestsSeeTheirRange, Zenon
  <2> QED
    BY <2>1, <2>4, <2>5, Zenon
<1>12. p = FirstOf(all, Limit)
  BY Zenon
<1> HIDE DEF all, p, S
<1>13. /\ Len(p) = Limit => p[Limit] \in S /\ Sorted(p, UpTo(S, p[Limit]))
       /\ Len(p) # Limit => p = all
  BY <1>8, <1>9, <1>10, <1>12, Reply
<1> DEFINE T == IF Len(p) = Limit THEN UpTo(S, p[Limit]) ELSE S
<1>14. Sorted(p, T) /\ \A k \in T : k \in S
  BY <1>9, <1>13, Zenon DEF UpTo
<1> HIDE DEF T, G
<1>15. p \in Seq(StoredKey) /\ Len(p) \in Nat /\ \A i \in 1 .. Len(p) : p[i] \in S
  <2>1. p \in Seq(T)
    BY <1>14, Zenon DEF Sorted
  <2>2. Len(p) \in Nat /\ \A i \in 1 .. Len(p) : p[i] \in T
    BY <2>1
  <2>3. \A i \in 1 .. Len(p) : p[i] \in S /\ p[i] \in StoredKey
    BY <1>7, <1>14, <2>2, Zenon
  <2>4. p = [i \in 1 .. Len(p) |-> p[i]]
    BY <2>1
  <2>5. p \in Seq(StoredKey)
    BY <2>2, <2>3, <2>4
  <2> QED
    BY <2>2, <2>3, <2>5, Zenon
<1>16. ASSUME NEW k \in S PROVE regionContains(s.reqCtx, k)
  <2>1. k \in Nat /\ n =< k /\ k < q
    BY <1>7, <1>8, Zenon
  <2>2. s.reqCtx.startKey = cached[c].startKey /\ s.reqCtx.endKey = r
    BY <1>2
  <2> QED
    BY <1>2, <1>4, <1>6, <2>1, <2>2 DEF regionContains
<1>17. Sorted(s.got \o p, G \cup T)
  <2>1. \A k \in G, l \in T : k < l
    BY <1>4, <1>7, <1>14, SMTT(30) DEF G
  <2> QED
    BY <1>2, <1>14, <2>1, SortedConcat, Zenon
<1>18. PICK m \in Key, over \in BOOLEAN :
         /\ After(c, p) = [rpc |-> s.rpc, endKey |-> e, next |-> m,
                           at |-> IF over THEN "done" ELSE "client", reqCtx |-> NoContext,
                           got |-> s.got \o p]
         /\ Full(c, p) => RawKey[m] = RawKey[p[Limit]] \o <<0>>
         /\ ~ Full(c, p) => m = r
         /\ over <=> (~ Full(c, p) /\ r = EmptyKey) \/ (e # EmptyKey /\ m >= e)
  BY <1>2, <1>15, AfterReply, Zenon DEF ScanInv
<1>19. scan'[c] = After(c, p)
  BY <1>11, Zenon DEF ScanInv, ScanTypeOK
<1>20. Full(c, p) <=> Len(p) = Limit
  BY <1>1, Zenon DEF Full
<1>21. /\ m \in Nat /\ (Len(p) # Limit => m = r)
       /\ over <=> (Len(p) # Limit /\ r = EmptyKey) \/ m >= e
  <2>1. m \in Nat
    BY Keys, Zenon
  <2>2. /\ Len(p) # Limit => m = r
        /\ over <=> (Len(p) # Limit /\ r = EmptyKey) \/ m >= e
    BY <1>2, <1>18, <1>20, Zenon
  <2> QED
    BY <2>1, <2>2, Zenon
<1> DEFINE Outcome == /\ over => G \cup T = {k \in stored : k < e}
                      /\ ~ over => G \cup T = {k \in stored : k < m} /\ m < e
<1>22. ASSUME Len(p) = Limit PROVE Outcome
  <2> DEFINE z == p[Limit]
  <2>1. z \in S /\ T = {k \in S : k =< z}
    BY <1>13, <1>22, Zenon DEF T, UpTo
  <2>2. z \in StoredKey /\ z \in Nat /\ n =< z /\ z < q
    BY <1>7, <1>8, <2>1, SMTT(30)
  <2>3. RawKey[m] = RawKey[z] \o <<0>>
    BY <1>18, <1>20, <1>22, Zenon
  <2> HIDE DEF z
  <2>4. \A k \in Key : k < m <=> k =< z
    BY <2>2, <2>3, NextKey, Zenon
  <2>5. G \cup T = {k \in stored : k < m}
    <3>1. ASSUME NEW k \in stored PROVE k \in G \cup T <=> k =< z
      BY <1>4, <1>6, <1>7, <2>1, <2>2, SMTT(30) DEF G
    <3>2. \A k \in G \cup T : k \in stored
      BY <1>7, <2>1, Zenon DEF G
    <3> QED
      BY <1>4, <2>4, <3>1, <3>2, Zenon
  <2>6. over => G \cup T = {k \in stored : k < e}
    <3>1. ASSUME over, NEW k \in stored PROVE k < m <=> k < e
      <4>1. m >= e
        BY <1>21, <1>22, <3>1, Zenon
      <4>2. k < m => k =< z
        BY <1>4, <2>4, SMTT(30)
      <4> QED
        BY <1>4, <1>6, <1>21, <2>2, <4>1, <4>2, SMTT(30)
    <3> QED
      BY <2>5, <3>1, Zenon
  <2>7. ~ over => m < e
    BY <1>4, <1>21
  <2> QED
    BY <2>5, <2>6, <2>7, Zenon
<1>23. ASSUME Len(p) # Limit PROVE Outcome
  <2>1. T = S /\ m = r
    BY <1>21, <1>23, Zenon DEF T
  <2>2. G \cup T = {k \in stored : k < q}
    <3>1. ASSUME NEW k \in stored PROVE k \in G \cup T <=> k < q
      BY <1>4, <1>6, <1>7, <2>1, SMTT(30) DEF G
    <3>2. \A k \in G \cup T : k \in stored
      BY <1>7, <2>1, SMTT(30) DEF G
    <3> QED
      BY <3>1, <3>2, SMTT(30)
  <2>3. over => q = e
    BY <1>4, <1>5, <1>21, <1>23, <2>1, SMTT(30)
  <2>4. ~ over => q = m /\ m < e
    BY <1>4, <1>5, <1>21, <1>23, <2>1, SMTT(30)
  <2> QED
    BY <2>2, <2>3, <2>4, SMTT(30)
<1>24. Outcome
  BY <1>22, <1>23, SMTT(30)
<1> HIDE DEF Outcome
<1>25. /\ scan'[c].rpc = "KvScan" /\ scan'[c].endKey = e /\ scan'[c].next = m
       /\ scan'[c].at = (IF over THEN "done" ELSE "client")
       /\ scan'[c].got = s.got \o p /\ scan'[c] \in Scanned
  <2> DEFINE at  == IF over THEN "done" ELSE "client"
             got == s.got \o p
             x   == scan'[c]
  <2>1. e \in Key /\ got \in Seq(StoredKey)
    BY <1>1, <1>15
  <2>2. at \in {"client", "done"} /\ "KvScan" \in {"KvScan", "KvScanLock"}
    BY Zenon
  <2>3. x = [rpc |-> "KvScan", endKey |-> e, next |-> m, at |-> at,
             reqCtx |-> NoContext, got |-> got]
    BY <1>1, <1>18, <1>19, Zenon
  <2> HIDE DEF e, at, got, x
  <2>4. /\ x \in Scanned /\ x.rpc = "KvScan" /\ x.endKey = e /\ x.next = m
        /\ x.at = at /\ x.got = got
    BY <2>1, <2>2, <2>3, ScanRecord
  <2> QED
    BY <2>4, Zenon DEF at, got, x
<1>26. ClientInv(c)'
  <2>1. /\ over => Sorted(s.got \o p, {k \in stored : k < e})
        /\ ~ over => Sorted(s.got \o p, {k \in stored : k < m}) /\ m < e
    BY <1>17, <1>24, Zenon DEF Outcome
  <2>2. stored' = stored
    BY <1>11, SMTT(30)
  <2>3. CASE over
    <3>1. scan'[c].at = "done"
      BY <1>25, <2>3, Zenon
    <3>2. {k \in stored : e = EmptyKey \/ k < e} = {k \in stored : k < e}
      BY <1>2, SMTT(30)
    <3> QED
      BY <1>2, <1>25, <2>1, <2>2, <2>3, <3>1, <3>2, Zenon DEF ClientInv
  <2>4. CASE ~ over
    <3>1. scan'[c].at = "client"
      BY <1>25, <2>4, Zenon
    <3> QED
      BY <1>2, <1>25, <2>1, <2>2, <2>4, <3>1, Zenon DEF ClientInv
  <2> QED
    BY <2>3, <2>4, Zenon
<1> QED
  BY <1>11, <1>15, <1>16, <1>25, <1>26, Zenon

\* What a reply of KvScanLock adds: the keys of the region, which starts where
\* the scan is.
LEMMA KvScanLockReply ==
  ASSUME ScanInv, NEW c \in Client, KvScanLock(c)
  PROVE  /\ \E p \in Seq(StoredKey) :
              /\ scan' = [scan EXCEPT ![c] = After(c, p)]
              /\ \A i \in 1 .. Len(p) : regionContains(scan[c].reqCtx, p[i])
         /\ scan'[c] \in Scanned /\ ClientInv(c)'
<1> DEFINE s == scan[c]
           n == s.next
           r == cached[c].endKey
           S == KeysFrom(n, r) \cap stored
           G == {k \in stored : k < n}
           p == InOrder(S)
<1>1. /\ s \in Scanned /\ stored \in SUBSET StoredKey /\ TypeOK
      /\ n \in Key /\ s.rpc = "KvScanLock" /\ s.at = "store"
      /\ s.got \in Seq(StoredKey)
  BY Zenon DEF ScanInv, ScanTypeOK, Scanned, KvScanLock
<1>2. /\ cached[c] # NoRegion /\ (n < r \/ r = EmptyKey)
      /\ s.reqCtx.startKey = n /\ s.reqCtx.endKey = r
      /\ Sorted(s.got, G) /\ s.endKey = EmptyKey
      /\ r # EmptyKey => Boundary(r)
  <2>1. ClientInv(c)
    BY SMTT(30) DEF ScanInv
  <2>2. s.reqCtx = [startKey |-> cached[c].startKey, endKey |-> r]
    BY <1>1, <2>1, Zenon DEF ClientInv
  <2>3. s.reqCtx.endKey = r
    BY <2>2, SMTT(30)
  <2>4. /\ cached[c] # NoRegion /\ regionContains(cached[c], n)
        /\ s.reqCtx.startKey = n /\ s.endKey = EmptyKey /\ Sorted(s.got, G)
        /\ s.reqCtx.endKey # EmptyKey => Boundary(s.reqCtx.endKey)
    BY <1>1, <2>1, Zenon DEF ClientInv
  <2> QED
    BY <2>3, <2>4, Zenon DEF regionContains
<1>3. r \in Key
  <2>1. cached[c] \in Descriptor
    BY <1>1, <1>2, Zenon DEF TypeOK
  <2> QED
    BY <2>1, SMTT(30) DEF Descriptor
<1>4. /\ n \in Nat /\ r \in Nat /\ EmptyKey = 0
      /\ \A k \in stored : k \in Nat /\ k \in Key /\ k \in StoredKey
  BY <1>1, <1>3, RawKeyAssumption, Keys, Zenon
<1>5. S \in SUBSET StoredKey /\ S = {k \in stored : n =< k /\ (r = EmptyKey \/ k < r)}
  BY <1>4, Zenon DEF KeysFrom
<1>6. IsFiniteSet(S) /\ \A k \in S : k \in Nat
  BY <1>4, <1>5, RawKeyAssumption, FS_Subset, SMTT(30)
<1>7. Sorted(p, S)
  BY <1>5, <1>6, InOrderIsAscending, AscendingIsSorted, SMTT(30)
<1>8. scan' = [scan EXCEPT ![c] = After(c, p)] /\ UNCHANGED <<regions, call, cached, stored>>
  <2>1. PICK x \in LockRanges :
          /\ x.startKey = s.reqCtx.startKey /\ x.endKey = s.reqCtx.endKey
          /\ scan' = [scan EXCEPT ![c] = After(c, InOrder(x.keys \cap stored))]
          /\ UNCHANGED <<regions, call, cached, stored>>
    BY Zenon DEF KvScanLock
  <2>2. x.startKey = n /\ x.endKey = r
    BY <1>2, <2>1, Zenon
  <2>3. x.keys = newScanIterator(Raw(NewMvccKey(RawKey[x.startKey])), Raw(NewMvccKey(RawKey[x.endKey])))
    BY DEF LockRanges
  <2>4. x.keys = newScanIterator(Raw(NewMvccKey(RawKey[n])), Raw(NewMvccKey(RawKey[r])))
    BY <2>2, <2>3, Zenon
  <2>5. newScanIterator(Raw(NewMvccKey(RawKey[n])), Raw(NewMvccKey(RawKey[r]))) = KeysFrom(n, r)
    <3> HIDE DEF n, r
    <3> QED
      BY <1>1, <1>3, RequestsSeeTheirRange, Zenon
  <2> QED
    BY <2>1, <2>4, <2>5, Zenon
<1> HIDE DEF p, S, G
<1>9. p \in Seq(StoredKey) /\ Len(p) \in Nat /\ \A i \in 1 .. Len(p) : p[i] \in S
  <2>1. p \in Seq(S)
    BY <1>7, Zenon DEF Sorted
  <2>2. Len(p) \in Nat /\ \A i \in 1 .. Len(p) : p[i] \in S
    BY <2>1
  <2>3. \A i \in 1 .. Len(p) : p[i] \in StoredKey
    BY <1>5, <2>2, Zenon
  <2>4. p = [i \in 1 .. Len(p) |-> p[i]]
    BY <2>1
  <2>5. p \in Seq(StoredKey)
    BY <2>2, <2>3, <2>4
  <2> QED
    BY <2>2, <2>5, Zenon
<1>10. \A k \in S : regionContains(s.reqCtx, k)
  BY <1>2, <1>5, Zenon DEF regionContains
<1>11. Sorted(s.got \o p, G \cup S)
  <2>1. \A k \in G, l \in S : k < l
    BY <1>4, <1>5, SMTT(30) DEF G
  <2> QED
    BY <1>2, <1>7, <2>1, SortedConcat, Zenon
<1>12. PICK m \in Key, over \in BOOLEAN :
         /\ After(c, p) = [rpc |-> s.rpc, endKey |-> s.endKey, next |-> m,
                           at |-> IF over THEN "done" ELSE "client", reqCtx |-> NoContext,
                           got |-> s.got \o p]
         /\ ~ Full(c, p) => m = r
         /\ over <=> (~ Full(c, p) /\ r = EmptyKey) \/ (s.endKey # EmptyKey /\ m >= s.endKey)
  BY <1>2, <1>9, AfterReply, Zenon DEF ScanInv
<1>13. ~ Full(c, p)
  BY <1>1, SMTT(30) DEF Full
<1>14. m = r /\ (over <=> r = EmptyKey)
  BY <1>2, <1>12, <1>13, Zenon
<1>15. scan'[c] = After(c, p)
  BY <1>8, Zenon DEF ScanInv, ScanTypeOK
<1>16. /\ scan'[c].rpc = "KvScanLock" /\ scan'[c].endKey = EmptyKey /\ scan'[c].next = r
       /\ scan'[c].at = (IF over THEN "done" ELSE "client")
       /\ scan'[c].got = s.got \o p /\ scan'[c] \in Scanned
  <2> DEFINE at  == IF over THEN "done" ELSE "client"
             got == s.got \o p
             x   == scan'[c]
  <2>1. EmptyKey \in Key /\ got \in Seq(StoredKey)
    BY <1>1, <1>9, Keys
  <2>2. at \in {"client", "done"} /\ "KvScanLock" \in {"KvScan", "KvScanLock"}
    BY Zenon
  <2>3. x = [rpc |-> "KvScanLock", endKey |-> EmptyKey, next |-> m, at |-> at,
             reqCtx |-> NoContext, got |-> got]
    BY <1>1, <1>2, <1>12, <1>15, Zenon
  <2> HIDE DEF at, got, x
  <2>4. /\ x \in Scanned /\ x.rpc = "KvScanLock" /\ x.endKey = EmptyKey /\ x.next = m
        /\ x.at = at /\ x.got = got
    BY <2>1, <2>2, <2>3, ScanRecord, SMTT(30)
  <2> QED
    BY <1>14, <2>4, Zenon DEF at, got, x
<1>17. ASSUME NEW k \in stored PROVE k \in G \cup S <=> (r = EmptyKey \/ k < r)
  BY <1>2, <1>4, <1>5 DEF G
<1>18. \A k \in G \cup S : k \in stored
  BY <1>5, SMTT(30) DEF G
<1>19. ClientInv(c)'
  <2>1. stored' = stored
    BY <1>8, Zenon
  <2>2. CASE over
    <3>1. scan'[c].at = "done"
      BY <1>16, <2>2, Zenon
    <3>2. G \cup S = {k \in stored : EmptyKey = EmptyKey \/ k < EmptyKey}
      BY <1>14, <1>17, <1>18, <2>2, SMTT(30)
    <3> QED
      BY <1>11, <1>16, <2>1, <3>1, <3>2, Zenon DEF ClientInv
  <2>3. CASE ~ over
    <3>1. scan'[c].at = "client"
      BY <1>16, <2>3, Zenon
    <3>2. G \cup S = {k \in stored : k < r}
      BY <1>14, <1>17, <1>18, <2>3, SMTT(30)
    <3>3. \E i \in 1 .. Len(regions') : regions'[i].startKey = r
      BY <1>2, <1>8, <1>14, <2>3, Zenon DEF Boundary
    <3>4. Boundary(scan[c].next)'
      BY <1>16, <3>3, Zenon DEF Boundary
    <3> QED
      BY <1>11, <1>16, <2>1, <3>1, <3>2, <3>4, Zenon DEF ClientInv
  <2> QED
    BY <2>2, <2>3, Zenon
<1> QED
  BY <1>8, <1>9, <1>10, <1>16, <1>19, Zenon

--------------------------------------------------------------------------------
(* The invariant and what follows from it *)

\* A request that passes the check is for the region as the client knows it.
LEMMA RequestChecked ==
  ASSUME ScanInv, NEW c \in Client, checkRequest(c)
  PROVE  scan'[c] \in Scanned /\ ClientInv(c)'
<1> DEFINE s == scan[c]
           i == cached[c].region
           t == [startKey |-> regions[i].startKey, endKey |-> regions[i].endKey]
<1>1. /\ s \in Scanned /\ TypeOK /\ Covered /\ Partition /\ CacheInv
      /\ s.next \in Key /\ ClientInv(c)
  BY Zenon DEF ScanInv, ScanTypeOK, Scanned, RegInv, SeqInv, PartInv, CoverInv
<1>2. /\ s.at = "client" /\ cached[c] # NoRegion /\ regionContains(cached[c], s.next)
      /\ checkRequestContext(cached[c].store, cached[c]) = "ok"
      /\ UNCHANGED <<regions, call, cached, stored>>
  BY Zenon DEF checkRequest, Asks
<1>3. i \in 1 .. Len(regions) /\ regions[i].version = cached[c].version
  BY <1>1, <1>2, SMTT(30) DEF CacheInv, checkRequestContext
<1>4. regions[i].startKey = cached[c].startKey /\ regions[i].endKey = cached[c].endKey
  BY <1>1, <1>2, <1>3, SMTT(30) DEF CacheInv
<1>5. regionContains(regions[i], s.next)
  BY <1>2, <1>4, Zenon DEF regionContains
<1>6. t \in KeyRange
  BY <1>1, <1>3, RegionKeys, Zenon DEF KeyRange
<1>7. scan'[c] = [s EXCEPT !.at = "store", !.reqCtx = t]
  BY <1>1, Zenon DEF checkRequest, ScanInv, ScanTypeOK
<1>8. /\ scan'[c].rpc = s.rpc /\ scan'[c].endKey = s.endKey /\ scan'[c].next = s.next
      /\ scan'[c].at = "store" /\ scan'[c].got = s.got /\ scan'[c].reqCtx = t
  BY <1>1, <1>7, Zenon DEF Scanned
<1>9. scan'[c] \in Scanned
  BY <1>1, <1>6, <1>7, Zenon DEF Scanned
<1>10. t = [startKey |-> cached[c].startKey, endKey |-> cached[c].endKey]
  BY <1>4, Zenon
<1>11. ASSUME s.rpc = "KvScanLock"
       PROVE  /\ t.startKey = s.next /\ Boundary(s.next)
              /\ t.endKey # EmptyKey => Boundary(t.endKey)
  <2>1. Boundary(s.next)
    BY <1>1, <1>2, <1>11, SMTT(30) DEF ClientInv
  <2>2. regions[i].startKey = s.next
    BY <1>1, <1>3, <1>5, <2>1, BoundaryStartsRegion, SMTT(30)
  <2>3. regions[i].endKey # EmptyKey => Boundary(regions[i].endKey)
    BY <1>1, <1>3, EndIsBoundary, SMTT(30)
  <2> QED
    BY <2>1, <2>2, <2>3, SMTT(30)
<1> HIDE DEF t
<1>12. ASSUME s.rpc = "KvScanLock"
       PROVE  /\ t.startKey = s.next /\ Boundary(scan[c].next)'
              /\ t.endKey # EmptyKey => Boundary(scan[c].reqCtx.endKey)'
  BY <1>2, <1>8, <1>11, <1>12, SMTT(30) DEF Boundary
<1>13. /\ s.rpc = "KvScan" <=> s.endKey # EmptyKey
       /\ Sorted(s.got, {k \in stored : k < s.next})
       /\ s.endKey # EmptyKey => s.next < s.endKey
  BY <1>1, <1>2, Zenon DEF ClientInv
<1>14. ClientInv(c)'
  BY <1>2, <1>8, <1>10, <1>12, <1>13, Zenon DEF ClientInv
<1> QED
  BY <1>9, <1>14, Zenon

\* What a scan is before its first request.
LEMMA InitScanned ==
  ASSUME ScanInit
  PROVE  /\ CoverInv /\ ScanTypeOK
         /\ \A c \in Client :
              /\ \/ scan[c].rpc = "KvScan" /\ scan[c].endKey \in ScanEnd
                 \/ scan[c].rpc = "KvScanLock" /\ scan[c].endKey = EmptyKey
              /\ scan[c].at = "client" /\ scan[c].next = EmptyKey /\ scan[c].got = <<>>
<1>1. CoverInv
  BY InitCover, SMTT(30) DEF ScanInit
<1>2. \A k \in ScanEnd : k \in Key
  BY RawKeyAssumption, Zenon
<1>3. ASSUME NEW c \in Client
      PROVE  /\ scan[c] \in Scanned
             /\ \/ scan[c].rpc = "KvScan" /\ scan[c].endKey \in ScanEnd
                \/ scan[c].rpc = "KvScanLock" /\ scan[c].endKey = EmptyKey
             /\ scan[c].at = "client" /\ scan[c].next = EmptyKey /\ scan[c].got = <<>>
  <2> DEFINE A == {[rpc |-> r, endKey |-> e, next |-> EmptyKey, at |-> "client",
                     reqCtx |-> NoContext, got |-> <<>>] : r \in {"KvScan"}, e \in ScanEnd}
             l == [rpc |-> "KvScanLock", endKey |-> EmptyKey, next |-> EmptyKey,
                   at |-> "client", reqCtx |-> NoContext, got |-> <<>>]
  <2>1. scan[c] \in A \cup {l}
    BY SMTT(60) DEF ScanInit
  <2>2. NoContext \in KeyRange /\ EmptyKey \in Key /\ <<>> \in Seq(StoredKey)
    BY Keys DEF NoContext, KeyRange
  <2>3. CASE scan[c] \in A
    <3>1. PICK e \in ScanEnd :
            scan[c] = [rpc |-> "KvScan", endKey |-> e, next |-> EmptyKey, at |-> "client",
                       reqCtx |-> NoContext, got |-> <<>>]
      BY <2>3
    <3> QED
      BY <1>2, <2>2, <3>1 DEF Scanned
  <2>4. CASE scan[c] = l
    BY <2>2, <2>4 DEF Scanned
  <2> QED
    BY <2>1, <2>3, <2>4, SMTT(60)
<1>4. ScanTypeOK
  <2>1. scan \in [Client -> Scanned]
    BY <1>3, SMTT(30) DEF ScanInit
  <2> QED
    BY <1>1, <2>1 DEF ScanTypeOK, CoverInv, Scanned, ScanInit
<1> QED
  BY <1>1, <1>3, <1>4, Zenon

\* The invariant holds when the first region layout is a partition.
LEMMA InitScan ==
  ASSUME EmptyKey \notin ScanEnd, ScanInit, Partition
  PROVE  ScanInv
<1>1. Init
  BY SMTT(30) DEF ScanInit
<1>2. CoverInv /\ ScanTypeOK
  BY InitScanned, Zenon
<1>3. CacheInv /\ ReplyInv /\ KeysInside
  BY <1>1, Zenon DEF Init, CacheInv, ReplyInv, KeysInside, Idle
<1>4. RegInv
  BY <1>2, <1>3, Zenon DEF RegInv, SeqInv, PartInv
<1>6. \A k \in stored : k \in Nat
  <2>1. \A k \in StoredKey : k \in Nat
    BY RawKeyAssumption, Keys, Zenon
  <2>2. stored \in SUBSET StoredKey
    BY DEF ScanInit
  <2> QED
    BY <2>1, <2>2, Zenon
<1>7. ASSUME NEW c \in Client
      PROVE  /\ scan[c] \in Scanned
             /\ scan[c].rpc = "KvScan" <=> scan[c].endKey # EmptyKey
             /\ scan[c].at = "client" /\ scan[c].next = EmptyKey /\ scan[c].got = <<>>
  <2>1. scan[c] \in Scanned
    BY <1>2, Zenon DEF ScanTypeOK, Scanned
  <2>2. "KvScan" # "KvScanLock"
    OBVIOUS
  <2> QED
    BY <2>1, <2>2, InitScanned, Zenon
<1>9. ASSUME NEW c \in Client PROVE ClientInv(c)
  <2>1. {k \in stored : k < EmptyKey} = {}
    BY <1>6, Keys
  <2>2. Sorted(<<>>, {k \in stored : k < EmptyKey})
    <3>1. <<>> \in Seq({}) /\ Len(<<>>) = 0
      OBVIOUS
    <3> QED
      BY <2>1, <3>1 DEF Sorted
  <2>3. scan[c].endKey # EmptyKey => EmptyKey < scan[c].endKey
    <3>1. scan[c].endKey \in Key
      BY <1>7, Zenon DEF Scanned
    <3>2. scan[c].endKey \in Nat /\ EmptyKey = 0
      BY <3>1, Keys, Zenon
    <3> QED
      BY <3>2
  <2>4. Boundary(EmptyKey)
    <3>1. PICK i \in 1 .. Len(regions) : regionContains(regions[i], EmptyKey)
      BY <1>2, Keys, Zenon DEF CoverInv, Covered, Covers
    <3>2. regions[i].startKey \in Nat /\ regions[i].startKey =< EmptyKey
      BY <1>2, <3>1, RegionKeys, SMTT(30) DEF CoverInv, regionContains
    <3> QED
      BY <3>2, Keys DEF Boundary
  <2> QED
    BY <1>7, <2>2, <2>3, <2>4, Zenon DEF ClientInv
<1> QED
  BY <1>2, <1>4, <1>9, SMTT(30) DEF ScanInv

\* Every step keeps the invariant.
LEMMA NextScan ==
  ASSUME \A g, h \in Handler : g = h, ScanInv, [ScanNext]_scanVars
  PROVE  ScanInv'
<1>1. /\ RegInv /\ ScanTypeOK /\ TypeOK /\ stored \in SUBSET StoredKey
      /\ scan \in [Client -> Scanned] /\ \A c \in Client : ClientInv(c)
  BY Zenon DEF ScanInv, ScanTypeOK, Scanned
<1>2. RegInv' /\ TypeOK'
  BY <1>1, RegionStep, Zenon DEF RegInv, SeqInv, CoverInv
<1>3. ASSUME UNCHANGED <<stored, scan>>, \A k : Boundary(k) => Boundary(k)',
             \A c \in Client : scan[c].at = "store" => cached'[c] = cached[c]
      PROVE  ScanInv'
  <2>1. ScanTypeOK'
    BY <1>1, <1>2, <1>3, Zenon DEF ScanTypeOK, Scanned
  <2>2. \A c \in Client : ClientInv(c)'
    BY <1>1, <1>3, ClientKept, Zenon
  <2> QED
    BY <1>2, <2>1, <2>2, SMTT(30) DEF ScanInv
<1>4. ASSUME NEW c \in Client, UNCHANGED <<regions, cached, stored>>,
             \E v : scan' = [scan EXCEPT ![c] = v],
             scan'[c] \in Scanned, ClientInv(c)'
      PROVE  ScanInv'
  <2>1. scan' \in [Client -> Scanned] /\ \A d \in Client : d # c => scan'[d] = scan[d]
    BY <1>1, <1>4, Zenon
  <2>2. \A k : Boundary(k) => Boundary(k)'
    BY <1>4, Zenon DEF Boundary
  <2>3. \A d \in Client : ClientInv(d)'
    BY <1>1, <1>4, <2>1, <2>2, ClientKept, SMTT(30)
  <2>4. ScanTypeOK'
    BY <1>1, <1>2, <1>4, <2>1, Zenon DEF ScanTypeOK, Scanned
  <2> QED
    BY <1>2, <2>3, <2>4, Zenon DEF ScanInv
<1>5. UNCHANGED regions => \A k : Boundary(k) => Boundary(k)'
  BY Zenon DEF Boundary
<1>6. ASSUME NEW c \in Client, scan[c].at = "client",
             \E v : cached' = [cached EXCEPT ![c] = v]
      PROVE  \A d \in Client : scan[d].at = "store" => cached'[d] = cached[d]
  BY <1>1, <1>6, Zenon DEF TypeOK
<1>7. ASSUME NEW c \in Client, Locate(c) PROVE ScanInv'
  BY <1>3, <1>5, <1>6, <1>7, SMTT(30) DEF Locate, GetRegion
<1>8. ASSUME NEW c \in Client, Relocate(c) PROVE ScanInv'
  BY <1>3, <1>5, <1>6, <1>8, Zenon DEF Relocate, Asks, EpochNotMatch
<1>9. ASSUME NEW c \in Client, checkRequest(c) PROVE ScanInv'
  <2>1. \E v : scan' = [scan EXCEPT ![c] = v]
    <3>1. scan' = [scan EXCEPT ![c] = scan'[c]]
      BY <1>1, <1>9, Zenon DEF checkRequest
    <3> QED
      BY <3>1, Zenon
  <2> QED
    BY <1>4, <1>9, <2>1, RequestChecked, Zenon DEF checkRequest
<1>10. ASSUME NEW c \in Client, KvScan(c) PROVE ScanInv'
  <2>1. scan'[c] \in Scanned /\ ClientInv(c)' /\ \E v : scan' = [scan EXCEPT ![c] = v]
    BY <1>10, KvScanReply, Zenon
  <2> QED
    BY <1>4, <1>10, <2>1, Zenon DEF KvScan
<1>11. ASSUME NEW c \in Client, KvScanLock(c) PROVE ScanInv'
  <2>1. scan'[c] \in Scanned /\ ClientInv(c)' /\ \E v : scan' = [scan EXCEPT ![c] = v]
    BY <1>11, KvScanLockReply, Zenon
  <2> QED
    BY <1>4, <1>11, <2>1, Zenon DEF KvScanLock
<1>12. ASSUME NEW h \in Handler, NEW k \in Key, AcceptSplit(h, k) PROVE ScanInv'
  BY <1>3, <1>5, <1>12, Zenon DEF AcceptSplit
<1>13. ASSUME NEW h \in Handler, Split(h) PROVE ScanInv'
  <2>1. CASE SplitRaw(h)
    <3>1. \A k : Boundary(k) => Boundary(k)'
      BY <1>1, <2>1, BoundaryStays, SMTT(30)
    <3> QED
      BY <1>3, <1>13, <2>1, <3>1, Zenon DEF Split, SplitRaw
  <2>2. CASE LookupRegion(h) \/ MarshalEndKey(h)
    BY <1>3, <1>5, <1>13, <2>2, Zenon DEF Split, LookupRegion, MarshalEndKey
  <2> QED
    BY <1>13, <2>1, <2>2, Zenon DEF Split
<1>14. ASSUME NEW h \in Handler, NEW c \in Client, SplitReply(h, c) PROVE ScanInv'
  BY <1>3, <1>5, <1>6, <1>14, Zenon DEF SplitReply, MarshalEpoch
<1>15. CASE UNCHANGED scanVars
  BY <1>3, <1>5, <1>15, Zenon DEF scanVars
<1> QED
  BY <1>7, <1>8, <1>9, <1>10, <1>11, <1>12, <1>13, <1>14, <1>15, SMTT(30)
  DEF ScanNext, ScanStep, Finished

\* A bounded scan, and a scan for locks, gets every stored key of its range
\* once and in order, whatever splits are served meanwhile, one at a time: for
\* any keys, regions, clients and limit.
THEOREM ScansAreExact ==
  ASSUME \A g, h \in Handler : g = h, EmptyKey \notin ScanEnd
  PROVE  ScanInit /\ Partition /\ [][ScanNext]_scanVars => []ScanIsExact
<1>1. ScanInit /\ Partition => ScanInv
  BY InitScan, Zenon
<1>2. ScanInv /\ [ScanNext]_scanVars => ScanInv'
  BY NextScan, Zenon
<1>3. ScanInv => ScanIsExact
  <2> SUFFICES ASSUME ScanInv, NEW c \in Client
               PROVE  LET all   == scan[c].at = "done" /\ scan[c].endKey = EmptyKey
                          bound == IF scan[c].at = "done" THEN scan[c].endKey ELSE scan[c].next
                      IN  scan[c].got = Ascending({k \in stored : all \/ k < bound})
    BY Zenon DEF ScanIsExact
  <2> DEFINE all   == scan[c].at = "done" /\ scan[c].endKey = EmptyKey
             bound == IF scan[c].at = "done" THEN scan[c].endKey ELSE scan[c].next
             S     == {k \in stored : all \/ k < bound}
  <2>1. ClientInv(c) /\ stored \in SUBSET StoredKey
    BY Zenon DEF ScanInv, ScanTypeOK
  <2>2. S \in SUBSET StoredKey
    BY <2>1, Zenon
  <2>3. IsFiniteSet(S) /\ \A k \in S : k \in Nat
    <3> HIDE DEF S
    <3> QED
      BY <2>2, RawKeyAssumption, Keys, FS_Subset, SMTT(30)
  <2>4. Sorted(scan[c].got, S)
    <3>1. CASE scan[c].at = "done"
      <4>1. S = {k \in stored : scan[c].endKey = EmptyKey \/ k < scan[c].endKey}
        BY <3>1, SMTT(30)
      <4> QED
        BY <2>1, <3>1, <4>1, Zenon DEF ClientInv
    <3>2. CASE scan[c].at # "done"
      <4>1. S = {k \in stored : k < scan[c].next}
        BY <3>2, Zenon
      <4> QED
        BY <2>1, <3>2, <4>1, Zenon DEF ClientInv
    <3> QED
      BY <3>1, <3>2, SMTT(30)
  <2> HIDE DEF S
  <2>5. scan[c].got = Ascending(S)
    BY <2>3, <2>4, SortedIsAscending, Zenon
  <2> QED
    BY <2>5, Zenon DEF S
<1> QED
  BY <1>1, <1>2, <1>3, PTL

\* The same scans are answered with keys of the region the request was for, as
\* it was when the request was checked.
THEOREM BoundedRepliesStayInRegion ==
  ASSUME \A g, h \in Handler : g = h, EmptyKey \notin ScanEnd
  PROVE  ScanInit /\ Partition /\ [][ScanNext]_scanVars => RepliesStayInRegion
<1> DEFINE Stays ==
      \A c \in Client :
        scan[c].at = "store" =>
          \A i \in Len(scan[c].got) + 1 .. Len(scan'[c].got) :
            regionContains(scan[c].reqCtx, scan'[c].got[i])
<1>1. ScanInit /\ Partition => ScanInv
  BY InitScan, Zenon
<1>2. ScanInv /\ [ScanNext]_scanVars => ScanInv'
  BY NextScan, Zenon
<1>3. ScanInv /\ [ScanNext]_scanVars => [Stays]_scanVars
  <2> SUFFICES ASSUME ScanInv, ScanNext, NEW c \in Client, scan[c].at = "store",
                      NEW i \in Len(scan[c].got) + 1 .. Len(scan'[c].got)
               PROVE  regionContains(scan[c].reqCtx, scan'[c].got[i])
    BY Zenon
  <2>1. /\ scan \in [Client -> Scanned] /\ scan[c].got \in Seq(StoredKey)
        /\ Len(scan[c].got) \in Nat
    BY DEF ScanInv, ScanTypeOK, Scanned
  <2>2. ASSUME scan'[c] = scan[c] PROVE FALSE
    BY <2>1, <2>2
  <2>3. ASSUME NEW d \in Client, KvScan(d) \/ KvScanLock(d)
        PROVE  regionContains(scan[c].reqCtx, scan'[c].got[i])
    <3>1. PICK p \in Seq(StoredKey) :
            /\ scan' = [scan EXCEPT ![d] = After(d, p)]
            /\ \A j \in 1 .. Len(p) : regionContains(scan[d].reqCtx, p[j])
      BY <2>3, KvScanReply, KvScanLockReply, Zenon
    <3>2. c = d
      BY <2>1, <2>2, <3>1, Zenon
    <3>3. cached[c] # NoRegion
      BY Zenon DEF ScanInv, ClientInv
    <3>4. After(c, p).got = scan[c].got \o p
      <4>1. \E n \in Key, over \in BOOLEAN :
              After(c, p) = [rpc |-> scan[c].rpc, endKey |-> scan[c].endKey, next |-> n,
                             at |-> IF over THEN "done" ELSE "client", reqCtx |-> NoContext,
                             got |-> scan[c].got \o p]
        BY <3>3, AfterReply, Zenon DEF ScanInv
      <4> QED
        BY <4>1
    <3>5. scan'[c].got = scan[c].got \o p
      BY <2>1, <3>1, <3>2, <3>4, Zenon
    <3> DEFINE n == Len(scan[c].got)
    <3>6. Len(p) \in Nat /\ Len(scan'[c].got) = n + Len(p)
      BY <2>1, <3>5
    <3>7. i - n \in 1 .. Len(p) /\ scan'[c].got[i] = p[i - n]
      BY <2>1, <3>5, <3>6
    <3> QED
      BY <3>1, <3>2, <3>7, Zenon
  <2>4. ASSUME NEW d \in Client, checkRequest(d)
        PROVE  FALSE
    <3>1. c # d
      BY <2>4, Zenon DEF checkRequest, Asks
    <3> QED
      BY <2>1, <2>2, <2>4, <3>1, Zenon DEF checkRequest
  <2>5. CASE UNCHANGED scan
    BY <2>2, <2>5, Zenon
  <2> QED
    BY <2>3, <2>4, <2>5, Zenon
    DEF ScanNext, ScanStep, Locate, Relocate, AcceptSplit, Split, SplitReply, Finished, scanVars
<1> QED
  BY <1>1, <1>2, <1>3, PTL DEF RepliesStayInRegion

--------------------------------------------------------------------------------
(* Types, for any scans and any number of handlers *)

\* A request is for a region the client knows.
\* The client's region holds the key its scan goes on with.
Knows(c) == cached[c] # NoRegion /\ regionContains(cached[c], scan[c].next)

TypeInv == /\ CoverInv /\ ScanTypeOK
           /\ \A c \in Client : scan[c].at = "store" => Knows(c)

\* The keys of a reply are stored keys.
LEMMA RepliesAreStored ==
  ASSUME NEW S \in SUBSET StoredKey
  PROVE  InOrder(S) \in Seq(StoredKey) /\ FirstOf(InOrder(S), Limit) \in Seq(StoredKey)
<1> DEFINE p == InOrder(S)
<1>1. IsFiniteSet(S) /\ \A k \in S : k \in Nat
  BY RawKeyAssumption, RawKeys, FS_Subset, Zenon
<1>2. Sorted(p, S)
  BY <1>1, InOrderIsAscending, AscendingIsSorted, Zenon
<1> HIDE DEF p
<1>3. p \in Seq(S) /\ Limit \in Nat
  BY <1>2, RawKeyAssumption, Zenon DEF Sorted
<1>4. p \in Seq(StoredKey)
  <2>1. Len(p) \in Nat /\ p = [i \in 1 .. Len(p) |-> p[i]] /\ \A i \in 1 .. Len(p) : p[i] \in S
    BY <1>3
  <2>2. \A i \in 1 .. Len(p) : p[i] \in StoredKey
    BY <2>1, Zenon
  <2> QED
    BY <2>1, <2>2
<1>5. FirstOf(p, Limit) \in Seq(StoredKey)
  BY <1>3, <1>4 DEF FirstOf
<1> QED
  BY <1>4, <1>5, Zenon DEF p

\* A reply leaves a well-formed scan.
LEMMA ReplyType ==
  ASSUME TypeInv, NEW c \in Client, KvScan(c) \/ KvScanLock(c)
  PROVE  /\ scan'[c] \in Scanned /\ scan'[c].at # "store"
         /\ \A d \in Client : d # c => scan'[d] = scan[d]
         /\ scan' \in [Client -> Scanned]
<1>1. /\ scan \in [Client -> Scanned] /\ scan[c] \in Scanned /\ stored \in SUBSET StoredKey
      /\ cached[c] # NoRegion /\ ScanTypeOK
  BY Zenon DEF TypeInv, ScanTypeOK, Scanned, KvScan, KvScanLock, Knows
<1>2. PICK p \in Seq(StoredKey) : scan' = [scan EXCEPT ![c] = After(c, p)]
  <2>1. \A keys : keys \cap stored \in SUBSET StoredKey
    BY <1>1, Zenon
  <2> QED
    BY <2>1, RepliesAreStored, Zenon DEF KvScan, KvScanLock
<1>3. PICK n \in Key, over \in BOOLEAN :
        After(c, p) = [rpc |-> scan[c].rpc, endKey |-> scan[c].endKey, next |-> n,
                       at |-> IF over THEN "done" ELSE "client", reqCtx |-> NoContext,
                       got |-> scan[c].got \o p]
  BY <1>1, AfterReply, Zenon
<1>4. scan[c].got \o p \in Seq(StoredKey)
  <2>1. scan[c].got \in Seq(StoredKey)
    BY <1>1, Zenon DEF Scanned
  <2> QED
    BY <2>1
<1>5. /\ scan[c].rpc \in {"KvScan", "KvScanLock"} /\ scan[c].endKey \in Key
      /\ (IF over THEN "done" ELSE "client") \in {"client", "done"}
  BY <1>1, Zenon DEF Scanned
<1>6. After(c, p) \in Scanned /\ After(c, p).at \in {"client", "done"}
  <2> DEFINE at == IF over THEN "done" ELSE "client"
             got == scan[c].got \o p
             x == After(c, p)
  <2>1. /\ at \in {"client", "done"} /\ got \in Seq(StoredKey)
        /\ x = [rpc |-> scan[c].rpc, endKey |-> scan[c].endKey, next |-> n, at |-> at,
                reqCtx |-> NoContext, got |-> got]
    BY <1>3, <1>4, <1>5, Zenon
  <2> HIDE DEF at, got, x
  <2>2. x \in Scanned /\ x.at = at
    BY <1>5, <2>1, ScanRecord
  <2> QED
    BY <2>1, <2>2, Zenon DEF x
<1>7. After(c, p).at # "store"
  BY <1>6
<1> QED
  BY <1>1, <1>2, <1>6, <1>7, Zenon

\* Scans start well formed.
LEMMA InitTypes == ScanInit => TypeInv
<1> SUFFICES ASSUME ScanInit PROVE TypeInv
  OBVIOUS
<1>1. "client" # "store"
  OBVIOUS
<1> QED
  BY <1>1, InitScanned, Zenon DEF TypeInv

\* Every step keeps the types.
LEMMA NextTypes == TypeInv /\ [ScanNext]_scanVars => TypeInv'
<1> SUFFICES ASSUME TypeInv, [ScanNext]_scanVars PROVE TypeInv'
  OBVIOUS
<1>1. /\ CoverInv /\ ScanTypeOK /\ TypeOK /\ stored \in SUBSET StoredKey
      /\ scan \in [Client -> Scanned] /\ cached \in [Client -> Descriptor \cup {NoRegion}]
      /\ \A c \in Client : scan[c].at = "store" => Knows(c)
  BY Zenon DEF TypeInv, ScanTypeOK, Scanned, TypeOK
<1>2. CoverInv' /\ TypeOK'
  BY <1>1, ClusterStep, AcceptKeepsCover, NextCover, Zenon DEF CoverInv
<1>3. ASSUME scan' \in [Client -> Scanned], UNCHANGED stored,
             \A c \in Client : scan'[c].at = "store" => Knows(c)'
      PROVE  TypeInv'
  BY <1>1, <1>2, <1>3, Zenon DEF TypeInv, ScanTypeOK, Scanned
<1>4. ASSUME UNCHANGED <<stored, scan>>,
             \A c \in Client : scan[c].at = "store" => cached'[c] = cached[c]
      PROVE  TypeInv'
  BY <1>1, <1>3, <1>4, Zenon DEF Knows
<1>5. ASSUME NEW c \in Client, UNCHANGED <<stored, scan>>, scan[c].at = "client",
             \E v : cached' = [cached EXCEPT ![c] = v]
      PROVE  TypeInv'
  <2>1. \A d \in Client : d # c => cached'[d] = cached[d]
    BY <1>1, <1>5, Zenon
  <2>2. scan[c].at # "store"
    BY <1>5
  <2> QED
    BY <1>4, <1>5, <2>1, <2>2, Zenon
<1>6. ASSUME NEW c \in Client, checkRequest(c) PROVE TypeInv'
  <2> DEFINE i == cached[c].region
             t == [startKey |-> regions[i].startKey, endKey |-> regions[i].endKey]
  <2>1. /\ Knows(c) /\ checkRequestContext(cached[c].store, cached[c]) = "ok"
        /\ UNCHANGED <<regions, call, cached, stored>>
        /\ scan' = [scan EXCEPT ![c].at = "store", ![c].reqCtx = t]
    BY <1>6, Zenon DEF checkRequest, Asks, Knows
  <2>2. i \in 1 .. Len(regions)
    BY <2>1, SMTT(30) DEF checkRequestContext
  <2>3. t \in KeyRange
    BY <1>1, <2>2, RegionKeys, Zenon DEF KeyRange
  <2>4. /\ scan'[c] = [scan[c] EXCEPT !.at = "store", !.reqCtx = t]
        /\ \A d \in Client : d # c => scan'[d] = scan[d]
    BY <1>1, <2>1, Zenon
  <2> HIDE DEF t
  <2>5. scan'[c] \in Scanned
    BY <1>1, <2>3, <2>4, Zenon DEF Scanned
  <2>6. scan' \in [Client -> Scanned]
    BY <1>1, <2>1, <2>4, <2>5, Zenon
  <2>7. scan'[c].next = scan[c].next
    BY <1>1, <2>4 DEF Scanned
  <2> QED
    BY <1>1, <1>3, <2>1, <2>4, <2>6, <2>7, Zenon DEF Knows
<1>7. ASSUME NEW c \in Client, KvScan(c) \/ KvScanLock(c) PROVE TypeInv'
  <2>1. UNCHANGED <<cached, stored>>
    BY <1>7, Zenon DEF KvScan, KvScanLock
  <2> QED
    BY <1>1, <1>3, <1>7, <2>1, ReplyType, Zenon DEF Knows
<1>8. ASSUME NEW c \in Client, Locate(c) \/ Relocate(c) PROVE TypeInv'
  BY <1>5, <1>8, Zenon DEF Locate, GetRegion, Relocate, Asks, EpochNotMatch
<1>9. ASSUME NEW h \in Handler, NEW c \in Client, SplitReply(h, c) PROVE TypeInv'
  <2>1. CASE UNCHANGED cached
    BY <1>4, <1>9, <2>1, Zenon DEF SplitReply
  <2>2. CASE \E v : cached' = [cached EXCEPT ![c] = v]
    BY <1>5, <1>9, <2>2, Zenon DEF SplitReply
  <2> QED
    BY <1>9, <2>1, <2>2, Zenon DEF SplitReply, MarshalEpoch
<1>10. ASSUME NEW h \in Handler, Split(h) \/ \E k \in Key : AcceptSplit(h, k) PROVE TypeInv'
  BY <1>4, <1>10, Zenon DEF Split, LookupRegion, SplitRaw, MarshalEndKey, AcceptSplit
<1>11. CASE UNCHANGED scanVars
  BY <1>4, <1>11, Zenon DEF scanVars
<1> QED
  BY <1>6, <1>7, <1>8, <1>9, <1>10, <1>11, Zenon DEF ScanNext, ScanStep, Finished

\* Scans, bounded or not, stay well formed while any number of handlers split
\* regions at once: a reply holds stored keys, and a scan goes on at a key.
THEOREM ScanTypeCorrect == ScanInit /\ [][ScanNext]_scanVars => []ScanTypeOK
<1>1. TypeInv => ScanTypeOK
  BY Zenon DEF TypeInv
<1> QED
  BY <1>1, InitTypes, NextTypes, PTL

\* The keys a request from s meets lie at s or above it, whatever bytes it ends
\* with.
LEMMA IteratorStart ==
  ASSUME NEW s \in Key, NEW e, NEW k \in newScanIterator(RawKey[s], e)
  PROVE  s =< k
<1>1. k \in StoredKey /\ (Len(RawKey[s]) > 0 => ~ Less(entry[k], mvccEncode(RawKey[s], lockVer)))
  BY Zenon DEF newScanIterator
<1>2. Less(entry[k], mvccEncode(RawKey[s], lockVer)) <=> k < s
  BY <1>1, EntriesInKeyOrder, Zenon
<1>3. Len(RawKey[s]) > 0 <=> s # EmptyKey
  BY RawKeys, Zenon
<1>4. s \in Nat /\ k \in Nat /\ EmptyKey = 0
  BY <1>1, RawKeyAssumption, RawKeys, Zenon
<1> QED
  BY <1>1, <1>2, <1>3, <1>4

\* The last key of a full reply to KvScan is not below the key it started at.
LEMMA FullReplyStart ==
  ASSUME ScanTypeOK, NEW s \in Key, NEW e,
         NEW p, p = FirstOf(InOrder(newScanIterator(RawKey[s], e) \cap stored), Limit),
         Len(p) = Limit
  PROVE  p[Limit] \in StoredKey /\ s =< p[Limit]
<1> DEFINE S == newScanIterator(RawKey[s], e) \cap stored
           q == InOrder(S)
<1>1. S \in SUBSET StoredKey
  BY Zenon DEF ScanTypeOK
<1>2. \A k \in S : s =< k
  BY IteratorStart, Zenon
<1>3. IsFiniteSet(S) /\ \A k \in S : k \in Nat
  BY <1>1, RawKeyAssumption, RawKeys, FS_Subset, Zenon
<1>4. Sorted(q, S)
  BY <1>1, <1>3, InOrderIsAscending, AscendingIsSorted, Zenon
<1>5. p = FirstOf(q, Limit)
  BY Zenon
<1> HIDE DEF S, q
<1>6. p[Limit] \in S
  BY <1>3, <1>4, <1>5, RawKeyAssumption, Reply
<1> QED
  BY <1>1, <1>2, <1>6, Zenon

\* A reply ends the scan or takes it to a larger key.
LEMMA ReplyMovesForward ==
  ASSUME TypeInv, NEW c \in Client, KvScan(c) \/ KvScanLock(c), scan'[c].at = "client"
  PROVE  scan[c].next < scan'[c].next
<1> DEFINE s == scan[c].next
<1>1. /\ scan \in [Client -> Scanned] /\ scan[c] \in Scanned /\ stored \in SUBSET StoredKey
      /\ Knows(c) /\ cached[c] # NoRegion /\ ScanTypeOK
  BY Zenon DEF TypeInv, ScanTypeOK, Scanned, KvScan, KvScanLock, Knows
<1>2. s \in Key /\ s \in Nat
  BY <1>1, Keys, Zenon DEF Scanned
<1>3. PICK p \in Seq(StoredKey) :
        /\ scan' = [scan EXCEPT ![c] = After(c, p)]
        /\ Full(c, p) => p[Limit] \in StoredKey /\ s =< p[Limit]
  <2>1. \A keys : keys \cap stored \in SUBSET StoredKey
    BY <1>1, Zenon
  <2>2. CASE KvScan(c)
    <3>1. PICK r \in ScanRanges :
            /\ r.startKey = s
            /\ scan' = [scan EXCEPT ![c] = After(c, FirstOf(InOrder(r.keys \cap stored), Limit))]
      BY <2>2, Zenon DEF KvScan
    <3>2. PICK e : r.keys = newScanIterator(RawKey[s], e)
      <4>1. r.keys = newScanIterator(RawKey[r.startKey], scanEndKey(RawKey[r.reqEnd], NewMvccKey(RawKey[r.endKey])))
        BY DEF ScanRanges
      <4> QED
        BY <3>1, <4>1, Zenon
    <3> DEFINE p == FirstOf(InOrder(r.keys \cap stored), Limit)
    <3>3. p \in Seq(StoredKey) /\ scan' = [scan EXCEPT ![c] = After(c, p)]
      BY <2>1, <3>1, RepliesAreStored, Zenon
    <3>4. p = FirstOf(InOrder(newScanIterator(RawKey[s], e) \cap stored), Limit)
      BY <3>2, Zenon
    <3> HIDE DEF p
    <3>5. Len(p) = Limit => p[Limit] \in StoredKey /\ s =< p[Limit]
      BY <1>1, <1>2, <3>4, FullReplyStart, Zenon
    <3> QED
      BY <3>3, <3>5, Zenon DEF Full
  <2>3. CASE KvScanLock(c)
    <3>1. \A p : ~ Full(c, p)
      <4>1. scan[c].rpc = "KvScanLock"
        BY <2>3, Zenon DEF KvScanLock
      <4> QED
        BY <4>1 DEF Full
    <3> QED
      BY <2>1, <2>3, <3>1, RepliesAreStored, Zenon DEF KvScanLock
  <2> QED
    BY <2>2, <2>3, Zenon
<1>4. PICK n \in Key, over \in BOOLEAN :
        /\ After(c, p) = [rpc |-> scan[c].rpc, endKey |-> scan[c].endKey, next |-> n,
                          at |-> IF over THEN "done" ELSE "client", reqCtx |-> NoContext,
                          got |-> scan[c].got \o p]
        /\ Full(c, p) => RawKey[n] = RawKey[p[Limit]] \o <<0>>
        /\ ~ Full(c, p) => n = cached[c].endKey
        /\ over <=> \/ ~ Full(c, p) /\ cached[c].endKey = EmptyKey
                    \/ scan[c].endKey # EmptyKey /\ n >= scan[c].endKey
  BY <1>1, AfterReply, Zenon
<1>5. scan'[c] = After(c, p)
  BY <1>1, <1>3, Zenon
<1>6. scan'[c].next = n /\ ~ over
  <2> DEFINE at  == IF over THEN "done" ELSE "client"
             got == scan[c].got \o p
             x   == scan'[c]
  <2>1. x = [rpc |-> scan[c].rpc, endKey |-> scan[c].endKey, next |-> n, at |-> at,
             reqCtx |-> NoContext, got |-> got]
    BY <1>4, <1>5, Zenon
  <2>2. over => at # "client"
    OBVIOUS
  <2> HIDE DEF at, got, x
  <2>3. x.next = n /\ x.at = at
    BY <2>1
  <2> QED
    BY <2>2, <2>3, Zenon DEF x
<1>7. CASE Full(c, p)
  <2>1. p[Limit] \in StoredKey /\ s =< p[Limit] /\ RawKey[n] = RawKey[p[Limit]] \o <<0>>
    BY <1>3, <1>4, <1>7, Zenon
  <2>2. s < n <=> s =< p[Limit]
    BY <1>2, <2>1, NextKey, Zenon
  <2> QED
    BY <1>6, <2>1, <2>2, Zenon
<1>8. CASE ~ Full(c, p)
  <2>1. n = cached[c].endKey /\ cached[c].endKey # EmptyKey
    BY <1>4, <1>6, <1>8, Zenon
  <2> QED
    BY <1>1, <1>6, <2>1, Zenon DEF Knows, regionContains
<1> QED
  BY <1>7, <1>8, Zenon

\* No scan, bounded or not, stays where it is or goes back after a reply, while
\* any number of handlers split regions at once, even into overlapping pieces:
\* the key after a full reply and the end of the region known both lie ahead.
THEOREM ScansAdvance == ScanInit /\ [][ScanNext]_scanVars => ScansMoveForward
<1> DEFINE Forward == \A c \in Client :
                        scan[c].at = "store" /\ scan'[c].at = "client" => scan[c].next < scan'[c].next
<1>1. TypeInv /\ [ScanNext]_scanVars => Forward
  <2> SUFFICES ASSUME TypeInv, [ScanNext]_scanVars, NEW c \in Client,
                      scan[c].at = "store", scan'[c].at = "client"
               PROVE  scan[c].next < scan'[c].next
    BY Zenon
  <2>1. "client" # "store"
    OBVIOUS
  <2>2. scan \in [Client -> Scanned]
    BY Zenon DEF TypeInv, ScanTypeOK, Scanned
  <2>3. CASE UNCHANGED scan
    BY <2>1, <2>3, Zenon
  <2>4. ASSUME NEW d \in Client, checkRequest(d) PROVE FALSE
    <3>1. scan[d].at = "client"
      BY <2>4, Zenon DEF checkRequest, Asks
    <3>2. c # d
      BY <2>1, <3>1, Zenon
    <3>3. scan'[c] = scan[c]
      BY <2>2, <2>4, <3>2, Zenon DEF checkRequest
    <3> QED
      BY <2>1, <3>3, Zenon
  <2>5. ASSUME NEW d \in Client, KvScan(d) \/ KvScanLock(d) PROVE scan[c].next < scan'[c].next
    <3>1. CASE c = d
      BY <2>5, <3>1, ReplyMovesForward, Zenon
    <3>2. CASE c # d
      BY <2>1, <2>5, <3>2, ReplyType, Zenon
    <3> QED
      BY <3>1, <3>2, Zenon
  <2> QED
    BY <2>3, <2>4, <2>5, Zenon
    DEF ScanNext, ScanStep, Locate, Relocate, AcceptSplit, Split, SplitReply, Finished, scanVars
<1> QED
  BY <1>1, InitTypes, NextTypes, PTL DEF ScansMoveForward

\* While clients scan, splits that are served one at a time keep the regions
\* disjoint, and nobody is led into a key-not-in-region panic, not even by a
\* region taken from a split reply.
THEOREM SplitsDuringScansAreSafe ==
  ASSUME \A g, h \in Handler : g = h
  PROVE  ScanInit /\ Partition /\ [][ScanNext]_scanVars => [](Partition /\ NoPanic)
<1>1. ScanInit /\ Partition => RegInv
  <2> SUFFICES ASSUME ScanInit, Partition PROVE RegInv
    OBVIOUS
  <2>1. Init
    BY SMTT(30) DEF ScanInit
  <2>2. CacheInv /\ ReplyInv /\ KeysInside
    BY <2>1, Zenon DEF Init, CacheInv, ReplyInv, KeysInside, Idle
  <2> QED
    BY <2>2, InitScanned, Zenon DEF RegInv, SeqInv, PartInv
<1>2. RegInv /\ ScanTypeOK /\ [ScanNext]_scanVars => RegInv'
  BY RegionStep, Zenon
<1>3. RegInv => Partition /\ NoPanic
  BY CacheIsSafe, Zenon DEF RegInv, PartInv
<1> QED
  BY <1>1, <1>2, <1>3, ScanTypeCorrect, PTL

================================================================================
