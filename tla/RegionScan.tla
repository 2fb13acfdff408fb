------------------------------- MODULE RegionScan ------------------------------
(***************************************************************************)
(* Reading a range of keys region by region while regions are split:       *)
(* KvScan and KvScanLock of server/store.go over the regions of Cluster,   *)
(* with the byte strings of Codec where the handlers compare or convert    *)
(* keys.                                                                   *)
(*                                                                         *)
(* The entries a scan can see do not change while it runs: it reads at one *)
(* version (Percolator is about that).  What changes is the regions.  A    *)
(* handler keeps the range it found when it checked the request, and reads *)
(* later.                                                                  *)
(***************************************************************************)
EXTENDS Cluster, Codec, FiniteSets

CONSTANTS RawKey,     \* the byte string of a key
          StoredKey,  \* keys that may have an entry
          ScanEnd,    \* end keys of scans, EmptyKey for none
          Limit       \* pairs in a reply of KvScan

\* Keys are numbered in the order of their bytes, and the string after a
\* stored key, where a client goes on after a full reply, is a key.
ASSUME RawKeyAssumption ==
  /\ RawKey \in [Key -> Bytes] /\ RawKey[EmptyKey] = <<>>
  /\ \A k, l \in Key : k < l <=> Less(RawKey[k], RawKey[l])
  /\ StoredKey \subseteq Key \ {EmptyKey} /\ IsFiniteSet(StoredKey)
  /\ \A k \in StoredKey : \E n \in Key : RawKey[n] = RawKey[k] \o <<0>>
  /\ ScanEnd \subseteq Key /\ Limit \in Nat \ {0}

VARIABLES stored,   \* the keys with an entry the scans see
          scan      \* scan[c]: what c asks for, where it is, and what it got

scanVars == <<regions, call, cached, stored, scan>>

NoContext == [startKey |-> EmptyKey, endKey |-> EmptyKey]

ScanTypeOK ==
  /\ TypeOK /\ stored \in SUBSET StoredKey
  /\ scan \in [Client -> [rpc : {"KvScan", "KvScanLock"}, endKey : Key, next : Key,
                           at : {"client", "store", "done"}, reqCtx : KeyRange,
                           got : Seq(StoredKey)]]

ScanInit ==
  /\ Init /\ stored \in SUBSET StoredKey
  /\ scan \in [Client -> {[rpc |-> r, endKey |-> e, next |-> EmptyKey, at |-> "client",
                            reqCtx |-> NoContext, got |-> <<>>] :
                             r \in {"KvScan"}, e \in ScanEnd}
                     \cup {[rpc |-> "KvScanLock", endKey |-> EmptyKey, next |-> EmptyKey,
                            at |-> "client", reqCtx |-> NoContext, got |-> <<>>]}]

--------------------------------------------------------------------------------
(* The store: leveldb's order is the order of bytes *)

\* The entry of a key; any version will do.
entry == [k \in StoredKey |-> mvccEncode(RawKey[k], [i \in 1 .. 8 |-> IF i = 8 THEN 7 ELSE 0])]

\* Mutant: the iterator starts at the first entry.
newScanIteratorUnbounded(startKey, endKey) ==
  {k \in StoredKey : Len(endKey) > 0 => Less(entry[k], mvccEncode(endKey, lockVer))}

\* The keys whose entries a new scan iterator meets.
newScanIterator(startKey, endKey) ==
  {k \in StoredKey :
     /\ Len(startKey) > 0 => ~ Less(entry[k], mvccEncode(startKey, lockVer))
     /\ Len(endKey) > 0 => Less(entry[k], mvccEncode(endKey, lockVer))}

EntryOrder == UNION {{<<k, l>> : l \in {l \in StoredKey : Less(entry[k], entry[l])}} : k \in StoredKey}

\* The keys of S one by one, as an iterator meets their entries.
InOrder(S) ==
  [i \in 1 .. Cardinality(S) |->
     CHOOSE k \in S : Cardinality({l \in S : <<l, k>> \in EntryOrder}) = i - 1]

FirstOf(s, n) == SubSeq(s, 1, IF Len(s) < n THEN Len(s) ELSE n)

\* Mutant: the end key of the request is not looked at.
scanEndKeyIgnored(reqEnd, endKey) == endKey

\* The end key KvScan passes to Scan: that of the request, which is raw, or
\* that of the region, which is encoded.
scanEndKey(reqEnd, endKey) ==
  IF Len(reqEnd) > 0 /\ (Len(endKey) = 0 \/ Less(reqEnd, endKey)) THEN reqEnd ELSE endKey

\* The keys Scan looks at for a request from startKey to reqEnd and a region
\* that ends at endKey.
ScanRanges ==
  {[startKey |-> s, reqEnd |-> r, endKey |-> e,
    keys |-> newScanIterator(RawKey[s], scanEndKey(RawKey[r], NewMvccKey(RawKey[e])))] :
      s \in Key, r \in Key, e \in Key}

\* The keys ScanLock looks at for a region.
LockRanges ==
  {[startKey |-> s, endKey |-> e,
    keys |-> newScanIterator(Raw(NewMvccKey(RawKey[s])), Raw(NewMvccKey(RawKey[e])))] :
      s \in Key, e \in Key}

--------------------------------------------------------------------------------
(* The client; it is not part of the repository *)

\* The next key lies outside the region the client knows.
Locate(c) ==
  /\ scan[c].at = "client"
  /\ cached[c] = NoRegion \/ (cached[c] # NoRegion /\ ~ regionContains(cached[c], scan[c].next))
  /\ GetRegion(c, scan[c].next)
  /\ UNCHANGED <<stored, scan>>

Asks(c) == /\ scan[c].at = "client" /\ cached[c] # NoRegion
           /\ regionContains(cached[c], scan[c].next)

\* The region was split since the client learned of it.
Relocate(c) == /\ Asks(c) /\ EpochNotMatch(c, cached[c].store)
               /\ UNCHANGED <<stored, scan>>

\* A bounded scan never asks past the end of the region it knows.
RequestEnd(c) ==
  LET r == cached[c].endKey
      e == scan[c].endKey
  IN  IF e # EmptyKey /\ r # EmptyKey /\ r < e THEN r ELSE e

\* Where the client goes on after a reply, or that the scan is over.
After(c, pairs) ==
  LET full == scan[c].rpc = "KvScan" /\ Len(pairs) = Limit
      next == IF full THEN CHOOSE n \in Key : RawKey[n] = RawKey[pairs[Limit]] \o <<0>>
                      ELSE cached[c].endKey
      over == \/ ~ full /\ cached[c].endKey = EmptyKey
              \/ scan[c].endKey # EmptyKey /\ next >= scan[c].endKey
  IN  [scan[c] EXCEPT !.got = @ \o pairs, !.next = next, !.reqCtx = NoContext,
                      !.at = IF over THEN "done" ELSE "client"]

--------------------------------------------------------------------------------
(* A request: the check copies the range of the region, the read uses it *)

checkRequest(c) ==
  /\ Asks(c) /\ checkRequestContext(cached[c].store, cached[c]) = "ok"
  /\ LET r == regions[cached[c].region]
     IN  scan' = [scan EXCEPT ![c].at = "store",
                              ![c].reqCtx = [startKey |-> r.startKey, endKey |-> r.endKey]]
  /\ UNCHANGED <<regions, call, cached, stored>>

KvScan(c) ==
  /\ scan[c].at = "store" /\ scan[c].rpc = "KvScan"
  /\ \E r \in ScanRanges :
       /\ r.startKey = scan[c].next /\ r.reqEnd = RequestEnd(c)
       /\ r.endKey = scan[c].reqCtx.endKey
       /\ scan' = [scan EXCEPT ![c] = After(c, FirstOf(InOrder(r.keys \cap stored), Limit))]
  /\ UNCHANGED <<regions, call, cached, stored>>

KvScanLock(c) ==
  /\ scan[c].at = "store" /\ scan[c].rpc = "KvScanLock"
  /\ \E r \in LockRanges :
       /\ r.startKey = scan[c].reqCtx.startKey /\ r.endKey = scan[c].reqCtx.endKey
       /\ scan' = [scan EXCEPT ![c] = After(c, InOrder(r.keys \cap stored))]
  /\ UNCHANGED <<regions, call, cached, stored>>

ScanStep(c) == Locate(c) \/ Relocate(c) \/ checkRequest(c) \/ KvScan(c) \/ KvScanLock(c)

\* Other clients split regions at any key: one that has just looked up a region
\* passes the check of SplitRegion.
AcceptSplit(h, k) ==
  /\ call[h].at = "idle"
  /\ \E i \in 1 .. Len(regions) : checkRequestContext(regions[i].store, Clone(i)) = "ok"
  /\ call' = [call EXCEPT ![h] = [Idle EXCEPT !.at = "lookup", !.key = k]]
  /\ UNCHANGED <<regions, cached, stored, scan>>

Split(h) == /\ LookupRegion(h) \/ SplitRaw(h) \/ MarshalEndKey(h)
            /\ UNCHANGED <<stored, scan>>

\* A client that splits a region between its requests learns from the reply.
SplitReply(h, c) == /\ scan[c].at = "client" /\ MarshalEpoch(h, c)
                    /\ UNCHANGED <<stored, scan>>

\* Every scan has finished.
Finished == /\ \A c \in Client : scan[c].at = "done"
            /\ UNCHANGED scanVars

ScanNext == \/ \E c \in Client : ScanStep(c)
            \/ \E h \in Handler, k \in Key : AcceptSplit(h, k)
            \/ \E h \in Handler : Split(h)
            \/ \E h \in Handler, c \in Client : SplitReply(h, c)
            \/ Finished

\* Requests are served and clients go on; nobody has to split a region.
ScanSpec == ScanInit /\ [][ScanNext]_scanVars /\ \A c \in Client : WF_scanVars(ScanStep(c))

--------------------------------------------------------------------------------
(* Properties *)

Ascending(S) == [i \in 1 .. Cardinality(S) |->
                   CHOOSE k \in S : Cardinality({l \in S : l < k}) = i - 1]

\* What a scan got so far is every stored key up to where it is, once and in
\* order, however the regions it went through were split meanwhile; and what it
\* got when it is over is the whole range.
ScanIsExact ==
  \A c \in Client :
    LET all   == scan[c].at = "done" /\ scan[c].endKey = EmptyKey
        bound == IF scan[c].at = "done" THEN scan[c].endKey ELSE scan[c].next
    IN  scan[c].got = Ascending({k \in stored : all \/ k < bound})

\* A reply holds only keys of the region the request was for: handlers that are
\* sent keys panic with "key not in region" otherwise.
RepliesStayInRegion ==
  [][\A c \in Client :
       scan[c].at = "store" =>
         \A i \in Len(scan[c].got) + 1 .. Len(scan'[c].got) :
           regionContains(scan[c].reqCtx, scan'[c].got[i])]_scanVars

\* Every reply takes a scan forward: it is over, or it goes on at a larger key,
\* also when nothing was found, when a full reply cuts a region short, or when
\* the region was split in two or into overlapping pieces meanwhile.
ScansMoveForward ==
  [][\A c \in Client :
       scan[c].at = "store" /\ scan'[c].at = "client" => scan[c].next < scan'[c].next]_scanVars

\* Every scan comes to its end: each stale region it asks for costs it one more
\* lookup, and no key makes it stay where it is.
ScanFinishes == \A c \in Client : <>(scan[c].at = "done")

================================================================================
