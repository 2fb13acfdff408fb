----------------------------- MODULE ClusterProofs -----------------------------
(***************************************************************************)
(* Proofs about Cluster, for any number of handlers, clients, stores, keys *)
(* and regions: splits never lose a key, and the version in a client's     *)
(* cache determines the range.                                             *)
(***************************************************************************)
EXTENDS Cluster, WellFoundedInduction, TLAPS

\* A cached region is a version of the region that was current once: it is not
\* newer than the region, and as long as it is not older it has its range.
CacheInv ==
  \A c \in Client : cached[c] # NoRegion =>
    LET d == cached[c]
        r == regions[d.region]
    IN  /\ d.region \in 1 .. Len(regions)
        /\ d.version =< r.version
        /\ d.version = r.version => d.startKey = r.startKey /\ d.endKey = r.endKey

CoverInv == TypeOK /\ Covered

IInv == CoverInv /\ CacheInv

\* Keys are natural numbers, in the form the provers use best.
LEMMA Keys == /\ \A k \in Key : k \in Nat
              /\ EmptyKey \in Key /\ EmptyKey = 0
BY LayoutAssumption DEF EmptyKey

\* What split does to a list of regions: region i gets a new end and version,
\* a region is appended, and the others stay.
LEMMA SplitEffect ==
  ASSUME regions \in Seq(Region), NEW i \in 1 .. Len(regions), NEW k \in Key
  PROVE  /\ split(i, k) \in Seq(Region)
         /\ Len(split(i, k)) = Len(regions) + 1
         /\ \A j \in 1 .. Len(regions) : j # i => split(i, k)[j] = regions[j]
         /\ split(i, k)[i] = [regions[i] EXCEPT !.endKey = k, !.version = regions[i].version + 1]
         /\ split(i, k)[Len(regions) + 1]
              = [regions[i] EXCEPT !.startKey = k, !.version = regions[i].version + 1]
<1> DEFINE origin == [regions[i] EXCEPT !.endKey = k, !.version = regions[i].version + 1]
           new == [regions[i] EXCEPT !.startKey = k, !.version = regions[i].version + 1]
           rest == [regions EXCEPT ![i] = origin]
<1>1. regions[i] \in Region
  OBVIOUS
<1>2. origin \in Region /\ new \in Region
  <2> DEFINE r == regions[i]
  <2>1. r \in [startKey : Key, endKey : Key, version : Nat, store : Store]
    BY <1>1 DEF Region
  <2> HIDE DEF r
  <2>2. r.version + 1 \in Nat
    BY <2>1
  <2>3. [r EXCEPT !.endKey = k, !.version = r.version + 1] \in Region
    BY <2>1, <2>2, Zenon DEF Region
  <2>4. [r EXCEPT !.startKey = k, !.version = r.version + 1] \in Region
    BY <2>1, <2>2, Zenon DEF Region
  <2> QED
    BY <2>3, <2>4 DEF r
<1>3. rest \in Seq(Region) /\ Len(rest) = Len(regions)
  BY <1>2
<1>4. split(i, k) = Append(rest, new)
  BY DEF split
<1> HIDE DEF origin, new
<1>5. /\ \A j \in 1 .. Len(regions) : j # i => rest[j] = regions[j]
      /\ rest[i] = origin
  OBVIOUS
<1> HIDE DEF rest
<1>6. /\ Append(rest, new) \in Seq(Region)
      /\ Len(Append(rest, new)) = Len(regions) + 1
      /\ \A j \in 1 .. Len(regions) : Append(rest, new)[j] = rest[j]
      /\ Append(rest, new)[Len(regions) + 1] = new
  BY <1>2, <1>3
<1> QED
  BY <1>4, <1>5, <1>6 DEF origin, new

\* Splitting a region of a list that covers all keys, at any key, leaves a
\* list that does.
LEMMA SplitCovers ==
  ASSUME regions \in Seq(Region), Covers(regions),
         NEW i \in 1 .. Len(regions), NEW k \in Key
  PROVE  Covers(split(i, k))
<1> SUFFICES ASSUME NEW x \in Key
             PROVE  \E j \in 1 .. Len(split(i, k)) : regionContains(split(i, k)[j], x)
  BY DEF Covers
<1>1. PICK j \in 1 .. Len(regions) : regionContains(regions[j], x)
  BY DEF Covers
<1>2. Len(regions) \in Nat /\ regions[i] \in Region
  BY SMTT(30)
<1> DEFINE new == split(i, k)
<1>3. /\ Len(new) = Len(regions) + 1
      /\ \A m \in 1 .. Len(regions) : m # i => new[m] = regions[m]
      /\ new[i] = [regions[i] EXCEPT !.endKey = k, !.version = regions[i].version + 1]
      /\ new[Len(regions) + 1]
           = [regions[i] EXCEPT !.startKey = k, !.version = regions[i].version + 1]
  BY SplitEffect, Zenon
<1> HIDE DEF new
<1>4. CASE j # i
  <2>1. new[j] = regions[j] /\ j \in 1 .. Len(new)
    BY <1>2, <1>3, <1>4
  <2> QED
    BY <1>1, <2>1 DEF new
<1>5. CASE j = i /\ x < k
  <2>1. new[i].startKey = regions[i].startKey /\ new[i].endKey = k
    BY <1>2, <1>3 DEF Region
  <2>2. regionContains(new[i], x) /\ i \in 1 .. Len(new)
    BY <1>1, <1>2, <1>3, <1>5, <2>1 DEF regionContains
  <2> QED
    BY <2>2 DEF new
<1>6. CASE j = i /\ ~ (x < k)
  <2> DEFINE n == Len(regions) + 1
  <2>1. new[n].startKey = k /\ new[n].endKey = regions[i].endKey
    BY <1>2, <1>3 DEF Region
  <2>2. regionContains(new[n], x) /\ n \in 1 .. Len(new)
    BY <1>1, <1>2, <1>3, <1>6, <2>1, Keys DEF regionContains
  <2> QED
    BY <2>2 DEF new
<1> QED
  BY <1>4, <1>5, <1>6

--------------------------------------------------------------------------------

Stage == {"idle", "lookup", "split", "reply", "epoch"}

Calls == [at : Stage, key : Key, region : Nat, endKey : Key]

\* Cloning a region gives a descriptor.
LEMMA CloneType ==
  ASSUME regions \in Seq(Region), NEW i \in 1 .. Len(regions)
  PROVE  Clone(i) \in Descriptor
<1>1. regions[i] \in Region /\ i \in Nat
  OBVIOUS
<1> QED
  BY <1>1 DEF Clone, Descriptor, Region

LEMMA IdleType == Idle \in Calls /\ Idle.at = "idle"
BY Keys DEF Idle, Calls, Stage

\* A handler's record may be replaced by one that points at an existing region.
LEMMA CallType ==
  ASSUME TypeOK, NEW h \in Handler, NEW r \in Calls,
         r.at \in {"split", "reply", "epoch"} => r.region \in 1 .. Len(regions'),
         Len(regions') >= Len(regions), regions' \in Seq(Region),
         call' = [call EXCEPT ![h] = r],
         cached' \in [Client -> Descriptor \cup {NoRegion}]
  PROVE  TypeOK'
<1>1. /\ call \in [Handler -> Calls] /\ Len(regions) \in Nat /\ Len(regions') \in Nat
      /\ \A g \in Handler : call[g].at \in {"split", "reply", "epoch"}
                            => call[g].region \in 1 .. Len(regions)
  BY DEF TypeOK, Calls, Stage
<1>2. call' \in [Handler -> Calls]
  BY <1>1
<1>3. \A g \in Handler : call'[g].at \in {"split", "reply", "epoch"}
                          => call'[g].region \in 1 .. Len(regions')
  BY <1>1
<1> QED
  BY <1>2, <1>3 DEF TypeOK, Calls, Stage

\* Replacing what a client has cached.
LEMMA CachedType ==
  ASSUME TypeOK, NEW c \in Client, NEW d \in Descriptor,
         cached' = [cached EXCEPT ![c] = d], UNCHANGED <<regions, call>>
  PROVE  TypeOK'
BY DEF TypeOK

\* A set of places has a first one.
LEMMA FirstPlace ==
  ASSUME NEW S \in SUBSET Nat, S # {}
  PROVE  \E n \in S : \A m \in S : n =< m
<1> DEFINE R == {p \in Nat \X Nat : p[1] < p[2]}
<1>1. IsWellFoundedOn(OpToRel(<, Nat), Nat)
  BY NatLessThanWellFounded, Zenon
<1>2. IsWellFoundedOn(R, Nat)
  BY <1>1 DEF OpToRel
<1>3. \A m, n \in Nat : m < n => <<m, n>> \in R
  OBVIOUS
<1> HIDE DEF R
<1>4. PICK n \in S : \A m \in S : ~ (<<m, n>> \in R)
  BY <1>2, WFMin, Zenon
<1>5. \A m \in S : m \in Nat /\ n \in Nat /\ ~ (m < n)
  BY <1>3, <1>4, Zenon
<1>6. \A m \in S : n =< m
  BY <1>5
<1> QED
  BY <1>6, Zenon

\* A list of regions that validateRegion accepts covers all keys, also when
\* regions start over after an unbounded one: the first region that does not
\* end at or before a key starts at or before it.
THEOREM AcceptedListsCover ==
  ASSUME NEW l \in Seq(KeyRange), validateRegion(l)
  PROVE  Covers(l)
<1>1. Len(l) \in Nat \ {0} /\ \A i \in 1 .. Len(l) : l[i] \in KeyRange
  BY DEF validateRegion
<1>2. \A i \in 1 .. Len(l) : l[i].startKey \in Nat /\ l[i].endKey \in Nat
  BY <1>1, Keys, Zenon DEF KeyRange
<1>3. /\ l[1].startKey = EmptyKey /\ l[Len(l)].endKey = EmptyKey
      /\ \A i \in 2 .. Len(l) : l[i].startKey = l[i - 1].endKey
  BY Zenon DEF validateRegion
<1>4. ASSUME NEW k \in Key PROVE \E i \in 1 .. Len(l) : regionContains(l[i], k)
  <2> DEFINE S == {i \in 1 .. Len(l) : k < l[i].endKey \/ l[i].endKey = EmptyKey}
  <2>1. S \in SUBSET Nat /\ Len(l) \in S
    BY <1>1, <1>3
  <2>2. PICK i \in S : \A j \in S : i =< j
    BY <2>1, FirstPlace, Zenon
  <2>3. k \in Nat /\ EmptyKey = 0
    BY Keys, Zenon
  <2>4. CASE i = 1
    BY <1>1, <1>3, <2>2, <2>3, <2>4 DEF regionContains
  <2>5. CASE i # 1
    <3>1. i \in 2 .. Len(l) /\ i - 1 \in 1 .. Len(l) /\ ~ (i =< i - 1)
      BY <1>1, <2>2, <2>5
    <3>2. i - 1 \notin S
      BY <2>2, <3>1, Zenon
    <3>3. ~ (k < l[i - 1].endKey)
      BY <3>1, <3>2, Zenon
    <3>4. l[i].startKey =< k
      BY <1>2, <1>3, <2>3, <3>1, <3>3
    <3> QED
      BY <2>2, <3>4, Zenon DEF regionContains
  <2> QED
    BY <2>4, <2>5, Zenon
<1> QED
  BY <1>4, Zenon DEF Covers

LEMMA InitCover == Init => CoverInv
<1> SUFFICES ASSUME Init PROVE CoverInv
  OBVIOUS
<1>1. PICK l \in Layouts : regions = initRegions(l)
  BY DEF Init
<1>2. l \in Seq(KeyRange) /\ Covers(l) /\ NumStores \in Nat \ {0}
  BY LayoutAssumption, AcceptedListsCover
<1>3. Len(l) \in Nat /\ \A i \in 1 .. Len(l) : l[i] \in KeyRange
  BY <1>2
<1>4. regions = [i \in 1 .. Len(l) |->
                  [startKey |-> l[i].startKey, endKey |-> l[i].endKey,
                   version |-> 1, store |-> (i - 1) % NumStores]]
  BY <1>1 DEF initRegions
<1>5. \A i \in 1 .. Len(l) : (i - 1) % NumStores \in Store
  BY <1>2, <1>3 DEF Store
<1>6. regions \in [1 .. Len(l) -> Region]
  BY <1>3, <1>4, <1>5 DEF Region, KeyRange
<1>7. regions \in Seq(Region) /\ Len(regions) = Len(l)
  BY <1>3, <1>6
<1>8. TypeOK
  BY <1>7, IdleType DEF Init, TypeOK, Calls, Stage
<1>9. Covers(regions)
  <2> SUFFICES ASSUME NEW k \in Key
               PROVE  \E i \in 1 .. Len(regions) : regionContains(regions[i], k)
    BY Zenon DEF Covers
  <2>1. PICK i \in 1 .. Len(l) : regionContains(l[i], k)
    BY <1>2 DEF Covers
  <2>2. regions[i].startKey = l[i].startKey /\ regions[i].endKey = l[i].endKey
    BY <1>4
  <2> QED
    BY <1>7, <2>1, <2>2 DEF regionContains
<1> QED
  BY <1>8, <1>9 DEF CoverInv, Covered

\* Every step keeps the types and the coverage: only SplitRaw changes regions.
LEMMA NextCover == CoverInv /\ [Next]_vars => CoverInv'
<1> SUFFICES ASSUME TypeOK, Covers(regions), [Next]_vars
             PROVE  TypeOK' /\ Covers(regions)'
  BY DEF CoverInv, Covered
<1> USE DEF Stage
<1>1. /\ regions \in Seq(Region) /\ Len(regions) \in Nat
      /\ call \in [Handler -> Calls]
      /\ cached \in [Client -> Descriptor \cup {NoRegion}]
      /\ \A g \in Handler : call[g].at \in {"split", "reply", "epoch"}
                            => call[g].region \in 1 .. Len(regions)
  BY DEF TypeOK, Calls
<1>2. ASSUME NEW c \in Client, NEW k \in Key, GetRegion(c, k)
      PROVE  TypeOK' /\ Covers(regions)'
  BY <1>1, <1>2, CloneType, CachedType, Zenon DEF GetRegion, Covers
<1>3. ASSUME NEW c \in Client, NEW i \in 1 .. MaxRegions, GetRegionByID(c, i)
      PROVE  TypeOK' /\ Covers(regions)'
  BY <1>1, <1>3, CloneType, CachedType, Zenon DEF GetRegionByID, Covers
<1>4. ASSUME NEW c \in Client, NEW s \in Store, EpochNotMatch(c, s)
      PROVE  TypeOK' /\ Covers(regions)'
  BY <1>1, <1>4, CloneType, CachedType, Zenon DEF EpochNotMatch, Covers
<1>5. ASSUME NEW h \in Handler, NEW c \in Client, NEW s \in Store, NEW k \in Key,
             SplitRegion(h, c, s, k)
      PROVE  TypeOK' /\ Covers(regions)'
  <2> DEFINE r == [Idle EXCEPT !.at = "lookup", !.key = k]
  <2>1. r \in Calls /\ r.at = "lookup"
    BY IdleType, Zenon DEF Calls
  <2>2. call' = [call EXCEPT ![h] = r] /\ UNCHANGED <<regions, cached>>
    BY <1>5 DEF SplitRegion
  <2> HIDE DEF r
  <2>3. /\ regions' \in Seq(Region) /\ Len(regions') >= Len(regions)
        /\ cached' \in [Client -> Descriptor \cup {NoRegion}]
    BY <1>1, <2>2
  <2>4. TypeOK'
    BY <2>1, <2>2, <2>3, CallType, Zenon
  <2> QED
    BY <2>4, <2>2 DEF Covers
<1>6. ASSUME NEW h \in Handler, LookupRegion(h)
      PROVE  TypeOK' /\ Covers(regions)'
  <2>1. PICK i \in 1 .. Len(regions) :
          call' = [call EXCEPT ![h] = IF regions[i].startKey = call[h].key THEN Idle
                                      ELSE [@ EXCEPT !.at = "split", !.region = i]]
    BY <1>6, Zenon DEF LookupRegion
  <2> DEFINE r == IF regions[i].startKey = call[h].key THEN Idle
                  ELSE [call[h] EXCEPT !.at = "split", !.region = i]
  <2>2. call[h] \in Calls /\ i \in Nat
    BY <1>1
  <2>3. r \in Calls /\ (r.at \in {"split", "reply", "epoch"} => r.region \in 1 .. Len(regions))
    BY <2>2, IdleType, Zenon DEF Calls
  <2>4. call' = [call EXCEPT ![h] = r] /\ UNCHANGED <<regions, cached>>
    BY <1>6, <2>1, Zenon DEF LookupRegion
  <2> HIDE DEF r
  <2>5. /\ regions' \in Seq(Region) /\ Len(regions') >= Len(regions)
        /\ cached' \in [Client -> Descriptor \cup {NoRegion}]
    BY <1>1, <2>4
  <2>6. TypeOK'
    BY <2>3, <2>4, <2>5, CallType, Zenon
  <2> QED
    BY <2>6, <2>4 DEF Covers
<1>7. ASSUME NEW h \in Handler, SplitRaw(h)
      PROVE  TypeOK' /\ Covers(regions)'
  <2> DEFINE i == call[h].region
             k == call[h].key
  <2>1. i \in 1 .. Len(regions) /\ k \in Key /\ call[h] \in Calls
    BY <1>1, <1>7 DEF SplitRaw, Calls
  <2>2. regions' = split(i, k) /\ UNCHANGED cached
    BY <1>7 DEF SplitRaw
  <2> HIDE DEF i, k
  <2>3. Covers(regions')
    BY <1>1, <2>1, <2>2, SplitCovers
  <2>4. regions' \in Seq(Region) /\ Len(regions') = Len(regions) + 1
    BY <1>1, <2>1, <2>2, SplitEffect, Zenon
  <2>5. \E r \in Calls : /\ call' = [call EXCEPT ![h] = r]
                         /\ r.at \in {"split", "reply", "epoch"}
                              => r.region \in 1 .. Len(regions')
    <3>1. CASE call' = [call EXCEPT ![h] = Idle]
      BY <3>1, IdleType, Zenon
    <3>2. CASE \E n \in {i, Len(regions) + 1} :
                 call' = [call EXCEPT ![h].at = "reply", ![h].region = n]
      <4>1. PICK n \in {i, Len(regions) + 1} :
              call' = [call EXCEPT ![h].at = "reply", ![h].region = n]
        BY <3>2, Zenon
      <4> DEFINE r == [call[h] EXCEPT !.at = "reply", !.region = n]
      <4>2. n \in 1 .. Len(regions') /\ n \in Nat
        BY <1>1, <2>1, <2>4
      <4>3. r \in Calls /\ r.region = n
        BY <2>1, <4>2, Zenon DEF Calls
      <4>4. call' = [call EXCEPT ![h] = r]
        BY <4>1, <1>1, Zenon
      <4> HIDE DEF r
      <4> QED
        BY <4>2, <4>3, <4>4, Zenon
    <3> QED
      BY <1>7, <3>1, <3>2 DEF SplitRaw, i
  <2>6. Len(regions') >= Len(regions) /\ cached' \in [Client -> Descriptor \cup {NoRegion}]
    BY <1>1, <2>2, <2>4
  <2>7. TypeOK'
    BY <2>4, <2>5, <2>6, CallType, Zenon
  <2> QED
    BY <2>3, <2>7 DEF Covers
<1>8. ASSUME NEW h \in Handler, MarshalEndKey(h)
      PROVE  TypeOK' /\ Covers(regions)'
  <2> DEFINE e == regions[call[h].region].endKey
             r == [call[h] EXCEPT !.at = "epoch", !.endKey = e]
  <2>1. call[h] \in Calls /\ call[h].region \in 1 .. Len(regions)
    BY <1>1, <1>8 DEF MarshalEndKey
  <2>2. regions[call[h].region] \in Region
    BY <1>1, <2>1
  <2>3. e \in Key
    BY <2>2 DEF Region
  <2>4. call' = [call EXCEPT ![h] = r] /\ UNCHANGED <<regions, cached>>
    BY <1>8, <1>1, Zenon DEF MarshalEndKey
  <2> HIDE DEF e
  <2>5. r \in Calls /\ r.region \in 1 .. Len(regions)
    BY <2>1, <2>3, Zenon DEF Calls
  <2> HIDE DEF r
  <2>6. /\ regions' \in Seq(Region) /\ Len(regions') >= Len(regions)
        /\ cached' \in [Client -> Descriptor \cup {NoRegion}]
    BY <1>1, <2>4
  <2>7. TypeOK'
    BY <2>4, <2>5, <2>6, CallType, Zenon
  <2> QED
    BY <2>7, <2>4 DEF Covers
<1>9. ASSUME NEW h \in Handler, NEW c \in Client, MarshalEpoch(h, c)
      PROVE  TypeOK' /\ Covers(regions)'
  <2> DEFINE d == [Clone(call[h].region) EXCEPT !.endKey = call[h].endKey]
  <2>1. Clone(call[h].region) \in Descriptor
    BY <1>1, <1>9, CloneType DEF MarshalEpoch
  <2>2. d \in Descriptor
    BY <1>1, <2>1, Zenon DEF Descriptor, Calls
  <2>3. /\ cached' = [cached EXCEPT ![c] = d] \/ UNCHANGED cached
        /\ call' = [call EXCEPT ![h] = Idle] /\ UNCHANGED regions
    BY <1>9 DEF MarshalEpoch
  <2> HIDE DEF d
  <2>4. cached' \in [Client -> Descriptor \cup {NoRegion}]
    BY <1>1, <2>2, <2>3
  <2>5. /\ regions' \in Seq(Region) /\ Len(regions') >= Len(regions)
        /\ cached' \in [Client -> Descriptor \cup {NoRegion}]
    BY <1>1, <2>3, <2>4
  <2>6. TypeOK'
    BY <2>3, <2>4, IdleType, <2>5, CallType, Zenon
  <2> QED
    BY <2>6, <2>3, <2>4 DEF Covers
<1>10. CASE UNCHANGED vars
  BY <1>10 DEF vars, TypeOK, Covers
<1> QED
  BY <1>2, <1>3, <1>4, <1>5, <1>6, <1>7, <1>8, <1>9, <1>10 DEF Next

\* The handlers, the clients and the regions keep their types.
THEOREM TypeCorrect == Spec => []TypeOK
<1>1. CoverInv => TypeOK
  BY DEF CoverInv
<1> QED
  BY <1>1, InitCover, NextCover, PTL DEF Spec

\* However many SplitRegion calls race, between the lookup of the region and
\* SplitRaw, every key stays in some region.
THEOREM SplitsKeepCoverage == Spec => []Covered
<1>1. CoverInv => Covered
  BY DEF CoverInv
<1> QED
  BY <1>1, InitCover, NextCover, PTL DEF Spec

--------------------------------------------------------------------------------

\* A client that caches a clone of a region caches its current version.
LEMMA CloneKeepsCache ==
  ASSUME TypeOK, CacheInv, NEW c \in Client, NEW i \in 1 .. Len(regions),
         cached' = [cached EXCEPT ![c] = Clone(i)], UNCHANGED regions
  PROVE  CacheInv'
<1>1. regions[i] \in Region
  BY DEF TypeOK
<1>2. regions[i].version \in Nat
  BY <1>1 DEF Region
<1>3. cached \in [Client -> Descriptor \cup {NoRegion}]
  BY DEF TypeOK
<1> QED
  BY <1>2, <1>3 DEF CacheInv, Clone

\* A split gives region i a version nobody has cached.
LEMMA SplitKeepsCache ==
  ASSUME TypeOK, CacheInv, NEW i \in 1 .. Len(regions), NEW k \in Key,
         regions' = split(i, k), UNCHANGED cached
  PROVE  CacheInv'
<1> SUFFICES ASSUME NEW c \in Client, cached[c] # NoRegion
             PROVE  LET d == cached[c]
                        r == regions'[d.region]
                    IN  /\ d.region \in 1 .. Len(regions')
                        /\ d.version =< r.version
                        /\ d.version = r.version => d.startKey = r.startKey /\ d.endKey = r.endKey
  BY DEF CacheInv
<1> DEFINE d == cached[c]
           j == d.region
<1>1. /\ d \in Descriptor /\ j \in 1 .. Len(regions)
      /\ d.version =< regions[j].version
      /\ d.version = regions[j].version
           => d.startKey = regions[j].startKey /\ d.endKey = regions[j].endKey
  BY DEF CacheInv, TypeOK
<1>2. /\ regions \in Seq(Region) /\ Len(regions) \in Nat
      /\ regions[j] \in Region /\ regions[i] \in Region
  BY <1>1 DEF TypeOK
<1>3. regions[j].version \in Nat /\ d.version \in Nat
  BY <1>1, <1>2, SMTT(30) DEF Region, Descriptor
<1> HIDE DEF d, j
<1>4. /\ Len(regions') = Len(regions) + 1
      /\ \A m \in 1 .. Len(regions) : m # i => regions'[m] = regions[m]
      /\ regions'[i] = [regions[i] EXCEPT !.endKey = k, !.version = regions[i].version + 1]
  <2>1. /\ Len(split(i, k)) = Len(regions) + 1
        /\ \A m \in 1 .. Len(regions) : m # i => split(i, k)[m] = regions[m]
        /\ split(i, k)[i]
             = [regions[i] EXCEPT !.endKey = k, !.version = regions[i].version + 1]
    BY <1>2, SplitEffect, Zenon
  <2> QED
    BY <2>1
<1>5. j \in 1 .. Len(regions')
  BY <1>1, <1>2, <1>4
<1>6. CASE j # i
  BY <1>1, <1>4, <1>5, <1>6 DEF d, j
<1>7. CASE j = i
  <2>1. regions'[j].version = regions[j].version + 1
    BY <1>2, <1>4, <1>7, Zenon DEF Region
  <2>2. d.version =< regions'[j].version /\ d.version # regions'[j].version
    BY <1>1, <1>3, <2>1
  <2> QED
    BY <1>5, <2>2 DEF d, j
<1> QED
  BY <1>6, <1>7

LEMMA InitInv == Init => IInv
BY InitCover DEF Init, IInv, CacheInv

\* When clients do not use the regions of a split reply, every step keeps the
\* inductive invariant.
LEMMA NextInv == ~ TrustSplitReply /\ IInv /\ [Next]_vars => IInv'
<1> SUFFICES ASSUME ~ TrustSplitReply, CoverInv, TypeOK, CacheInv, [Next]_vars
             PROVE  CacheInv'
  BY NextCover DEF IInv, CoverInv
<1>1. /\ call \in [Handler -> Calls]
      /\ \A g \in Handler : call[g].at \in {"split", "reply", "epoch"}
                            => call[g].region \in 1 .. Len(regions)
  BY DEF TypeOK, Calls, Stage
<1>2. ASSUME NEW c \in Client, NEW k \in Key, GetRegion(c, k)
      PROVE  CacheInv'
  BY <1>2, CloneKeepsCache, Zenon DEF GetRegion
<1>3. ASSUME NEW c \in Client, NEW i \in 1 .. MaxRegions, GetRegionByID(c, i)
      PROVE  CacheInv'
  BY <1>3, CloneKeepsCache, Zenon DEF GetRegionByID
<1>4. ASSUME NEW c \in Client, NEW s \in Store, EpochNotMatch(c, s)
      PROVE  CacheInv'
  BY <1>4, CloneKeepsCache, Zenon DEF EpochNotMatch
<1>5. ASSUME NEW h \in Handler, NEW c \in Client, NEW s \in Store, NEW k \in Key,
             SplitRegion(h, c, s, k)
      PROVE  CacheInv'
  BY <1>5 DEF SplitRegion, CacheInv
<1>6. ASSUME NEW h \in Handler, LookupRegion(h)
      PROVE  CacheInv'
  BY <1>6 DEF LookupRegion, CacheInv
<1>7. ASSUME NEW h \in Handler, SplitRaw(h)
      PROVE  CacheInv'
  <2>1. call[h].region \in 1 .. Len(regions) /\ call[h].key \in Key
    BY <1>1, <1>7 DEF SplitRaw, Calls
  <2> QED
    BY <1>7, <2>1, SplitKeepsCache DEF SplitRaw
<1>8. ASSUME NEW h \in Handler, MarshalEndKey(h)
      PROVE  CacheInv'
  BY <1>8 DEF MarshalEndKey, CacheInv
<1>9. ASSUME NEW h \in Handler, NEW c \in Client, MarshalEpoch(h, c)
      PROVE  CacheInv'
  BY <1>9 DEF MarshalEpoch, CacheInv
<1>10. CASE UNCHANGED vars
  BY <1>10 DEF vars, CacheInv
<1> QED
  BY <1>2, <1>3, <1>4, <1>5, <1>6, <1>7, <1>8, <1>9, <1>10 DEF Next

\* A client that caches only regions cloned under the lock, and sends only keys
\* of the region it cached, never reaches the handlers' "key not in region"
\* panics, whatever splits run at the same time.
THEOREM EpochProtectsHandlers ==
  ASSUME ~ TrustSplitReply
  PROVE  Spec => []NoPanic
<1>1. IInv => NoPanic
  BY DEF IInv, CoverInv, CacheInv, NoPanic, checkRequestContext, regionContains
<1>2. IInv /\ [Next]_vars => IInv'
  BY NextInv
<1> QED
  BY <1>1, <1>2, InitInv, PTL DEF Spec

--------------------------------------------------------------------------------

\* A region that is about to be split contains the key strictly inside.
KeysInside ==
  \A h \in Handler : call[h].at = "split" =>
    /\ regionContains(regions[call[h].region], call[h].key)
    /\ regions[call[h].region].startKey # call[h].key

PartInv == CoverInv /\ Partition /\ KeysInside

\* Splitting a region of a partition strictly inside leaves a partition.
LEMMA SplitPartitions ==
  ASSUME regions \in Seq(Region), Partition,
         NEW i \in 1 .. Len(regions), NEW k \in Key,
         regionContains(regions[i], k), regions[i].startKey # k,
         regions' = split(i, k)
  PROVE  Partition'
<1> DEFINE n == Len(regions) + 1
<1>1. /\ Len(regions) \in Nat /\ \A j \in 1 .. Len(regions) : regions[j] \in Region
      /\ regions[i] \in Region /\ k \in Nat
  <2>1. k \in Nat
    BY Keys
  <2> QED
    BY <2>1
<1>2. \A j \in 1 .. Len(regions) : regions[j].startKey \in Nat /\ regions[j].endKey \in Nat
  BY <1>1, Keys, Zenon DEF Region
<1>3. regions[i].startKey < k /\ (k < regions[i].endKey \/ regions[i].endKey = EmptyKey)
  BY <1>1, <1>2 DEF regionContains
<1>4. /\ Len(regions') = n
      /\ \A j \in 1 .. Len(regions) : j # i => regions'[j] = regions[j]
      /\ regions'[i] = [regions[i] EXCEPT !.endKey = k, !.version = regions[i].version + 1]
      /\ regions'[n] = [regions[i] EXCEPT !.startKey = k, !.version = regions[i].version + 1]
  <2>1. /\ Len(split(i, k)) = n
        /\ \A j \in 1 .. Len(regions) : j # i => split(i, k)[j] = regions[j]
        /\ split(i, k)[i]
             = [regions[i] EXCEPT !.endKey = k, !.version = regions[i].version + 1]
        /\ split(i, k)[n]
             = [regions[i] EXCEPT !.startKey = k, !.version = regions[i].version + 1]
    BY SplitEffect, Zenon
  <2> QED
    BY <2>1
<1>5. /\ regions'[i].startKey = regions[i].startKey /\ regions'[i].endKey = k
      /\ regions'[n].startKey = k /\ regions'[n].endKey = regions[i].endKey
  BY <1>1, <1>4 DEF Region
\* Where a part of the new list comes from.
<1> DEFINE origin(j) == IF j = n THEN i ELSE j
<1>6. \A j \in 1 .. n : origin(j) \in 1 .. Len(regions)
  BY <1>1
<1>7. ASSUME NEW j \in 1 .. n, NEW x \in Key, regionContains(regions'[j], x)
      PROVE  regionContains(regions[origin(j)], x)
  <2>1. x \in Nat
    BY Keys
  <2>2. CASE j = n
    BY <1>1, <1>2, <1>3, <1>5, <1>7, <2>1, <2>2 DEF regionContains
  <2>3. CASE j = i
    BY <1>1, <1>2, <1>3, <1>5, <1>7, <2>1, <2>3, Keys DEF regionContains
  <2>4. CASE j # i /\ j # n
    BY <1>1, <1>4, <1>7, <2>4
  <2> QED
    BY <2>2, <2>3, <2>4
<1>8. ASSUME NEW x \in Key, regionContains(regions'[i], x), regionContains(regions'[n], x)
      PROVE  FALSE
  <2>1. x \in Nat
    BY Keys
  <2> QED
    BY <1>1, <1>2, <1>3, <1>5, <1>8, <2>1, Keys DEF regionContains
<1>9. ASSUME NEW j \in 1 .. n, regions'[j].endKey # EmptyKey
      PROVE  regions'[j].startKey < regions'[j].endKey
  <2>1. CASE j = n
    BY <1>3, <1>5, <1>9, <2>1
  <2>2. CASE j = i
    BY <1>3, <1>5, <2>2
  <2>3. CASE j # i /\ j # n
    BY <1>1, <1>4, <1>9, <2>3 DEF Partition
  <2> QED
    BY <2>1, <2>2, <2>3
<1>10. ASSUME NEW j \in 1 .. n, NEW m \in 1 .. n, NEW x \in Key,
              regionContains(regions'[j], x), regionContains(regions'[m], x)
       PROVE  j = m
  <2>1. origin(j) = origin(m)
    BY <1>6, <1>7, <1>10 DEF Partition
  <2> QED
    BY <1>1, <1>8, <1>10, <2>1
<1> QED
  BY <1>4, <1>9, <1>10 DEF Partition

\* One handler, and layouts that are partitions: every step keeps the invariant.
LEMMA NextPart ==
  ASSUME \A g, h \in Handler : g = h
  PROVE  PartInv /\ [Next]_vars => PartInv'
<1> SUFFICES ASSUME CoverInv, TypeOK, Partition, KeysInside, [Next]_vars
             PROVE  Partition' /\ KeysInside'
  BY NextCover DEF PartInv, CoverInv
<1>1. /\ regions \in Seq(Region) /\ call \in [Handler -> Calls]
      /\ \A g \in Handler : call[g].at \in {"split", "reply", "epoch"}
                            => call[g].region \in 1 .. Len(regions)
  BY DEF TypeOK, Calls, Stage
<1>2. ASSUME UNCHANGED <<regions, call>>
      PROVE  Partition' /\ KeysInside'
  BY <1>2 DEF Partition, KeysInside
<1>3. ASSUME NEW h \in Handler, UNCHANGED regions, call'[h].at # "split",
             \A g \in Handler : g # h => call'[g] = call[g]
      PROVE  Partition' /\ KeysInside'
  BY <1>3 DEF Partition, KeysInside
<1>4. ASSUME NEW c \in Client, NEW k \in Key, GetRegion(c, k)
      PROVE  Partition' /\ KeysInside'
  BY <1>2, <1>4 DEF GetRegion
<1>5. ASSUME NEW c \in Client, NEW i \in 1 .. MaxRegions, GetRegionByID(c, i)
      PROVE  Partition' /\ KeysInside'
  BY <1>2, <1>5 DEF GetRegionByID
<1>6. ASSUME NEW c \in Client, NEW s \in Store, EpochNotMatch(c, s)
      PROVE  Partition' /\ KeysInside'
  BY <1>2, <1>6, Zenon DEF EpochNotMatch
<1>7. ASSUME NEW h \in Handler, NEW c \in Client, NEW s \in Store, NEW k \in Key,
             SplitRegion(h, c, s, k)
      PROVE  Partition' /\ KeysInside'
  <2>1. call'[h].at = "lookup" /\ UNCHANGED regions
        /\ \A g \in Handler : g # h => call'[g] = call[g]
    BY <1>1, <1>7 DEF SplitRegion, Idle
  <2> QED
    BY <1>3, <2>1
<1>8. ASSUME NEW h \in Handler, LookupRegion(h)
      PROVE  Partition' /\ KeysInside'
  <2>1. PICK i \in 1 .. Len(regions) :
          /\ IsRegionByKey(i, call[h].key)
          /\ call' = [call EXCEPT ![h] = IF regions[i].startKey = call[h].key THEN Idle
                                         ELSE [@ EXCEPT !.at = "split", !.region = i]]
    BY <1>8, Zenon DEF LookupRegion
  <2>2. UNCHANGED regions /\ call[h] \in Calls
    BY <1>1, <1>8 DEF LookupRegion
  <2>3. CASE regions[i].startKey = call[h].key
    <3>1. call'[h].at # "split" /\ \A g \in Handler : g # h => call'[g] = call[g]
      BY <1>1, <2>1, <2>3, IdleType
    <3> QED
      BY <1>3, <2>2, <3>1
  <2>4. CASE regions[i].startKey # call[h].key
    <3>1. /\ call'[h].region = i /\ call'[h].key = call[h].key
          /\ \A g \in Handler : g # h => call'[g] = call[g]
      BY <1>1, <2>1, <2>2, <2>4 DEF Calls
    <3>2. regionContains(regions[i], call[h].key)
      BY <2>1 DEF IsRegionByKey
    <3> QED
      BY <2>2, <2>4, <3>1, <3>2 DEF Partition, KeysInside
  <2> QED
    BY <2>3, <2>4
<1>9. ASSUME NEW h \in Handler, SplitRaw(h)
      PROVE  Partition' /\ KeysInside'
  <2>1. /\ call[h].region \in 1 .. Len(regions) /\ call[h].key \in Key
        /\ regions' = split(call[h].region, call[h].key)
    BY <1>1, <1>9 DEF SplitRaw, Calls
  <2>2. /\ regionContains(regions[call[h].region], call[h].key)
        /\ regions[call[h].region].startKey # call[h].key
    BY <1>9 DEF SplitRaw, KeysInside
  <2>3. Partition'
    BY <1>1, <2>1, <2>2, SplitPartitions
  <2>4. call'[h].at # "split"
    <3>1. call[h] \in Calls
      BY <1>1
    <3> QED
      BY <1>1, <1>9, <3>1, IdleType DEF SplitRaw, Calls
  <2>5. KeysInside'
    BY <2>4 DEF KeysInside
  <2> QED
    BY <2>3, <2>5
<1>10. ASSUME NEW h \in Handler, MarshalEndKey(h)
       PROVE  Partition' /\ KeysInside'
  <2>1. call'[h].at = "epoch" /\ UNCHANGED regions
        /\ \A g \in Handler : g # h => call'[g] = call[g]
    BY <1>1, <1>10 DEF MarshalEndKey, Calls
  <2> QED
    BY <1>3, <2>1
<1>11. ASSUME NEW h \in Handler, NEW c \in Client, MarshalEpoch(h, c)
       PROVE  Partition' /\ KeysInside'
  <2>1. call'[h].at # "split" /\ UNCHANGED regions
        /\ \A g \in Handler : g # h => call'[g] = call[g]
    BY <1>1, <1>11, IdleType DEF MarshalEpoch
  <2> QED
    BY <1>3, <2>1
<1>12. CASE UNCHANGED vars
  BY <1>2, <1>12 DEF vars
<1> QED
  BY <1>4, <1>5, <1>6, <1>7, <1>8, <1>9, <1>10, <1>11, <1>12 DEF Next

\* Splits that run one at a time keep the regions a partition of the keys,
\* when they were one: what two racing SplitRegion calls break.
THEOREM SequentialSplitsKeepPartition ==
  ASSUME \A g, h \in Handler : g = h
  PROVE  Init /\ Partition /\ [][Next]_vars => []Partition
<1>1. Init /\ Partition => PartInv
  <2>1. Init => KeysInside
    BY DEF Init, KeysInside, Idle
  <2> QED
    BY <2>1, InitCover DEF PartInv
<1>2. PartInv /\ [Next]_vars => PartInv'
  BY NextPart
<1>3. PartInv => Partition
  BY DEF PartInv
<1> QED
  BY <1>1, <1>2, <1>3, PTL

--------------------------------------------------------------------------------

\* The end key of a reply that is being marshalled is still that of its region.
ReplyInv ==
  \A h \in Handler : call[h].at = "epoch" => call[h].endKey = regions[call[h].region].endKey

SeqInv == CoverInv /\ CacheInv /\ ReplyInv

\* One handler: no split comes between the two halves of a reply, so that
\* caching it is like caching a clone.
LEMMA NextSeq ==
  ASSUME \A g, h \in Handler : g = h
  PROVE  SeqInv /\ [Next]_vars => SeqInv'
<1> SUFFICES ASSUME CoverInv, TypeOK, CacheInv, ReplyInv, [Next]_vars
             PROVE  CacheInv' /\ ReplyInv'
  BY NextCover DEF SeqInv, CoverInv
<1>1. /\ regions \in Seq(Region) /\ call \in [Handler -> Calls]
      /\ \A g \in Handler : call[g].at \in {"split", "reply", "epoch"}
                            => call[g].region \in 1 .. Len(regions)
  BY DEF TypeOK, Calls, Stage
<1>2. UNCHANGED <<regions, call>> => ReplyInv'
  BY DEF ReplyInv
<1>3. UNCHANGED <<regions, cached>> => CacheInv'
  BY DEF CacheInv
<1>4. ASSUME NEW h \in Handler, call'[h].at # "epoch"
      PROVE  ReplyInv'
  BY <1>4 DEF ReplyInv
<1>5. ASSUME NEW c \in Client, NEW k \in Key, GetRegion(c, k)
      PROVE  CacheInv' /\ ReplyInv'
  BY <1>2, <1>5, CloneKeepsCache, Zenon DEF GetRegion
<1>6. ASSUME NEW c \in Client, NEW i \in 1 .. MaxRegions, GetRegionByID(c, i)
      PROVE  CacheInv' /\ ReplyInv'
  BY <1>2, <1>6, CloneKeepsCache, Zenon DEF GetRegionByID
<1>7. ASSUME NEW c \in Client, NEW s \in Store, EpochNotMatch(c, s)
      PROVE  CacheInv' /\ ReplyInv'
  BY <1>2, <1>7, CloneKeepsCache, Zenon DEF EpochNotMatch
<1>8. ASSUME NEW h \in Handler, NEW c \in Client, NEW s \in Store, NEW k \in Key,
             SplitRegion(h, c, s, k)
      PROVE  CacheInv' /\ ReplyInv'
  <2>1. call'[h].at = "lookup"
    BY <1>1, <1>8 DEF SplitRegion, Idle
  <2> QED
    BY <1>3, <1>4, <1>8, <2>1 DEF SplitRegion
<1>9. ASSUME NEW h \in Handler, LookupRegion(h)
      PROVE  CacheInv' /\ ReplyInv'
  <2>1. call'[h].at # "epoch"
    BY <1>1, <1>9 DEF LookupRegion, Calls, Idle
  <2> QED
    BY <1>3, <1>4, <1>9, <2>1 DEF LookupRegion
<1>10. ASSUME NEW h \in Handler, SplitRaw(h)
       PROVE  CacheInv' /\ ReplyInv'
  <2>1. call[h].region \in 1 .. Len(regions) /\ call[h].key \in Key /\ call[h] \in Calls
    BY <1>1, <1>10 DEF SplitRaw, Calls
  <2>2. call'[h].at # "epoch"
    BY <1>1, <1>10, <2>1, IdleType DEF SplitRaw, Calls
  <2> QED
    BY <1>4, <1>10, <2>1, <2>2, SplitKeepsCache DEF SplitRaw
<1>11. ASSUME NEW h \in Handler, MarshalEndKey(h)
       PROVE  CacheInv' /\ ReplyInv'
  <2>1. call[h] \in Calls /\ UNCHANGED <<regions, cached>>
    BY <1>1, <1>11 DEF MarshalEndKey
  <2>2. /\ call'[h].endKey = regions[call[h].region].endKey
        /\ call'[h].region = call[h].region
    BY <1>1, <1>11, <2>1 DEF MarshalEndKey, Calls
  <2> QED
    BY <1>3, <2>1, <2>2 DEF ReplyInv
<1>12. ASSUME NEW h \in Handler, NEW c \in Client, MarshalEpoch(h, c)
       PROVE  CacheInv' /\ ReplyInv'
  <2>1. call[h].region \in 1 .. Len(regions)
    BY <1>1, <1>12 DEF MarshalEpoch
  <2>2. call[h].endKey = regions[call[h].region].endKey
    BY <1>12 DEF MarshalEpoch, ReplyInv
  <2>3. [Clone(call[h].region) EXCEPT !.endKey = call[h].endKey] = Clone(call[h].region)
    BY <2>2 DEF Clone
  <2>4. /\ \/ cached' = [cached EXCEPT ![c] = Clone(call[h].region)]
           \/ UNCHANGED cached
        /\ UNCHANGED regions
    BY <1>12, <2>3, Zenon DEF MarshalEpoch
  <2>5. call'[h].at # "epoch"
    BY <1>1, <1>12, IdleType DEF MarshalEpoch
  <2> QED
    BY <1>3, <1>4, <2>1, <2>4, <2>5, CloneKeepsCache
<1>13. CASE UNCHANGED vars
  BY <1>2, <1>3, <1>13 DEF vars
<1> QED
  BY <1>5, <1>6, <1>7, <1>8, <1>9, <1>10, <1>11, <1>12, <1>13 DEF Next

\* A client whose cache is in order is not led into a panic.
LEMMA CacheIsSafe == SeqInv => NoPanic
BY DEF SeqInv, CoverInv, CacheInv, NoPanic, checkRequestContext, regionContains

\* When SplitRegion calls are served one at a time, a client may also cache the
\* regions of their replies: the handlers' panics stay out of reach.
THEOREM SequentialRepliesAreSafe ==
  ASSUME \A g, h \in Handler : g = h
  PROVE  Spec => []NoPanic
<1>1. Init => SeqInv
  BY InitCover DEF Init, SeqInv, CacheInv, ReplyInv, Idle
<1>2. SeqInv /\ [Next]_vars => SeqInv'
  BY NextSeq
<1> QED
  BY <1>1, <1>2, CacheIsSafe, PTL DEF Spec

================================================================================
