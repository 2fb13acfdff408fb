------------------------------- MODULE ScanProofs ------------------------------
(***************************************************************************)
(* Proofs that Scan and ReverseScan return what gets return key by key, in *)
(* every database the store can reach.                                     *)
(*                                                                         *)
(* The scans are functions of the database, so that the lemmas are about   *)
(* any database with EntryInv.  It makes the versions of a key unique, so  *)
(* EncodedBefore orders the entries totally and an iterator has a first    *)
(* and a last one.  Forward and Backward are the invariants of the two     *)
(* loops, kept by every iteration; each counts the entries that are left,  *)
(* so that the loops are over when the scans read their result.            *)
(***************************************************************************)
EXTENDS Scans, MVCCStoreProofs, FiniteSetTheorems

--------------------------------------------------------------------------------
(* Induction without an operator parameter *)

\* A non-empty set of numbers has a smallest element.
LEMMA Smallest ==
  ASSUME NEW S \in SUBSET Nat, S # {}
  PROVE  \E n \in S : \A m \in S : n =< m
<1> DEFINE R == {p \in Nat \X Nat : p[1] < p[2]}
<1>1. IsWellFoundedOn(OpToRel(<, Nat), Nat) BY NatLessThanWellFounded, Zenon
<1>2. IsWellFoundedOn(R, Nat) BY <1>1 DEF OpToRel
<1>3. \A m, n \in Nat : m < n => <<m, n>> \in R OBVIOUS
<1> HIDE DEF R
<1>4. PICK n \in S : \A m \in S : ~ (<<m, n>> \in R) BY <1>2, WFMin, Zenon
<1>5. ASSUME NEW m \in S PROVE n =< m
  <2>1. m \in Nat /\ n \in Nat OBVIOUS
  <2>2. ~ (m < n) BY <1>3, <1>4, <2>1, Zenon
  <2> QED BY <2>1, <2>2
<1> QED BY <1>5

\* A set of numbers that has 0 and the successor of each member has all.
LEMMA Successors ==
  ASSUME NEW S, 0 \in S, \A n \in Nat : n \in S => n + 1 \in S
  PROVE  \A n \in Nat : n \in S
<1> DEFINE T == {n \in Nat : n \notin S}
<1> SUFFICES ASSUME T # {} PROVE FALSE OBVIOUS
<1>1. PICK n \in T : \A m \in T : n =< m BY Smallest, Zenon
<1>2. n \in Nat /\ n # 0 /\ n - 1 \in Nat /\ n - 1 + 1 = n BY <1>1
<1>3. n - 1 \notin T BY <1>1, <1>2
<1>4. n - 1 \in S BY <1>2, <1>3
<1>5. n \in S BY <1>2, <1>4
<1> QED BY <1>1, <1>5

--------------------------------------------------------------------------------
(* The entries of the database and their order *)

\* The database holds the versions of the keys and their locks, and no more.
LEMMA EntriesAre ==
  ASSUME NEW e
  PROVE  e \in Entries <=>
           \/ \E k \in Key : \E w \in writes[k] : e = Entry(k, w.commitTS, w)
           \/ \E k \in Key : lock[k] # NoLock /\ e = Entry(k, lockVer, lock[k])
<1> DEFINE E(k) == {Entry(k, w.commitTS, w) : w \in writes[k]}
           L == {Entry(k, lockVer, lock[k]) : k \in {k \in Key : lock[k] # NoLock}}
           U == UNION {E(k) : k \in Key}
<1>1. Entries = U \cup L BY Zenon DEF Entries
<1>2. e \in L <=> \E k \in Key : lock[k] # NoLock /\ e = Entry(k, lockVer, lock[k]) OBVIOUS
<1>3. \A k : e \in E(k) <=> \E w \in writes[k] : e = Entry(k, w.commitTS, w) OBVIOUS
<1> HIDE DEF E, L
<1>4. e \in U <=> \E k \in Key : e \in E(k) BY Zenon
<1> HIDE DEF U
<1>5. e \in Entries <=> e \in U \/ e \in L BY <1>1
<1> QED BY <1>2, <1>3, <1>4, <1>5, Zenon

\* What an entry holds, and which entries there are.
LEMMA EntryFacts ==
  ASSUME IInv
  PROVE  /\ \A e \in Entries :
              /\ e.key \in Key /\ e.key \in Nat /\ e.ver \in Uint64 /\ e.ver =< lockVer
              /\ e.ver = lockVer => lock[e.key] # NoLock /\ e.value = lock[e.key]
              /\ e.ver # lockVer => e.value \in writes[e.key] /\ e.ver = e.value.commitTS
         /\ \A k \in Key : \A w \in writes[k] :
              /\ Entry(k, w.commitTS, w) \in Entries
              /\ w.commitTS \in Uint64 /\ w.commitTS < lockVer
         /\ \A k \in Key : lock[k] # NoLock => Entry(k, lockVer, lock[k]) \in Entries
<1>1. \A k \in Key : k \in Nat BY KeyAssumption
<1>2. lockVer \in Uint64 /\ \A n \in Uint64 : n \in Nat /\ n =< lockVer
  BY WordAssumption DEF lockVer, Uint64
<1>3. ASSUME NEW k \in Key, NEW w \in writes[k]
      PROVE  w.commitTS \in Uint64 /\ w.commitTS < lockVer /\ w.commitTS # lockVer
  <2>1. w.startTS \in StartTS /\ (Committed(w) => w.commitTS \in CommitTS)
        /\ (~ Committed(w) => w.commitTS = w.startTS)
    BY Zenon DEF IInv, EntryInv, CommitOf
  <2>2. w.commitTS \in Uint64 \ {lockVer} BY <2>1, TimestampAssumption
  <2> QED BY <1>2, <2>2
<1>4. \A k \in Key : \A w \in writes[k] : Entry(k, w.commitTS, w) \in Entries
  BY EntriesAre, Zenon
<1>6. \A k \in Key : lock[k] # NoLock => Entry(k, lockVer, lock[k]) \in Entries
  BY EntriesAre, Zenon
<1>5. ASSUME NEW e \in Entries
      PROVE  /\ e.key \in Key /\ e.key \in Nat /\ e.ver \in Uint64 /\ e.ver =< lockVer
             /\ e.ver = lockVer => lock[e.key] # NoLock /\ e.value = lock[e.key]
             /\ e.ver # lockVer => e.value \in writes[e.key] /\ e.ver = e.value.commitTS
  <2>1. CASE \E k \in Key : \E w \in writes[k] : e = Entry(k, w.commitTS, w)
    <3>1. PICK k \in Key : \E w \in writes[k] : e = Entry(k, w.commitTS, w) BY <2>1, Zenon
    <3>0. PICK w \in writes[k] : e = Entry(k, w.commitTS, w) BY <3>1, Zenon
    <3>2. e.key = k /\ e.ver = w.commitTS /\ e.value = w BY <3>0 DEF Entry
    <3> QED BY <1>1, <1>2, <1>3, <3>0, <3>2
  <2>2. CASE \E k \in Key : lock[k] # NoLock /\ e = Entry(k, lockVer, lock[k])
    <3>1. PICK k \in Key : lock[k] # NoLock /\ e = Entry(k, lockVer, lock[k]) BY <2>2
    <3>2. e.key = k /\ e.ver = lockVer /\ e.value = lock[k] BY <3>1 DEF Entry
    <3> QED BY <1>1, <1>2, <3>1, <3>2
  <2> QED BY <2>1, <2>2, EntriesAre, Zenon
<1> QED BY <1>3, <1>4, <1>5, <1>6, Zenon

\* An entry is its key, its version and its value.
LEMMA EntryShape ==
  ASSUME NEW e \in Entries PROVE e = Entry(e.key, e.ver, e.value)
<1>1. \A k, ver, v : LET x == Entry(k, ver, v) IN x = Entry(x.key, x.ver, x.value) BY DEF Entry
<1>2. \E k, ver, v : e = Entry(k, ver, v) BY EntriesAre
<1>3. PICK k, ver, v : e = Entry(k, ver, v) BY <1>2, Zenon
<1> QED BY <1>1, <1>3, Zenon

\* No two entries of a key have the same version.
LEMMA VersionsAreUnique ==
  ASSUME IInv, NEW a \in Entries, NEW b \in Entries, a.key = b.key, a.ver = b.ver
  PROVE  a = b
<1> DEFINE k == a.key
<1>0. k \in Key BY EntryFacts, Zenon
<1>1. a = Entry(k, a.ver, a.value) /\ b = Entry(k, a.ver, b.value) BY EntryShape, Zenon
<1>2. CASE a.ver = lockVer
  <2>1. a.value = lock[k] /\ b.value = lock[k] BY <1>2, EntryFacts, Zenon
  <2> QED BY <1>1, <2>1, Zenon
<1>3. CASE a.ver # lockVer
  <2>1. /\ a.value \in writes[k] /\ b.value \in writes[k]
        /\ a.value.commitTS = b.value.commitTS
    BY <1>3, EntryFacts, Zenon
  <2>2. EntryInv(lock[k], writes[k]) BY <1>0, Zenon DEF IInv
  <2>3. ASSUME NEW v \in writes[k], NEW w \in writes[k], v.commitTS = w.commitTS
        PROVE  v = w
    <3>1. CASE Committed(v) /\ Committed(w)
      <4>1. /\ v.startTS \in StartTS /\ v.commitTS \in CommitOf(v.startTS)
            /\ w.startTS \in StartTS /\ w.commitTS \in CommitOf(w.startTS)
            /\ v # w => v.commitTS < w.startTS \/ w.commitTS < v.startTS
        BY <2>2, <3>1, Zenon DEF EntryInv
      <4>2. v.startTS \in Nat /\ v.commitTS \in Nat /\ w.startTS \in Nat
            /\ v.startTS < v.commitTS /\ w.startTS < w.commitTS
        <5>1. /\ v.startTS \in Uint64 /\ v.commitTS \in Uint64 /\ w.startTS \in Uint64
              /\ v.commitTS > v.startTS /\ w.commitTS > w.startTS
          BY <4>1, TimestampAssumption, Zenon DEF CommitOf
        <5>2. w.commitTS \in Uint64 BY <2>3, <5>1, Zenon
        <5> QED BY <5>1, <5>2 DEF Uint64
      <4> QED BY <4>1, <4>2, <2>3
    <3>2. CASE ~ Committed(v) /\ ~ Committed(w)
      BY <2>2, <2>3, <3>2, Zenon DEF EntryInv
    <3>3. CASE Committed(v) /\ ~ Committed(w)
      <4>1. v.commitTS \in CommitTS /\ w.commitTS \in StartTS
        BY <2>2, <3>3, Zenon DEF EntryInv, CommitOf
      <4> QED BY <2>3, <4>1, TimestampAssumption
    <3>4. CASE ~ Committed(v) /\ Committed(w)
      <4>1. w.commitTS \in CommitTS /\ v.commitTS \in StartTS
        BY <2>2, <3>4, Zenon DEF EntryInv, CommitOf
      <4> QED BY <2>3, <4>1, TimestampAssumption
    <3> QED BY <3>1, <3>2, <3>3, <3>4, Zenon
  <2>4. a.value = b.value BY <2>1, <2>3, Zenon
  <2> QED BY <1>1, <2>4, Zenon
<1> QED BY <1>2, <1>3, Zenon

\* EncodedBefore orders the entries.
LEMMA EntryOrder ==
  ASSUME IInv
  PROVE  /\ \A a, b \in Entries : a = b \/ EncodedBefore(a, b) \/ EncodedBefore(b, a)
         /\ \A a, b \in Entries : EncodedBefore(a, b) => a # b /\ ~ EncodedBefore(b, a)
         /\ \A a, b, c \in Entries :
              EncodedBefore(a, b) /\ EncodedBefore(b, c) => EncodedBefore(a, c)
<1>1. \A x \in Entries : x.key \in Nat /\ x.ver \in Nat
  <2>1. \A x \in Entries : x.key \in Nat /\ x.ver \in Uint64 BY EntryFacts, Zenon
  <2> QED BY <2>1 DEF Uint64
<1>2. ASSUME NEW a \in Entries, NEW b \in Entries
      PROVE  a = b \/ EncodedBefore(a, b) \/ EncodedBefore(b, a)
  <2>1. a.key = b.key /\ a.ver = b.ver => a = b BY VersionsAreUnique, Zenon
  <2> QED BY <1>1, <2>1 DEF EncodedBefore
<1>3. \A a, b \in Entries : EncodedBefore(a, b) => a # b /\ ~ EncodedBefore(b, a)
  BY <1>1 DEF EncodedBefore
<1>4. \A a, b, c \in Entries :
        EncodedBefore(a, b) /\ EncodedBefore(b, c) => EncodedBefore(a, c)
  BY <1>1 DEF EncodedBefore
<1> QED BY <1>2, <1>3, <1>4, Zenon

\* The database is finite: its entries differ in the key or the version.
LEMMA EntriesAreFinite ==
  ASSUME IInv PROVE IsFiniteSet(Entries)
<1> DEFINE f == [e \in Entries |-> <<e.key, e.ver>>]
           T == Key \X Uint64
<1>1. IsFiniteSet(Uint64)
  <2>1. 0 \in Int /\ MaxUint64 \in Int BY WordAssumption
  <2> QED BY <2>1, FS_Interval, Zenon DEF Uint64
<1>2. IsFiniteSet(T) BY <1>1, FiniteAssumption, FS_Product, Zenon
<1>3. f \in [Entries -> T]
  <2>1. \A e \in Entries : e.key \in Key /\ e.ver \in Uint64 BY EntryFacts, Zenon
  <2> QED BY <2>1
<1>4. ASSUME NEW a \in Entries, NEW b \in Entries, f[a] = f[b] PROVE a = b
  <2>1. a.key = b.key /\ a.ver = b.ver BY <1>4
  <2> QED BY <2>1, VersionsAreUnique, Zenon
<1> HIDE DEF f, T
<1>5. f \in Injection(Entries, T) BY <1>3, <1>4, Zenon DEF Injection, IsInjective
<1> QED BY <1>2, <1>5, FS_Injection, Zenon

\* The iterator's first entry comes before the others it has not passed.
LEMMA FirstIsFirst ==
  ASSUME IInv, NEW S \in SUBSET Entries, S # {}
  PROVE  /\ First(S) \in S
         /\ \A x \in S : x = First(S) \/ EncodedBefore(First(S), x)
<1> DEFINE before(e) == {x \in S : EncodedBefore(x, e)}
           C == {Cardinality(before(e)) : e \in S}
<1>1. \A T \in SUBSET Entries : IsFiniteSet(T) /\ Cardinality(T) \in Nat
  BY EntriesAreFinite, FS_Subset, FS_CardinalityType, Zenon
<1>2. C \in SUBSET Nat /\ C # {}
  <2>1. \A e \in S : before(e) \in SUBSET Entries OBVIOUS
  <2> QED BY <1>1, <2>1, Zenon
<1>3. PICK n \in C : \A m \in C : n =< m BY <1>2, Smallest, Zenon
<1>4. PICK e \in S : n = Cardinality(before(e)) BY <1>3
<1>5. ASSUME NEW x \in S, EncodedBefore(x, e) PROVE FALSE
  <2>1. before(x) \in SUBSET before(e) /\ x \in before(e) /\ x \notin before(x)
    BY <1>5, EntryOrder, Zenon
  <2>2. before(e) \in SUBSET Entries /\ before(x) \in SUBSET Entries OBVIOUS
  <2>3. /\ Cardinality(before(x)) =< Cardinality(before(e))
        /\ Cardinality(before(x)) # Cardinality(before(e))
    <3> HIDE DEF before
    <3> QED BY <1>1, <2>1, <2>2, FS_Subset, Zenon
  <2>4. n =< Cardinality(before(x)) BY <1>3, <1>5, Zenon
  <2>5. Cardinality(before(x)) \in Nat /\ n \in Nat BY <1>1, <1>4, <2>2, Zenon
  <2> HIDE DEF before, C
  <2> QED BY <1>4, <2>3, <2>4, <2>5
<1>6. \A x \in S : x = e \/ EncodedBefore(e, x) BY <1>5, EntryOrder, Zenon
<1> QED BY <1>6, Zenon DEF First

\* Last finds the last entry of an iterator that is not exhausted.
LEMMA LastIsLast ==
  ASSUME IInv, NEW S \in SUBSET Entries, S # {}
  PROVE  /\ Last(S) \in S
         /\ \A x \in S : x = Last(S) \/ EncodedBefore(x, Last(S))
<1> DEFINE behind(e) == {x \in S : EncodedBefore(e, x)}
           C == {Cardinality(behind(e)) : e \in S}
<1>1. \A T \in SUBSET Entries : IsFiniteSet(T) /\ Cardinality(T) \in Nat
  BY EntriesAreFinite, FS_Subset, FS_CardinalityType, Zenon
<1>2. C \in SUBSET Nat /\ C # {}
  <2>1. \A e \in S : behind(e) \in SUBSET Entries OBVIOUS
  <2> QED BY <1>1, <2>1, Zenon
<1>3. PICK n \in C : \A m \in C : n =< m BY <1>2, Smallest, Zenon
<1>4. PICK e \in S : n = Cardinality(behind(e)) BY <1>3
<1>5. ASSUME NEW x \in S, EncodedBefore(e, x) PROVE FALSE
  <2>1. behind(x) \in SUBSET behind(e) /\ x \in behind(e) /\ x \notin behind(x)
    BY <1>5, EntryOrder, Zenon
  <2>2. behind(e) \in SUBSET Entries /\ behind(x) \in SUBSET Entries OBVIOUS
  <2>3. /\ Cardinality(behind(x)) =< Cardinality(behind(e))
        /\ Cardinality(behind(x)) # Cardinality(behind(e))
    <3> HIDE DEF behind
    <3> QED BY <1>1, <2>1, <2>2, FS_Subset, Zenon
  <2>4. n =< Cardinality(behind(x)) BY <1>3, <1>5, Zenon
  <2>5. Cardinality(behind(x)) \in Nat /\ n \in Nat BY <1>1, <1>4, <2>2, Zenon
  <2> HIDE DEF behind, C
  <2> QED BY <1>4, <2>3, <2>4, <2>5
<1>6. \A x \in S : x = e \/ EncodedBefore(x, e) BY <1>5, EntryOrder, Zenon
<1> QED BY <1>6, Zenon DEF Last

\* The first entry is the only one that comes before the others.
LEMMA OnlyFirst ==
  ASSUME IInv, NEW S \in SUBSET Entries, NEW e \in S,
         \A x \in S : x = e \/ EncodedBefore(e, x)
  PROVE  First(S) = e
<1>1. First(S) \in S /\ (e = First(S) \/ EncodedBefore(First(S), e))
  BY FirstIsFirst, Zenon
<1>2. First(S) = e \/ EncodedBefore(e, First(S)) BY <1>1, Zenon
<1>3. First(S) \in Entries /\ e \in Entries BY <1>1, Zenon
<1> QED BY <1>1, <1>2, <1>3, EntryOrder, Zenon

--------------------------------------------------------------------------------
(* One read of the forward scan *)

\* What an iterator over a range has not passed when it is at key k.
AtOrAfter(b, e, k) == {x \in newIterator(b, e) : x.key >= k}

\* And when it has passed key k.
Behind(b, e, k) == {x \in newIterator(b, e) : x.key > k}

\* The decoders stay on a key whose entries come first.
LEMMA VersionsOfKey ==
  ASSUME IInv, NEW S \in SUBSET Entries, NEW k \in Nat, \A x \in S : x.key >= k
  PROVE  /\ Versions(S, k) = {x \in S : x.key = k}
         /\ S \ Versions(S, k) = {x \in S : x.key > k}
<1>1. \A x \in S : x.key \in Nat BY EntryFacts, Zenon
<1>2. \A x, y \in S : EncodedBefore(x, y) /\ y.key = k => x.key = k
  BY <1>1 DEF EncodedBefore
<1>3. Versions(S, k) = {x \in S : x.key = k} BY <1>2, Zenon DEF Versions
<1>4. \A x \in S : x.key # k <=> x.key > k BY <1>1
<1> QED BY <1>3, <1>4, Zenon

\* A read on the iterator finds what a get of the key finds, and the scan
\* then goes on behind the key.
LEMMA GetOnIterator ==
  ASSUME IInv, NEW b, NEW e, NEW k \in Key, InRange(k, b, e), NEW ts, NEW iso,
         NEW iter, iter = AtOrAfter(b, e, k)
  PROVE  LET got == getValueIter(iter, k, ts, iso)
         IN  /\ got.result = getValue(k, ts, iso)
             /\ skipDecoder(got.iter, k) = Behind(b, e, k)
<1>a. k \in Nat BY KeyAssumption
<1>1. /\ iter \in SUBSET Entries
      /\ \A x \in iter : x.key >= k
      /\ \A x \in Entries : x.key = k => x \in iter
      /\ Behind(b, e, k) = {x \in iter : x.key > k}
  <2>1. \A x \in Entries : x.key \in Nat BY EntryFacts, Zenon
  <2> QED BY <1>a, <2>1 DEF AtOrAfter, Behind, newIterator
<1>b. \A x \in Entries : x.key \in Nat /\ x.ver \in Nat /\ x.ver =< lockVer
  <2>1. \A x \in Entries : x.key \in Nat /\ x.ver \in Uint64 /\ x.ver =< lockVer
    BY EntryFacts, Zenon
  <2> QED BY <2>1 DEF Uint64
<1>2. ASSUME lock[k] # NoLock
      PROVE  iter # {} /\ First(iter) = Entry(k, lockVer, lock[k])
  <2> DEFINE e0 == Entry(k, lockVer, lock[k])
  <2>1. e0 \in Entries /\ e0.key = k /\ e0.ver = lockVer BY <1>2, EntryFacts DEF Entry
  <2>2. e0 \in iter BY <1>1, <2>1, Zenon
  <2> HIDE DEF e0
  <2>3. ASSUME NEW x \in iter PROVE x = e0 \/ EncodedBefore(e0, x)
    <3>1. x.key = k /\ x.ver = lockVer => x = e0 BY <1>1, <2>1, VersionsAreUnique, Zenon
    <3>2. x \in Entries /\ x.key >= k BY <1>1, Zenon
    <3>3. lockVer \in Nat BY WordAssumption DEF lockVer
    <3> QED BY <1>a, <1>b, <2>1, <3>1, <3>2, <3>3, SMTT(30) DEF EncodedBefore
  <2>4. First(iter) = e0 BY <1>1, <2>2, <2>3, OnlyFirst, Zenon
  <2> QED BY <2>2, <2>4, Zenon DEF e0
<1> DEFINE locked  == iter # {} /\ First(iter).key = k /\ First(iter).ver = lockVer
           l       == First(iter).value
           checked == locked /\ iso = "SI"
           left    == IF locked THEN iter \ {First(iter)} ELSE iter
           at      == IF checked THEN CheckedTS(l, ts) ELSE ts
           seen    == {x \in Versions(left, k) : Committed(x.value) /\ x.value.commitTS =< at}
           v       == First(seen).value
           got     == getValueIter(iter, k, ts, iso)
           V       == Visible(k, at)
<1>3. got = IF checked /\ Blocks(l, ts, k) THEN [result |-> Locked(k), iter |-> left]
            ELSE IF seen = {} THEN [result |-> NotFound, iter |-> left \ Versions(left, k)]
            ELSE [result |-> IF v.valueType = "Delete" THEN NotFound ELSE Found(v.value),
                  iter   |-> {x \in left : EncodedBefore(First(seen), x)}]
  BY Zenon DEF getValueIter
<1>4. (locked <=> lock[k] # NoLock) /\ (locked => l = lock[k])
  <2>1. CASE lock[k] # NoLock
    BY <1>2, <2>1 DEF Entry
  <2>2. CASE lock[k] = NoLock
    <3>1. iter # {} => First(iter) \in iter BY <1>1, FirstIsFirst, Zenon
    <3>2. iter # {} => First(iter) \in Entries BY <1>1, <3>1, Zenon
    <3> QED BY <2>2, <3>2, EntryFacts, Zenon
  <2> QED BY <2>1, <2>2
<1>5. /\ left \in SUBSET Entries
      /\ \A x \in left : x \in iter /\ x.key >= k
      /\ \A x \in iter : x.key > k => x \in left
      /\ \A x \in Entries : x.key = k => (x \in left <=> x.ver # lockVer)
  <2>1. \A x \in iter : x.key > k => x.key # k BY <1>1, <1>a, <1>b
  <2>2. CASE locked
    <3>1. First(iter) \in iter /\ First(iter).key = k /\ First(iter).ver = lockVer
      BY <1>1, <2>2, FirstIsFirst, Zenon
    <3>2. \A x \in Entries : x.key = k /\ x.ver = lockVer => x = First(iter)
      BY <1>1, <3>1, VersionsAreUnique, Zenon
    <3>3. left = iter \ {First(iter)} BY <2>2, Zenon
    <3> HIDE DEF left, locked
    <3> QED BY <1>1, <2>1, <3>1, <3>2, <3>3, Zenon
  <2>3. CASE ~ locked
    <3>1. \A x \in Entries : x.key = k => x.ver # lockVer
      BY <1>4, <2>3, EntryFacts, Zenon
    <3>2. left = iter BY <2>3, Zenon
    <3> HIDE DEF left, locked
    <3> QED BY <1>1, <3>1, <3>2, Zenon
  <2> QED BY <2>2, <2>3, Zenon
<1> HIDE DEF left, locked, l
<1>6. Versions(left, k) = {x \in left : x.key = k} BY <1>a, <1>5, VersionsOfKey, Zenon
<1>7. \A w \in V : Entry(k, w.commitTS, w) \in seen
  <2> SUFFICES ASSUME NEW w \in V PROVE Entry(k, w.commitTS, w) \in seen OBVIOUS
  <2> DEFINE x == Entry(k, w.commitTS, w)
  <2>1. w \in writes[k] /\ Committed(w) /\ w.commitTS =< at BY Zenon DEF Visible
  <2>2. x \in Entries /\ w.commitTS \in Uint64 /\ w.commitTS < lockVer
    BY <2>1, EntryFacts, Zenon
  <2>3. x.key = k /\ x.ver = w.commitTS /\ x.value = w BY DEF Entry
  <2>4. w.commitTS # lockVer BY <2>2, WordAssumption DEF Uint64, lockVer
  <2> HIDE DEF x, at
  <2>5. x \in left BY <1>5, <2>2, <2>3, <2>4, Zenon
  <2> QED BY <1>6, <2>1, <2>3, <2>5, Zenon DEF x
<1>8. ASSUME NEW x \in seen
      PROVE  x \in Entries /\ x.key = k /\ x.value \in V /\ x.ver = x.value.commitTS
  <2> HIDE DEF at
  <2>1. x \in left /\ x.key = k /\ Committed(x.value) /\ x.value.commitTS =< at
    BY <1>6, Zenon
  <2>2. x \in Entries /\ x.ver # lockVer BY <1>5, <2>1, Zenon
  <2>3. x.value \in writes[k] /\ x.ver = x.value.commitTS BY <2>1, <2>2, EntryFacts, Zenon
  <2> QED BY <2>1, <2>2, <2>3, Zenon DEF Visible
<1> HIDE DEF seen, V, at
<1>9. ASSUME seen # {} PROVE First(seen) \in seen /\ v = Newest(V)
  <2> DEFINE f == First(seen)
  <2>1. seen \in SUBSET Entries BY <1>8, Zenon
  <2>2. f \in seen /\ \A x \in seen : x = f \/ EncodedBefore(f, x)
    BY <1>9, <2>1, FirstIsFirst, Zenon
  <2> HIDE DEF f
  <2>3. ASSUME NEW w \in V PROVE w.commitTS =< v.commitTS
    <3> DEFINE x == Entry(k, w.commitTS, w)
    <3>1. x \in seen /\ x.key = k /\ x.ver = w.commitTS BY <1>7 DEF Entry
    <3> HIDE DEF x
    <3>2. f.key = k /\ f.ver = v.commitTS BY <1>8, <2>2, Zenon DEF f
    <3>3. x \in Entries /\ f \in Entries BY <1>8, <2>2, <3>1, Zenon
    <3>4. x = f \/ EncodedBefore(f, x) BY <2>2, <3>1, Zenon
    <3> HIDE DEF v
    <3> QED BY <1>a, <1>b, <3>1, <3>2, <3>3, <3>4, SMTT(30) DEF EncodedBefore
  <2>4. v \in V BY <1>8, <2>2, Zenon DEF f
  <2> DEFINE w == Newest(V)
  <2>5. w \in V /\ \A x \in V : x.commitTS =< w.commitTS BY <2>3, <2>4, Zenon DEF Newest
  <2>6. w.commitTS = v.commitTS
    <3>1. \A x \in V : x.commitTS \in Nat
      <4>1. \A x \in V : Entry(k, x.commitTS, x) \in Entries /\ Entry(k, x.commitTS, x).ver = x.commitTS
        BY <1>7, <1>8 DEF Entry
      <4> QED BY <1>b, <4>1, Zenon
    <3> HIDE DEF w, v
    <3> QED BY <2>3, <2>4, <2>5, <3>1
  <2>7. w = v
    <3> DEFINE x == Entry(k, w.commitTS, w)
    <3>1. x \in seen /\ x.key = k /\ x.ver = w.commitTS /\ x.value = w BY <1>7, <2>5 DEF Entry
    <3>2. f.key = k /\ f.ver = v.commitTS /\ f \in Entries BY <1>8, <2>2, Zenon DEF f
    <3>3. x \in Entries BY <1>8, <3>1, Zenon
    <3> HIDE DEF x, w
    <3>4. x = f BY <2>6, <3>1, <3>2, <3>3, VersionsAreUnique, Zenon
    <3> QED BY <3>1, <3>4, Zenon DEF f
  <2> QED BY <2>2, <2>7, Zenon DEF f
<1>10. seen = {} <=> V = {} BY <1>7, <1>8, Zenon
<1> HIDE DEF v
<1>11. got.result = getValue(k, ts, iso)
  <2> DEFINE chk == lock[k] # NoLock /\ iso = "SI"
             ats == IF chk THEN CheckedTS(lock[k], ts) ELSE ts
             vis == Visible(k, ats)
  <2>1. getValue(k, ts, iso) =
          IF chk /\ Blocks(lock[k], ts, k) THEN Locked(k)
          ELSE IF vis = {} \/ Newest(vis).valueType = "Delete" THEN NotFound
          ELSE Found(Newest(vis).value)
    BY Zenon DEF getValue
  <2>2. (checked <=> chk) /\ (checked => l = lock[k]) BY <1>4, Zenon
  <2>3. at = ats BY <2>2, Zenon DEF at
  <2>4. vis = V BY <2>3, Zenon DEF V
  <2> HIDE DEF chk, vis, checked
  <2>5. got.result = IF checked /\ Blocks(l, ts, k) THEN Locked(k)
                     ELSE IF seen = {} THEN NotFound
                     ELSE IF v.valueType = "Delete" THEN NotFound ELSE Found(v.value)
    <3> HIDE DEF got
    <3> QED BY <1>3
  <2> HIDE DEF got
  <2> QED BY <1>9, <1>10, <2>1, <2>2, <2>4, <2>5, Zenon
<1>12. /\ got.iter \in SUBSET left
       /\ \A x \in left : x.key > k => x \in got.iter
  <2> HIDE DEF got, checked
  <2>1. CASE checked /\ Blocks(l, ts, k) BY <1>3, <2>1
  <2>2. CASE ~ (checked /\ Blocks(l, ts, k)) /\ seen = {}
    <3>1. got.iter = left \ Versions(left, k) BY <1>3, <2>2
    <3>2. \A x \in left : x.key > k => x.key # k BY <1>5, <1>a, <1>b
    <3> QED BY <1>6, <3>1, <3>2, Zenon
  <2>3. CASE ~ (checked /\ Blocks(l, ts, k)) /\ seen # {}
    <3>1. got.iter = {x \in left : EncodedBefore(First(seen), x)} BY <1>3, <2>3
    <3>2. First(seen).key = k BY <1>8, <1>9, <2>3, Zenon
    <3>3. \A x \in left : x.key > k => EncodedBefore(First(seen), x)
      BY <3>2, <1>5, <1>a, <1>b, SMTT(30) DEF EncodedBefore
    <3> QED BY <3>1, <3>3, Zenon
  <2> QED BY <2>1, <2>2, <2>3, Zenon
<1>13. skipDecoder(got.iter, k) = {x \in got.iter : x.key > k}
  <2> HIDE DEF got
  <2>1. got.iter \in SUBSET Entries /\ \A x \in got.iter : x.key >= k BY <1>5, <1>12, Zenon
  <2> QED BY <1>a, <2>1, VersionsOfKey, Zenon DEF skipDecoder
<1>14. skipDecoder(got.iter, k) = Behind(b, e, k)
  <2> HIDE DEF got
  <2> QED BY <1>1, <1>5, <1>12, <1>13, Zenon
<1> QED BY <1>11, <1>14, Zenon

--------------------------------------------------------------------------------
(* Lists of pairs *)

\* The order of the keys of a scan.
Sorted(l, k, dir) == IF dir = "up" THEN l < k ELSE l > k

\* The pairs a scan may return.
PairSet(ts, iso) == {Pair(k, getValue(k, ts, iso)) : k \in Key}

\* The pairs are the answers for the keys of P, in order.
Lists(pairs, P, dir, ts, iso) ==
  /\ pairs \in Seq(PairSet(ts, iso))
  /\ \A i \in 1 .. Len(pairs) :
       pairs[i].key \in P /\ \A j \in 1 .. i - 1 : Sorted(pairs[j].key, pairs[i].key, dir)
  /\ \A k \in P : \E i \in 1 .. Len(pairs) : pairs[i].key = k

\* No pairs list no keys.
LEMMA ListsNothing ==
  ASSUME NEW dir, NEW ts, NEW iso PROVE Lists(<<>>, {}, dir, ts, iso)
BY DEF Lists

\* The pairs with that of key k, and the keys with k.
Longer(pairs, k, ts, iso) == Append(pairs, Pair(k, getValue(k, ts, iso)))

Plus(P, k) == P \cup {k}

\* Pairs that list P list one key more with its pair at the end.
LEMMA ListsOneMore ==
  ASSUME NEW dir, NEW ts, NEW iso, NEW P, NEW pairs, Lists(pairs, P, dir, ts, iso),
         NEW k \in Key, \A l \in P : Sorted(l, k, dir)
  PROVE  /\ Lists(Longer(pairs, k, ts, iso), Plus(P, k), dir, ts, iso)
         /\ Len(Longer(pairs, k, ts, iso)) = Len(pairs) + 1
<1> DEFINE p == Pair(k, getValue(k, ts, iso))
           longer == Longer(pairs, k, ts, iso)
<1>0. longer = Append(pairs, p) BY DEF Longer
<1>1. p \in PairSet(ts, iso) /\ p.key = k BY DEF PairSet, Pair
<1>2. pairs \in Seq(PairSet(ts, iso)) BY Zenon DEF Lists
<1> HIDE DEF p
<1>3. /\ longer \in Seq(PairSet(ts, iso)) /\ Len(pairs) \in Nat
      /\ Len(longer) = Len(pairs) + 1
      /\ \A i \in 1 .. Len(pairs) : longer[i] = pairs[i]
      /\ longer[Len(pairs) + 1] = p
  BY <1>0, <1>1, <1>2
<1> HIDE DEF longer
<1>4. \A i \in 1 .. Len(longer) : i \in 1 .. Len(pairs) \/ i = Len(pairs) + 1 BY <1>3
<1>5. ASSUME NEW i \in 1 .. Len(longer)
      PROVE  /\ longer[i].key \in P \cup {k}
             /\ \A j \in 1 .. i - 1 : Sorted(longer[j].key, longer[i].key, dir)
  <2>1. CASE i \in 1 .. Len(pairs)
    <3>1. \A j \in 1 .. i - 1 : j \in 1 .. Len(pairs) BY <2>1, <1>3
    <3> QED BY <1>3, <2>1, <3>1, Zenon DEF Lists
  <2>2. CASE i = Len(pairs) + 1
    <3>1. \A j \in 1 .. i - 1 : j \in 1 .. Len(pairs) BY <2>2, <1>3
    <3>2. \A j \in 1 .. Len(pairs) : pairs[j].key \in P BY Zenon DEF Lists
    <3>3. longer[i].key = k BY <2>2, <1>1, <1>3, Zenon
    <3> QED BY <1>3, <3>1, <3>2, <3>3, Zenon
  <2> QED BY <1>4, <2>1, <2>2, Zenon
<1>6. ASSUME NEW l \in P \cup {k} PROVE \E i \in 1 .. Len(longer) : longer[i].key = l
  <2>1. CASE l \in P
    <3>1. PICK i \in 1 .. Len(pairs) : pairs[i].key = l BY <2>1, Zenon DEF Lists
    <3>2. i \in 1 .. Len(longer) BY <1>3
    <3> QED BY <1>3, <3>1, <3>2, Zenon
  <2>2. CASE l = k
    <3>1. Len(pairs) + 1 \in 1 .. Len(longer) BY <1>3
    <3> QED BY <1>1, <1>3, <2>2, <3>1, Zenon
  <2> QED BY <2>1, <2>2
<1>7. Lists(longer, P \cup {k}, dir, ts, iso) BY <1>3, <1>5, <1>6, Zenon DEF Lists
<1> QED BY <1>3, <1>7, Zenon DEF longer, Plus

\* What the scans have to return in the end.
AgreesSorted(pairs, answered, limit, ts, iso, dir) ==
  /\ Len(pairs) =< limit
  /\ \A i \in 1 .. Len(pairs) :
       /\ pairs[i].key \in answered
       /\ pairs[i].result = getValue(pairs[i].key, ts, iso)
       /\ \A j \in 1 .. i - 1 : Sorted(pairs[j].key, pairs[i].key, dir)
  /\ \A k \in answered :
       \/ \E i \in 1 .. Len(pairs) : pairs[i].key = k
       \/ Len(pairs) = limit /\ \A i \in 1 .. Len(pairs) : Sorted(pairs[i].key, k, dir)

\* Pairs that list the answered keys, or the first limit of them, are what a
\* scan should return.
LEMMA ListsAgree ==
  ASSUME NEW dir, NEW ts, NEW iso, NEW A, NEW P \in SUBSET A, NEW limit \in Nat,
         NEW pairs, Lists(pairs, P, dir, ts, iso), Len(pairs) =< limit,
         \A k \in A : k \notin P => Len(pairs) = limit /\ \A l \in P : Sorted(l, k, dir)
  PROVE  AgreesSorted(pairs, A, limit, ts, iso, dir)
<1>1. ASSUME NEW i \in 1 .. Len(pairs)
      PROVE  /\ pairs[i].key \in P
             /\ pairs[i].result = getValue(pairs[i].key, ts, iso)
  <2>1. pairs[i] \in PairSet(ts, iso) BY DEF Lists
  <2>2. PICK k \in Key : pairs[i] = Pair(k, getValue(k, ts, iso)) BY <2>1 DEF PairSet
  <2>3. pairs[i].key = k /\ pairs[i].result = getValue(k, ts, iso) BY <2>2 DEF Pair
  <2> QED BY <2>3, Zenon DEF Lists
<1>2. ASSUME NEW k \in A
      PROVE  \/ \E i \in 1 .. Len(pairs) : pairs[i].key = k
             \/ Len(pairs) = limit /\ \A i \in 1 .. Len(pairs) : Sorted(pairs[i].key, k, dir)
  BY <1>1, Zenon DEF Lists
<1>3. \A i \in 1 .. Len(pairs) : \A j \in 1 .. i - 1 : Sorted(pairs[j].key, pairs[i].key, dir)
  BY Zenon DEF Lists
<1> QED BY <1>1, <1>2, <1>3, Zenon DEF AgreesSorted

\* A key that a get answers has an entry.
LEMMA AnsweredHasEntry ==
  ASSUME IInv, NEW k \in Key, NEW ts, NEW iso, getValue(k, ts, iso) # NotFound
  PROVE  \E x \in Entries : x.key = k
<1> SUFFICES ASSUME \A x \in Entries : x.key # k PROVE FALSE OBVIOUS
<1>1. lock[k] = NoLock
  <2> SUFFICES ASSUME lock[k] # NoLock PROVE FALSE OBVIOUS
  <2>1. Entry(k, lockVer, lock[k]) \in Entries BY EntryFacts, Zenon
  <2>2. Entry(k, lockVer, lock[k]).key = k BY DEF Entry
  <2> QED BY <2>1, <2>2, Zenon
<1>2. \A w \in writes[k] : FALSE
  <2> SUFFICES ASSUME NEW w \in writes[k] PROVE FALSE OBVIOUS
  <2>1. Entry(k, w.commitTS, w) \in Entries BY EntryFacts, Zenon
  <2>2. Entry(k, w.commitTS, w).key = k BY DEF Entry
  <2> QED BY <2>1, <2>2, Zenon
<1>3. \A at : Visible(k, at) = {} BY <1>2, Zenon DEF Visible
<1> QED BY <1>1, <1>3, Zenon DEF getValue

--------------------------------------------------------------------------------
(* The loop of Scan *)

\* The state before the first iteration of Scan.
ScanStart(iter, currKey) == [iter |-> iter, currKey |-> currKey, ok |-> TRUE, pairs |-> <<>>]

\* The loop is what its iterations make of its start.
LEMMA ScanLoopSteps ==
  ASSUME NEW iter, NEW currKey, NEW limit, NEW ts, NEW iso
  PROVE  LET after == scanLoop(iter, currKey, limit, ts, iso)
         IN  /\ after[0] = ScanStart(iter, currKey)
             /\ \A n \in Nat : after[n + 1] = scanStep(after[n], limit, ts, iso)
<1> DEFINE a == ScanStart(iter, currKey)
           step(s) == scanStep(s, limit, ts, iso)
           Upto(g, n) == /\ g[0] = a
                         /\ \A i \in Nat : i < n => g[i + 1] = step(g[i])
           Run(f) == f = [n \in Nat |-> IF n = 0 THEN a ELSE step(f[n - 1])]
<1>1. scanLoop(iter, currKey, limit, ts, iso) = CHOOSE f : Run(f)
  BY DEF scanLoop, ScanStart
<1> HIDE DEF a, step
<1>2. \A n \in Nat : \E g : Upto(g, n)
  <2> DEFINE S == {n \in Nat : \E g : Upto(g, n)}
  <2>1. 0 \in S
    <3>1. Upto([i \in {0} |-> a], 0) OBVIOUS
    <3> QED BY <3>1
  <2>2. ASSUME NEW n \in Nat, n \in S PROVE n + 1 \in S
    <3>1. PICK g : Upto(g, n) BY <2>2
    <3> DEFINE h == [i \in Nat |-> IF i = n + 1 THEN step(g[n]) ELSE g[i]]
    <3>2. h[0] = a BY <3>1
    <3>3. ASSUME NEW i \in Nat, i < n + 1 PROVE h[i + 1] = step(h[i])
      <4>1. h[i] = g[i] BY <3>3
      <4>2. CASE i = n BY <4>1, <4>2
      <4>3. CASE i # n
        <5>1. i < n /\ h[i + 1] = g[i + 1] BY <3>3, <4>3
        <5>2. g[i + 1] = step(g[i]) BY <3>1, <5>1
        <5> QED BY <4>1, <5>1, <5>2
      <4> QED BY <4>2, <4>3
    <3>4. Upto(h, n + 1) BY <3>2, <3>3
    <3> HIDE DEF h, Upto
    <3> QED BY <3>4
  <2> HIDE DEF S
  <2>3. \A n \in Nat : n \in S BY <2>1, <2>2, Successors, Zenon
  <2> QED BY <2>3, Zenon DEF S
<1> DEFINE G(n) == CHOOSE g : Upto(g, n)
<1>3. \A n \in Nat : Upto(G(n), n)
  <2> HIDE DEF Upto
  <2> QED BY <1>2, Zenon
<1> HIDE DEF G
<1>4. ASSUME NEW n \in Nat PROVE G(n + 1)[n] = G(n)[n]
  <2> DEFINE S == {i \in Nat : i =< n => G(n + 1)[i] = G(n)[i]}
  <2>1. Upto(G(n + 1), n + 1) /\ Upto(G(n), n) BY <1>3
  <2>2. 0 \in S BY <2>1
  <2>3. ASSUME NEW i \in Nat, i \in S PROVE i + 1 \in S
    <3> SUFFICES ASSUME i + 1 =< n PROVE G(n + 1)[i + 1] = G(n)[i + 1] OBVIOUS
    <3>1. i < n /\ i < n + 1 OBVIOUS
    <3>2. G(n + 1)[i] = G(n)[i] BY <2>3, <3>1
    <3> QED BY <2>1, <3>1, <3>2
  <2> HIDE DEF S
  <2>4. n \in S BY <2>2, <2>3, Successors, Zenon
  <2> QED BY <2>4 DEF S
<1> DEFINE run == [n \in Nat |-> G(n)[n]]
<1>5. run[0] = a BY <1>3
<1>6. ASSUME NEW n \in Nat PROVE run[n + 1] = step(run[n])
  <2>1. Upto(G(n + 1), n + 1) BY <1>3
  <2>2. G(n + 1)[n + 1] = step(G(n + 1)[n]) BY <2>1
  <2> QED BY <2>2, <1>4
<1>7. Run(run)
  <2>1. ASSUME NEW n \in Nat PROVE run[n] = IF n = 0 THEN a ELSE step(run[n - 1])
    <3>1. CASE n = 0 BY <3>1, <1>5
    <3>2. CASE n # 0
      <4>1. n - 1 \in Nat /\ n - 1 + 1 = n BY <3>2
      <4> HIDE DEF run
      <4> QED BY <4>1, <3>2, <1>6
    <3> QED BY <3>1, <3>2
  <2> QED BY <2>1
<1> DEFINE after == CHOOSE f : Run(f)
<1>8. Run(after)
  <2> HIDE DEF Run, run
  <2> QED BY <1>7, Zenon
<1> HIDE DEF after
<1>9. after[0] = a BY <1>8
<1>10. ASSUME NEW n \in Nat PROVE after[n + 1] = step(after[n])
  <2>1. n + 1 \in Nat /\ n + 1 # 0 /\ n + 1 - 1 = n OBVIOUS
  <2> QED BY <2>1, <1>8
<1> QED BY <1>1, <1>9, <1>10, Zenon DEF after, a, step

\* After n iterations the pairs answer for the keys below the one the scan is
\* at, and the iterator has not passed the others.  The last conjunct counts
\* the iterations that are left.
Forward(s, n, b, e, limit, ts, iso) ==
  /\ s.ok \in BOOLEAN
  /\ Lists(s.pairs, {k \in Answered(b, e, ts, iso) : s.ok => k < s.currKey}, "up", ts, iso)
  /\ Len(s.pairs) =< limit
  /\ s.ok =>
       /\ s.currKey \in Nat
       /\ s.iter = AtOrAfter(b, e, s.currKey)
       /\ s.iter # {} => s.currKey \in Key /\ InRange(s.currKey, b, e)
       /\ Len(s.pairs) < limit =>
            /\ n > 0 => \E x \in s.iter : x.key = s.currKey
            /\ Cardinality(s.iter) + n =< Cardinality(newIterator(b, e)) + 1

\* An iterator meets entries of the keys of its range.
LEMMA RangeEntries ==
  ASSUME IInv, NEW b, NEW e
  PROVE  /\ newIterator(b, e) \in SUBSET Entries
         /\ \A x \in newIterator(b, e) : InRange(x.key, b, e) /\ x.key \in Key /\ x.key \in Nat
<1>1. newIterator(b, e) \in SUBSET Entries BY Zenon DEF newIterator
<1>2. \A x \in newIterator(b, e) : InRange(x.key, b, e) /\ x.key \in Key /\ x.key \in Nat
  BY EntryFacts, Zenon DEF newIterator
<1> QED BY <1>1, <1>2, Zenon

\* And finitely many.
LEMMA RangeFinite ==
  ASSUME IInv, NEW b, NEW e, NEW S \in SUBSET newIterator(b, e)
  PROVE  IsFiniteSet(S) /\ Cardinality(S) \in Nat
<1>1. S \in SUBSET Entries BY RangeEntries, Zenon
<1> QED BY <1>1, EntriesAreFinite, FS_Subset, FS_CardinalityType, Zenon

\* The iterator meets an entry of a key with an answer.
LEMMA RangeAnswered ==
  ASSUME IInv, NEW b, NEW e, NEW ts, NEW iso, NEW k \in Answered(b, e, ts, iso)
  PROVE  k \in Key /\ k \in Nat /\ \E x \in newIterator(b, e) : x.key = k
<1>1. k \in Key /\ InRange(k, b, e) /\ getValue(k, ts, iso) # NotFound BY Zenon DEF Answered
<1>2. \E x \in Entries : x.key = k BY <1>1, AnsweredHasEntry, Zenon
<1>3. k \in Nat BY <1>1, KeyAssumption
<1> QED BY <1>1, <1>2, <1>3, Zenon DEF newIterator

\* The loop invariant of Scan holds before the first iteration.
LEMMA ForwardInit ==
  ASSUME IInv, NEW b \in Bound, NEW e \in Bound, NEW limit \in Nat, NEW ts, NEW iso, NEW currKey,
         currKey = IF b = EmptyKey /\ newIterator(b, e) # {}
                   THEN First(newIterator(b, e)).key ELSE b
  PROVE  Forward(ScanStart(newIterator(b, e), currKey), 0, b, e, limit, ts, iso)
<1> DEFINE R == newIterator(b, e)
           A == Answered(b, e, ts, iso)
           s == ScanStart(R, currKey)
           P == {k \in A : s.ok => k < s.currKey}
<1>1. s.iter = R /\ s.currKey = currKey /\ s.ok = TRUE /\ s.pairs = <<>> BY DEF ScanStart
<1>2. b \in Nat /\ e \in Nat BY KeyAssumption DEF Bound, EmptyKey
<1>b. R \in SUBSET Entries /\ \A x \in R : x.key \in Key /\ x.key \in Nat /\ InRange(x.key, b, e)
  BY RangeEntries, Zenon
<1>3. currKey \in Nat /\ (\A x \in R : x.key >= currKey)
      /\ (R # {} => currKey \in Key /\ InRange(currKey, b, e))
  <2> HIDE DEF R
  <2>1. CASE b = EmptyKey /\ R # {}
    <3>1. /\ currKey = First(R).key /\ First(R) \in R
          /\ \A x \in R : x = First(R) \/ EncodedBefore(First(R), x)
      BY <1>b, <2>1, FirstIsFirst, Zenon DEF R
    <3>2. currKey \in Key /\ currKey \in Nat /\ InRange(currKey, b, e)
          /\ \A x \in R : x.key \in Nat
      BY <1>b, <3>1, Zenon
    <3> QED BY <3>1, <3>2 DEF EncodedBefore
  <2>2. CASE ~ (b = EmptyKey /\ R # {})
    <3>1. currKey = b BY <2>2, Zenon DEF R
    <3>2. \A x \in R : InRange(x.key, b, e) /\ x.key \in Nat BY <1>b, Zenon
    <3>3. R # {} => b \in Key BY <2>2, Zenon DEF Bound
    <3>4. R # {} => InRange(b, b, e)
      <4> SUFFICES ASSUME NEW x \in R PROVE InRange(b, b, e) OBVIOUS
      <4>1. e = EmptyKey \/ b < e
        <5>1. CASE e = EmptyKey BY <5>1
        <5>2. CASE e # EmptyKey
          <6>1. b =< x.key /\ x.key < e /\ x.key \in Nat BY <3>2, <5>2, Zenon DEF InRange
          <6> QED BY <1>2, <6>1
        <5> QED BY <5>1, <5>2
      <4> QED BY <1>2, <4>1 DEF InRange
    <3> QED BY <1>2, <3>1, <3>2, <3>3, <3>4, SMTT(30) DEF InRange
  <2> QED BY <2>1, <2>2, Zenon
<1>4. R = AtOrAfter(b, e, currKey) BY <1>3, Zenon DEF AtOrAfter
<1>5. P = {}
  <2> SUFFICES ASSUME NEW k \in A, k < currKey PROVE FALSE BY <1>1
  <2>1. k \in Nat /\ \E x \in R : x.key = k BY RangeAnswered, Zenon
  <2> HIDE DEF A, R
  <2> QED BY <1>3, <2>1, SMTT(30)
<1>6. Lists(s.pairs, P, "up", ts, iso)
  <2> HIDE DEF s, P
  <2> QED BY <1>1, <1>5, ListsNothing, Zenon
<1>7. Len(s.pairs) = 0 BY <1>1
<1>8. Cardinality(R) \in Nat BY RangeFinite, Zenon
<1> HIDE DEF s, R
<1>9. Cardinality(s.iter) + 0 =< Cardinality(R) + 1 BY <1>1, <1>8
<1>10. Len(s.pairs) =< limit /\ ~ (0 > 0) BY <1>7
<1>11. s.ok \in BOOLEAN BY <1>1, Zenon
<1> QED BY <1>1, <1>3, <1>4, <1>6, <1>9, <1>10, <1>11, Zenon DEF Forward, R, s

\* One iteration keeps it.
LEMMA ForwardStep ==
  ASSUME IInv, NEW b \in Bound, NEW e \in Bound, NEW limit \in Nat, NEW ts, NEW iso, NEW n \in Nat,
         NEW s, Forward(s, n, b, e, limit, ts, iso)
  PROVE  Forward(scanStep(s, limit, ts, iso), n + 1, b, e, limit, ts, iso)
<1> DEFINE R == newIterator(b, e)
           A == Answered(b, e, ts, iso)
           k == s.currKey
           got == getValueIter(s.iter, k, ts, iso)
           rest == skipDecoder(got.iter, k)
           t == scanStep(s, limit, ts, iso)
           P == {l \in A : s.ok => l < k}
<1>a. ASSUME NEW l \in A PROVE l \in Key /\ l \in Nat /\ \E x \in R : x.key = l
  BY RangeAnswered
<1>b. R \in SUBSET Entries /\ \A x \in R : x.key \in Key /\ x.key \in Nat /\ InRange(x.key, b, e)
  BY RangeEntries, Zenon
<1>c. \A S \in SUBSET R : IsFiniteSet(S) /\ Cardinality(S) \in Nat BY RangeFinite, Zenon
<1>d. /\ Lists(s.pairs, P, "up", ts, iso) /\ Len(s.pairs) =< limit /\ s.ok \in BOOLEAN
      /\ s.ok => /\ k \in Nat /\ s.iter = AtOrAfter(b, e, k)
                 /\ s.iter # {} => k \in Key /\ InRange(k, b, e)
                 /\ Len(s.pairs) < limit =>
                      /\ n > 0 => \E x \in s.iter : x.key = k
                      /\ Cardinality(s.iter) + n =< Cardinality(R) + 1
  BY Zenon DEF Forward
<1>e. Len(s.pairs) \in Nat BY <1>d DEF Lists
<1> HIDE DEF R, A
<1>1. CASE Len(s.pairs) >= limit \/ ~ s.ok
  <2>1. t = s BY <1>1, Zenon DEF scanStep
  <2>2. s.ok => ~ (Len(s.pairs) < limit) BY <1>1, <1>e
  <2> HIDE DEF t
  <2> QED BY <1>d, <2>1, <2>2, Zenon DEF Forward, A, R, t
<1>2. CASE Len(s.pairs) < limit /\ s.ok
  <2>1. t = [iter    |-> rest,
             currKey |-> IF rest = {} THEN k ELSE First(rest).key,
             ok      |-> rest # {},
             pairs   |-> IF got.result = NotFound THEN s.pairs
                         ELSE Append(s.pairs, Pair(k, got.result))]
    <3>1. ~ (Len(s.pairs) >= limit \/ ~ s.ok) BY <1>2, <1>e
    <3> QED BY <3>1, Zenon DEF scanStep
  <2>2. /\ t.iter = rest /\ t.currKey = IF rest = {} THEN k ELSE First(rest).key
        /\ t.ok = (rest # {})
        /\ t.pairs = IF got.result = NotFound THEN s.pairs
                     ELSE Append(s.pairs, Pair(k, got.result))
    <3> HIDE DEF t, rest, got, k
    <3> QED BY <2>1
  <2> HIDE DEF t
  <2>a. k \in Nat BY <1>2, <1>d, Zenon
  <2>3. s.iter \in SUBSET R /\ \A x \in R : x \in s.iter <=> x.key >= k
    BY <1>2, <1>d, Zenon DEF AtOrAfter, R
  <2>4. ASSUME s.iter = {}
        PROVE  rest = {} /\ got.result = NotFound
    <3>1. got.result = NotFound /\ got.iter = {} BY <2>4, Zenon DEF getValueIter, Versions
    <3> HIDE DEF got
    <3> QED BY <3>1, ZenonT(30) DEF skipDecoder, Versions
  <2>5. ASSUME s.iter # {}
        PROVE  /\ k \in Key /\ InRange(k, b, e)
               /\ got.result = getValue(k, ts, iso) /\ rest = Behind(b, e, k)
    <3>1. k \in Key /\ InRange(k, b, e) /\ s.iter = AtOrAfter(b, e, k) BY <1>2, <1>d, <2>5, ZenonT(30)
    <3> QED BY <3>1, GetOnIterator
  <2>6. \A x \in R : x \in rest <=> x.key > k
    <3>1. CASE s.iter = {}
      <4>1. \A x \in R : ~ (x.key > k) BY <1>2, <1>b, <1>d, <2>3, <3>1, SMTT(30)
      <4> HIDE DEF rest
      <4> QED BY <2>4, <3>1, <4>1, ZenonT(30)
    <3>2. CASE s.iter # {}
      <4> HIDE DEF rest
      <4> QED BY <2>5, <3>2, Zenon DEF Behind, R
    <3> QED BY <3>1, <3>2
  <2>7. rest \in SUBSET R
    <3>1. CASE s.iter = {} BY <2>4, <3>1, Zenon
    <3>2. CASE s.iter # {}
      <4> HIDE DEF rest
      <4> QED BY <2>5, <3>2, Zenon DEF Behind, R
    <3> QED BY <3>1, <3>2
  <2> HIDE DEF rest, got
  <2> DEFINE Q == {l \in A : t.ok => l < t.currKey}
  <2>8. ASSUME rest # {}
        PROVE  /\ First(rest) \in rest /\ t.currKey = First(rest).key
               /\ t.currKey \in Key /\ t.currKey \in Nat /\ InRange(t.currKey, b, e)
               /\ k < t.currKey /\ \A x \in rest : t.currKey =< x.key
    <3>1. rest \in SUBSET Entries BY <1>b, <2>7, Zenon
    <3>2. First(rest) \in rest /\ \A x \in rest : x = First(rest) \/ EncodedBefore(First(rest), x)
      BY <2>8, <3>1, FirstIsFirst, Zenon
    <3>3. t.currKey = First(rest).key BY <2>2, <2>8, Zenon
    <3>4. t.currKey \in Key /\ t.currKey \in Nat /\ InRange(t.currKey, b, e) /\ k < t.currKey
      <4>1. First(rest) \in R /\ First(rest).key > k BY <2>6, <2>7, <3>2, Zenon
      <4>2. t.currKey \in Key /\ t.currKey \in Nat /\ InRange(t.currKey, b, e)
        BY <1>b, <3>3, <4>1, Zenon
      <4> QED BY <1>2, <1>d, <3>3, <4>1, <4>2, SMTT(30)
    <3>5. \A x \in rest : x.key \in Nat BY <1>b, <2>7, Zenon
    <3>6. \A x \in rest : t.currKey =< x.key BY <3>2, <3>3, <3>4, <3>5, SMTT(30) DEF EncodedBefore
    <3> QED BY <3>2, <3>3, <3>4, <3>6, Zenon
  <2>9. ASSUME NEW l \in A PROVE l \in Q <=> l =< k
    <3>1. PICK x \in R : x.key = l BY <1>a, Zenon
    <3>2. l \in Nat /\ k \in Nat BY <1>2, <1>a, <1>d, Zenon
    <3>3. x \in rest <=> l > k BY <2>6, <3>1, Zenon
    <3>4. CASE rest = {}
      <4>1. ~ (l > k) BY <3>3, <3>4, Zenon
      <4>2. l \in Q BY <2>2, <3>4, Zenon
      <4> QED BY <3>2, <4>1, <4>2
    <3>5. CASE rest # {}
      <4>1. l \in Q <=> l < t.currKey BY <2>2, <3>5, Zenon
      <4>2. l > k => t.currKey =< l BY <2>8, <3>1, <3>3, <3>5, Zenon
      <4>3. k < t.currKey /\ t.currKey \in Nat BY <2>8, <3>5, Zenon
      <4> QED BY <3>2, <4>1, <4>2, <4>3
    <3> QED BY <3>4, <3>5
  <2>10. \A l \in P : l < k /\ Sorted(l, k, "up") BY <1>2 DEF Sorted
  <2>11. Lists(t.pairs, Q, "up", ts, iso) /\ Len(t.pairs) =< limit
    <3>1. \A l \in A : l \in P <=> l < k BY <1>2, Zenon
    <3>2. k \in A <=> s.iter # {} /\ got.result # NotFound
      <4>1. CASE s.iter = {}
        <5>1. k \notin A
          <6> SUFFICES ASSUME k \in A PROVE FALSE OBVIOUS
          <6>1. PICK x \in R : x.key = k BY <1>a, Zenon
          <6>2. x.key >= k BY <1>b, <6>1
          <6> QED BY <2>3, <4>1, <6>2, Zenon
        <5> QED BY <4>1, <5>1, Zenon
      <4>2. CASE s.iter # {} BY <2>5, <4>2, Zenon DEF Answered, A
      <4> QED BY <4>1, <4>2
    <3>3. CASE got.result = NotFound
      <4>1. t.pairs = s.pairs /\ k \notin A BY <2>2, <3>2, <3>3, ZenonT(30)
      <4>2. \A l \in A : l \in Q <=> l \in P
        <5> SUFFICES ASSUME NEW l \in A PROVE l \in Q <=> l \in P BY Zenon
        <5>1. l \in Nat /\ l # k /\ (l \in Q <=> l =< k) /\ (l \in P <=> l < k)
          BY <1>a, <2>9, <3>1, <4>1, Zenon
        <5> HIDE DEF Q, P, k
        <5> QED BY <2>a, <5>1
      <4>3. Q = P
        <5> HIDE DEF k
        <5> QED BY <4>2, Zenon
      <4> HIDE DEF Q, P
      <4> QED BY <1>d, <4>1, <4>3, Zenon
    <3>4. CASE got.result # NotFound
      <4>1. s.iter # {} BY <2>4, <3>4, Zenon
      <4>2. /\ t.pairs = Append(s.pairs, Pair(k, getValue(k, ts, iso)))
            /\ k \in A /\ k \in Key
        BY <2>2, <2>5, <3>2, <3>4, <4>1, ZenonT(30)
      <4>3. \A l \in A : l \in Q <=> l \in P \/ l = k
        <5> SUFFICES ASSUME NEW l \in A PROVE l \in Q <=> l \in P \/ l = k BY Zenon
        <5>1. l \in Nat /\ (l \in Q <=> l =< k) /\ (l \in P <=> l < k)
          BY <1>a, <2>9, <3>1, Zenon
        <5> HIDE DEF Q, P, k
        <5> QED BY <2>a, <5>1
      <4>4. Q = Plus(P, k) BY <4>2, <4>3, ZenonT(30) DEF Plus
      <4> HIDE DEF Q, P
      <4>5. Lists(t.pairs, Q, "up", ts, iso) /\ Len(t.pairs) = Len(s.pairs) + 1
        <5>1. /\ k \in Key /\ t.pairs = Longer(s.pairs, k, ts, iso)
              /\ Lists(s.pairs, P, "up", ts, iso) /\ \A l \in P : Sorted(l, k, "up")
          BY <1>d, <2>10, <4>2, Zenon DEF Longer
        <5> HIDE DEF k
        <5> QED BY <4>4, <5>1, ListsOneMore
      <4>6. Len(s.pairs) < limit BY <1>2, Zenon
      <4>7. Len(t.pairs) =< limit BY <1>e, <4>5, <4>6
      <4> QED BY <4>5, <4>7, Zenon
    <3> QED BY <3>3, <3>4
  <2>12. ASSUME t.ok
         PROVE  /\ t.currKey \in Nat /\ t.iter = AtOrAfter(b, e, t.currKey)
                /\ t.currKey \in Key /\ InRange(t.currKey, b, e)
                /\ \E x \in t.iter : x.key = t.currKey
                /\ Cardinality(t.iter) + (n + 1) =< Cardinality(R) + 1
    <3>1. rest # {} /\ t.iter = rest BY <2>2, <2>12, Zenon
    <3>2. \A x \in R : x \in rest <=> x.key >= t.currKey
      <4>1. \A x \in R : x.key >= t.currKey => x.key > k
        <5>1. (\A x \in R : x.key \in Nat) /\ t.currKey \in Nat /\ k < t.currKey
          BY <1>b, <2>8, <3>1, Zenon
        <5> QED BY <2>a, <5>1
      <4>2. \A x \in rest : x.key >= t.currKey BY <1>b, <2>7, <2>8, <3>1, SMTT(30)
      <4> QED BY <2>6, <4>1, <4>2, ZenonT(30)
    <3>3. rest = AtOrAfter(b, e, t.currKey) BY <2>7, <3>2, Zenon DEF AtOrAfter, R
    <3>4. rest \in SUBSET s.iter
      <4>1. \A x \in rest : x \in R /\ x.key > k BY <2>6, <2>7, ZenonT(30)
      <4>2. \A x \in rest : x.key >= k BY <1>2, <1>b, <1>d, <4>1, SMTT(30)
      <4> QED BY <2>3, <4>1, <4>2, Zenon
    <3>5. /\ IsFiniteSet(s.iter) /\ Cardinality(s.iter) \in Nat /\ Cardinality(rest) \in Nat
          /\ Cardinality(R) \in Nat /\ Cardinality(s.iter) =< Cardinality(R)
          /\ Cardinality(rest) =< Cardinality(s.iter)
      <4>1. R \in SUBSET R OBVIOUS
      <4> QED BY <1>c, <2>3, <2>7, <3>4, <4>1, FS_Subset, Zenon
    <3>6. Cardinality(rest) + (n + 1) =< Cardinality(R) + 1
      <4>1. CASE n = 0 BY <3>5, <4>1
      <4>2. CASE n > 0
        <5>1. PICK x \in s.iter : x.key = k BY <1>2, <1>d, <4>2, Zenon
        <5>2. x \in R /\ ~ (x.key > k) BY <1>b, <2>3, <5>1, SMTT(30)
        <5>3. rest # s.iter BY <2>6, <5>1, <5>2, Zenon
        <5>4. Cardinality(rest) # Cardinality(s.iter) BY <3>4, <3>5, <5>3, FS_Subset, Zenon
        <5>5. Cardinality(s.iter) + n =< Cardinality(R) + 1 BY <1>2, <1>d, Zenon
        <5> QED BY <3>5, <5>4, <5>5
      <4> QED BY <4>1, <4>2
    <3> QED BY <2>8, <3>1, <3>3, <3>6, Zenon
  <2>13. t.ok \in BOOLEAN BY <2>2
  <2> QED BY <2>11, <2>12, <2>13, Zenon DEF Forward, A, R, t
<1> QED BY <1>1, <1>2, <1>e, <1>d, SMTT(30)

\* A forward scan returns what gets return.
LEMMA ScanAgrees ==
  ASSUME IInv, NEW b \in Bound, NEW e \in Bound, NEW limit \in Nat, NEW ts, NEW iso
  PROVE  AgreesSorted(Scan(b, e, limit, ts, iso), Answered(b, e, ts, iso), limit, ts, iso, "up")
<1> DEFINE R == newIterator(b, e)
           A == Answered(b, e, ts, iso)
           from == IF b = EmptyKey /\ R # {} THEN First(R).key ELSE b
           after == scanLoop(R, from, limit, ts, iso)
           S == {n \in Nat : Forward(after[n], n, b, e, limit, ts, iso)}
           N == Cardinality(R) + 1
           s == after[N]
<1>1. after[0] = ScanStart(R, from) /\ \A n \in Nat : after[n + 1] = scanStep(after[n], limit, ts, iso)
  <2> HIDE DEF R, from
  <2> QED BY ScanLoopSteps
<1>2. 0 \in S
  <2> HIDE DEF after
  <2>1. Forward(ScanStart(R, from), 0, b, e, limit, ts, iso) BY ForwardInit, Zenon
  <2> HIDE DEF R, from
  <2> QED BY <1>1, <2>1
<1> HIDE DEF after, from
<1>3. \A n \in Nat : n \in S => n + 1 \in S
  <2> SUFFICES ASSUME NEW n \in Nat, n \in S PROVE n + 1 \in S OBVIOUS
  <2>1. Forward(scanStep(after[n], limit, ts, iso), n + 1, b, e, limit, ts, iso)
    BY ForwardStep, Zenon
  <2>2. n + 1 \in Nat OBVIOUS
  <2> QED BY <1>1, <2>1, <2>2, Zenon
<1>4. Cardinality(R) \in Nat BY RangeFinite, Zenon
<1>5. N \in Nat BY <1>4
<1>6. N \in S
  <2> HIDE DEF S, N
  <2> QED BY <1>2, <1>3, <1>5, Successors, Zenon
<1> DEFINE P == {k \in A : s.ok => k < s.currKey}
<1>7. /\ Lists(s.pairs, P, "up", ts, iso) /\ Len(s.pairs) =< limit
      /\ s.ok => /\ s.currKey \in Nat /\ s.iter = AtOrAfter(b, e, s.currKey)
                 /\ Len(s.pairs) < limit => /\ N > 0 => \E x \in s.iter : x.key = s.currKey
                                            /\ Cardinality(s.iter) + N =< Cardinality(R) + 1
  <2>1. Forward(s, N, b, e, limit, ts, iso) BY <1>6, Zenon
  <2> HIDE DEF s, N
  <2> QED BY <2>1, Zenon DEF Forward
<1>8. Scan(b, e, limit, ts, iso) = s.pairs BY Zenon DEF Scan, after, from
<1> HIDE DEF s
<1>9. Len(s.pairs) \in Nat BY <1>7 DEF Lists
<1>10. s.ok => Len(s.pairs) = limit
  <2> SUFFICES ASSUME s.ok, Len(s.pairs) # limit PROVE FALSE OBVIOUS
  <2>1. Len(s.pairs) < limit BY <1>7, <1>9, SMTT(30)
  <2>2. s.iter # {} /\ Cardinality(s.iter) + N =< Cardinality(R) + 1 BY <1>4, <1>7, <2>1
  <2>3. s.iter \in SUBSET R BY <1>7, Zenon DEF AtOrAfter
  <2>4. Cardinality(s.iter) \in Nat /\ Cardinality(s.iter) # 0
    BY <2>2, <2>3, RangeFinite, FS_EmptySet, Zenon
  <2> QED BY <1>4, <2>2, <2>4
<1>11. \A k \in A : k \notin P => Len(s.pairs) = limit /\ \A l \in P : Sorted(l, k, "up")
  <2>1. \A k \in A : k \in Nat BY RangeAnswered, Zenon
  <2> HIDE DEF A
  <2> QED BY <1>7, <1>10, <2>1 DEF Sorted
<1>12. P \in SUBSET A OBVIOUS
<1> HIDE DEF P
<1> QED BY <1>7, <1>8, <1>11, <1>12, ListsAgree, Zenon

--------------------------------------------------------------------------------
(* One entry of the backward scan *)

\* The values are those of W, oldest first.
Collected(values, W) ==
  /\ values \in Seq(mvccValue)
  /\ \A i \in 1 .. Len(values) :
       values[i] \in W /\ \A j \in 1 .. i - 1 : values[j].commitTS < values[i].commitTS
  /\ \A w \in W : \E i \in 1 .. Len(values) : values[i] = w

\* The values collected stay complete and in order with a newer one.
LEMMA CollectedOneMore ==
  ASSUME NEW W, NEW values, Collected(values, W), NEW w \in mvccValue,
         \A v \in W : v.commitTS < w.commitTS, NEW longer, longer = Append(values, w),
         NEW more, more = W \cup {w}
  PROVE  Collected(longer, more)
<1>1. values \in Seq(mvccValue) BY Zenon DEF Collected
<1>2. /\ longer \in Seq(mvccValue) /\ Len(values) \in Nat
      /\ Len(longer) = Len(values) + 1
      /\ \A i \in 1 .. Len(values) : longer[i] = values[i]
      /\ longer[Len(values) + 1] = w
  BY <1>1
<1>3. \A i \in 1 .. Len(longer) : i \in 1 .. Len(values) \/ i = Len(values) + 1 BY <1>2
<1>4. ASSUME NEW i \in 1 .. Len(longer)
      PROVE  /\ longer[i] \in W \cup {w}
             /\ \A j \in 1 .. i - 1 : longer[j].commitTS < longer[i].commitTS
  <2>1. CASE i \in 1 .. Len(values)
    <3>1. \A j \in 1 .. i - 1 : j \in 1 .. Len(values) BY <2>1, <1>2
    <3> QED BY <1>2, <2>1, <3>1, Zenon DEF Collected
  <2>2. CASE i = Len(values) + 1
    <3>1. \A j \in 1 .. i - 1 : j \in 1 .. Len(values) BY <2>2, <1>2
    <3>2. \A j \in 1 .. Len(values) : values[j] \in W BY Zenon DEF Collected
    <3>3. longer[i] = w BY <2>2, <1>2, Zenon
    <3> QED BY <1>2, <3>1, <3>2, <3>3, Zenon
  <2> QED BY <1>3, <2>1, <2>2, Zenon
<1>5. ASSUME NEW v \in W \cup {w} PROVE \E i \in 1 .. Len(longer) : longer[i] = v
  <2>1. CASE v \in W
    <3>1. PICK i \in 1 .. Len(values) : values[i] = v BY <2>1, Zenon DEF Collected
    <3>2. i \in 1 .. Len(longer) BY <1>2
    <3> QED BY <1>2, <3>1, <3>2, Zenon
  <2>2. CASE v = w
    <3>1. Len(values) + 1 \in 1 .. Len(longer) BY <1>2
    <3> QED BY <1>2, <2>2, <3>1, Zenon
  <2> QED BY <2>1, <2>2
<1> QED BY <1>2, <1>4, <1>5, Zenon DEF Collected

\* mvccEntry.Get finds in the values of a key, newest first, what a get finds;
\* where a get finds nothing its answer is no pair.
LEMMA GetOnEntry ==
  ASSUME IInv, PlainValues, NEW k \in Key, NEW values, Collected(values, writes[k]),
         NEW ts, NEW iso, NEW got, got = Get(lock[k], reverse(values), k, ts, iso)
  PROVE  IF got \in {NotFound, Found(EmptyValue)} THEN getValue(k, ts, iso) = NotFound
         ELSE got = getValue(k, ts, iso) /\ getValue(k, ts, iso) # NotFound
<1> DEFINE L == Len(values)
           r == reverse(values)
           checked == lock[k] # NoLock /\ iso = "SI"
           at == IF checked THEN CheckedTS(lock[k], ts) ELSE ts
           seen == {i \in 1 .. Len(r) : r[i].commitTS =< at /\ Committed(r[i])}
           first == CHOOSE i \in seen : \A j \in seen : i =< j
           V == Visible(k, at)
<1>1. L \in Nat /\ \A i \in 1 .. L : values[i] \in mvccValue BY DEF Collected
<1>2. /\ Len(r) = L
      /\ \A i \in 1 .. L : r[i] = values[L - i + 1] /\ L - i + 1 \in 1 .. L
  BY <1>1 DEF reverse
<1>3. got = IF checked /\ Blocks(lock[k], ts, k) THEN Locked(k)
            ELSE IF seen = {} THEN NotFound
            ELSE Found(r[first].value)
  <2> HIDE DEF r
  <2> DEFINE checked2 == iso = "SI" /\ lock[k] # NoLock
             at2 == IF checked2 THEN CheckedTS(lock[k], ts) ELSE ts
             seen2 == {i \in 1 .. Len(r) : r[i].commitTS =< at2 /\ Committed(r[i])}
  <2>1. got = IF checked2 /\ Blocks(lock[k], ts, k) THEN Locked(k)
              ELSE IF seen2 = {} THEN NotFound
              ELSE Found(r[CHOOSE i \in seen2 : \A j \in seen2 : i =< j].value)
    BY Zenon DEF Get, r
  <2>2. checked2 <=> checked OBVIOUS
  <2>3. at2 = at BY <2>2, Zenon
  <2> HIDE DEF at2, at
  <2>4. seen2 = seen BY <2>3, Zenon
  <2> HIDE DEF seen2, seen, checked2, checked
  <2> QED BY <2>1, <2>2, <2>4, Zenon
<1>4. getValue(k, ts, iso) = IF checked /\ Blocks(lock[k], ts, k) THEN Locked(k)
                             ELSE IF V = {} \/ Newest(V).valueType = "Delete" THEN NotFound
                             ELSE Found(Newest(V).value)
  BY Zenon DEF getValue
<1> HIDE DEF checked, at, r, L
<1>5. \A i \in seen : i \in 1 .. L /\ r[i] \in V
  <2>1. \A i \in 1 .. L : r[i] \in writes[k] BY <1>2, Zenon DEF Collected, L
  <2> QED BY <1>2, <2>1, Zenon DEF Visible
<1>6. ASSUME NEW w \in V PROVE \E i \in seen : r[i] = w
  <2>1. w \in writes[k] /\ Committed(w) /\ w.commitTS =< at BY Zenon DEF Visible
  <2>2. PICK j \in 1 .. L : values[j] = w BY <2>1, Zenon DEF Collected, L
  <2>3. L - j + 1 \in 1 .. L /\ L - (L - j + 1) + 1 = j BY <1>1, SMTT(30)
  <2>4. r[L - j + 1] = w BY <1>2, <2>2, <2>3
  <2> QED BY <1>2, <2>1, <2>3, <2>4, Zenon
<1> HIDE DEF V, seen
<1>7. ASSUME seen # {} PROVE V # {} /\ r[first] = Newest(V)
  <2>1. first \in seen /\ \A j \in seen : first =< j
    <3>1. \A i \in seen : i \in Nat BY <1>1, <1>5
    <3>2. \E i \in seen : \A j \in seen : i =< j BY <1>7, <3>1, Smallest, Zenon
    <3> QED BY <3>2, Zenon
  <2> HIDE DEF first
  <2>2. \A i \in 1 .. L : r[i].commitTS \in Nat
    <3>1. \A v \in mvccValue : v.commitTS \in Nat BY DEF mvccValue, Uint64
    <3> QED BY <1>1, <1>2, <3>1, Zenon
  <2>3. ASSUME NEW i \in 1 .. L, NEW j \in 1 .. L, i < j
        PROVE  r[j].commitTS < r[i].commitTS
    <3>1. L - j + 1 \in 1 .. (L - i + 1) - 1 BY <1>1, <2>3
    <3>2. values[L - j + 1].commitTS < values[L - i + 1].commitTS
      BY <1>2, <3>1, Zenon DEF Collected, L
    <3> QED BY <1>2, <3>2, Zenon
  <2>4. \A w \in V : w.commitTS =< r[first].commitTS
    <3> SUFFICES ASSUME NEW w \in V PROVE w.commitTS =< r[first].commitTS OBVIOUS
    <3>1. PICK i \in seen : r[i] = w BY <1>6, Zenon
    <3>2. i \in 1 .. L /\ first \in 1 .. L /\ first =< i BY <1>5, <2>1, <3>1, Zenon
    <3>3. CASE i = first BY <2>2, <3>1, <3>2, <3>3, SMTT(30)
    <3>4. CASE first < i BY <2>2, <2>3, <3>1, <3>2, <3>4, SMTT(30)
    <3> QED BY <1>1, <3>2, <3>3, <3>4, SMTT(30)
  <2>5. r[first] \in V BY <1>5, <2>1, Zenon
  <2> DEFINE w == Newest(V)
  <2>6. w \in V /\ \A x \in V : x.commitTS =< w.commitTS BY <2>4, <2>5, Zenon DEF Newest
  <2> HIDE DEF w
  <2>7. PICK i \in seen : r[i] = w BY <1>6, <2>6, Zenon
  <2>8. i \in 1 .. L /\ first \in 1 .. L /\ first =< i BY <1>5, <2>1, <2>7, Zenon
  <2>9. ~ (first < i)
    <3>1. r[first].commitTS =< r[i].commitTS BY <2>5, <2>6, <2>7, Zenon
    <3> QED BY <2>2, <2>3, <2>8, <3>1, SMTT(30)
  <2>10. i = first BY <1>1, <2>8, <2>9
  <2> QED BY <2>5, <2>7, <2>10, Zenon DEF w
<1>8. seen = {} => V = {} BY <1>6, Zenon
<1> HIDE DEF first
<1>9. CASE checked /\ Blocks(lock[k], ts, k)
  <2>1. got = Locked(k) /\ getValue(k, ts, iso) = Locked(k) BY <1>3, <1>4, <1>9, Zenon
  <2>2. Locked(k) # NotFound /\ Locked(k) # Found(EmptyValue)
    <3>1. Locked(k).kind = "locked" /\ NotFound.kind = "notfound" /\ Found(EmptyValue).kind = "value"
      BY DEF Locked, NotFound, Found
    <3>2. "locked" # "notfound" /\ "locked" # "value" OBVIOUS
    <3> QED BY <3>1, <3>2, ZenonT(30)
  <2> QED BY <2>1, <2>2, Zenon
<1>10. CASE ~ (checked /\ Blocks(lock[k], ts, k)) /\ seen = {}
  BY <1>3, <1>4, <1>8, <1>10, Zenon
<1>11. CASE ~ (checked /\ Blocks(lock[k], ts, k)) /\ seen # {}
  <2> DEFINE w == Newest(V)
  <2>1. /\ V # {} /\ got = Found(w.value)
        /\ getValue(k, ts, iso) = IF w.valueType = "Delete" THEN NotFound ELSE Found(w.value)
    BY <1>3, <1>4, <1>7, <1>11, Zenon
  <2>2. w \in writes[k] /\ Committed(w) /\ w \in mvccValue
    <3>1. first \in seen
      <4>1. \A i \in seen : i \in Nat BY <1>1, <1>5
      <4>2. \E i \in seen : \A j \in seen : i =< j BY <1>11, <4>1, Smallest, Zenon
      <4> QED BY <4>2, Zenon DEF first
    <3>2. w \in V BY <1>5, <1>7, <1>11, <3>1, Zenon
    <3>3. w \in writes[k] /\ Committed(w) BY <3>2, Zenon DEF V, Visible
    <3>4. writes[k] \in SUBSET mvccValue BY DEF IInv, DBTypeOK
    <3> QED BY <3>3, <3>4, Zenon
  <2> HIDE DEF w
  <2>3. w.valueType = "Put" <=> w.value # EmptyValue BY <2>2, Zenon DEF PlainValues
  <2>4. w.valueType = "Put" \/ w.valueType = "Delete" BY <2>2 DEF mvccValue, Committed
  <2>5. Found(w.value) = Found(EmptyValue) <=> w.value = EmptyValue BY DEF Found
  <2>6. Found(w.value) # NotFound
    <3>1. Found(w.value).kind = "value" /\ NotFound.kind = "notfound" BY DEF Found, NotFound
    <3>2. "value" # "notfound" OBVIOUS
    <3> QED BY <3>1, <3>2, ZenonT(30)
  <2>7. CASE w.value = EmptyValue
    <3>1. w.valueType = "Delete" BY <2>3, <2>4, <2>7, Zenon
    <3> QED BY <2>1, <2>5, <2>7, <3>1, Zenon
  <2>8. CASE w.value # EmptyValue
    <3>1. w.valueType # "Delete"
      <4>1. "Put" # "Delete" BY SMTT(30)
      <4> QED BY <2>3, <2>8, <4>1, Zenon
    <3> QED BY <2>1, <2>5, <2>6, <2>8, <3>1, Zenon
  <2> QED BY <2>7, <2>8, Zenon
<1> QED BY <1>9, <1>10, <1>11, Zenon

\* finishEntry adds the pair of the key, if a get answers for it.
LEMMA FinishAddsPair ==
  ASSUME IInv, PlainValues, NEW b, NEW e, NEW ts, NEW iso, NEW P, NEW h,
         Lists(h.pairs, P, "down", ts, iso), \A l \in P : l > h.currKey,
         h.currKey \in Key, InRange(h.currKey, b, e),
         h.lock = lock[h.currKey], Collected(h.values, writes[h.currKey]),
         NEW pairs, pairs = finishEntry(h, ts, iso),
         NEW Q, Q = P \cup (Answered(b, e, ts, iso) \cap {h.currKey})
  PROVE  Lists(pairs, Q, "down", ts, iso) /\ Len(pairs) =< Len(h.pairs) + 1
<1> DEFINE k == h.currKey
           A == Answered(b, e, ts, iso)
           got == Get(h.lock, reverse(h.values), k, ts, iso)
<1>0. Q = P \cup (A \cap {k}) OBVIOUS
<1>1. pairs = IF got \in {NotFound, Found(EmptyValue)} THEN h.pairs
              ELSE Append(h.pairs, Pair(k, got))
  BY ZenonT(30) DEF finishEntry
<1>2. IF got \in {NotFound, Found(EmptyValue)} THEN getValue(k, ts, iso) = NotFound
      ELSE got = getValue(k, ts, iso) /\ getValue(k, ts, iso) # NotFound
  BY GetOnEntry, SMTT(30)
<1>3. Len(h.pairs) \in Nat BY DEF Lists
<1>4. k \in A <=> getValue(k, ts, iso) # NotFound BY Zenon DEF Answered
<1> HIDE DEF got, A, k
<1>5. CASE got \in {NotFound, Found(EmptyValue)}
  <2>1. pairs = h.pairs /\ k \notin A BY <1>1, <1>2, <1>4, <1>5, Zenon
  <2>2. Q = P BY <1>0, <2>1, Zenon
  <2>3. Len(h.pairs) =< Len(h.pairs) + 1 BY <1>3
  <2> QED BY <2>1, <2>2, <2>3, Zenon
<1>6. CASE got \notin {NotFound, Found(EmptyValue)}
  <2>1. pairs = Longer(h.pairs, k, ts, iso) /\ k \in A
    BY <1>1, <1>2, <1>4, <1>6, Zenon DEF Longer
  <2>2. Q = Plus(P, k) BY <1>0, <2>1, Zenon DEF Plus
  <2>3. \A l \in P : Sorted(l, k, "down") BY Zenon DEF Sorted, k
  <2>4. k \in Key BY Zenon DEF k
  <2>5. Lists(pairs, Q, "down", ts, iso) /\ Len(pairs) = Len(h.pairs) + 1
    <3>1. Lists(h.pairs, P, "down", ts, iso) BY Zenon
    <3>2. /\ Lists(Longer(h.pairs, k, ts, iso), Plus(P, k), "down", ts, iso)
          /\ Len(Longer(h.pairs, k, ts, iso)) = Len(h.pairs) + 1
      BY <2>3, <2>4, <3>1, ListsOneMore, SMTT(30)
    <3> QED BY <2>1, <2>2, <3>2, Zenon
  <2>6. Len(pairs) =< Len(h.pairs) + 1 BY <1>3, <2>5
  <2> QED BY <2>5, <2>6, Zenon
<1> QED BY <1>5, <1>6, Zenon

\* An entry without lock and values adds no pair.
LEMMA FinishNothing ==
  ASSUME NEW h, h.lock = NoLock, h.values = <<>>, NEW ts, NEW iso
  PROVE  finishEntry(h, ts, iso) = h.pairs
<1>1. Len(reverse(h.values)) = 0 BY DEF reverse
<1>2. {i \in 1 .. Len(reverse(h.values)) :
         reverse(h.values)[i].commitTS =< ts /\ Committed(reverse(h.values)[i])} = {}
  BY <1>1
<1>3. Get(h.lock, reverse(h.values), h.currKey, ts, iso) = NotFound BY <1>2, Zenon DEF Get
<1> QED BY <1>3, Zenon DEF finishEntry

--------------------------------------------------------------------------------
(* The loop of ReverseScan *)

\* The entries the iterator has passed.
Passed(h, e) == newIterator(EmptyKey, e) \ h.iter

\* What the iterator has passed of the values of key k.
ValuesPassed(h, e, k) ==
  {x.value : x \in {y \in Passed(h, e) : y.key = k /\ y.ver # lockVer}}

\* And of its lock.
LockPassed(h, e, k) ==
  IF \E x \in Passed(h, e) : x.key = k /\ x.ver = lockVer THEN lock[k] ELSE NoLock

\* After n iterations the pairs answer for the keys above the one the helper
\* collects, and the helper has what was passed of that key.  The last
\* conjunct counts the iterations that are left.
Backward(h, n, b, e, limit, ts, iso) ==
  /\ h.iter \in SUBSET newIterator(EmptyKey, e)
  /\ h.currKey \in Nat
  /\ newIterator(EmptyKey, e) # {} => h.currKey \in Key /\ InRange(h.currKey, EmptyKey, e)
  /\ \A x \in h.iter : x.key =< h.currKey /\ \A y \in Passed(h, e) : EncodedBefore(x, y)
  /\ \A x \in Passed(h, e) : x.key >= h.currKey /\ x.key >= b
  /\ Collected(h.values, ValuesPassed(h, e, h.currKey))
  /\ h.lock = LockPassed(h, e, h.currKey)
  /\ Lists(h.pairs, {k \in Answered(b, e, ts, iso) : k > h.currKey}, "down", ts, iso)
  /\ Len(h.pairs) =< limit
  /\ Len(h.pairs) < limit /\ ~ ReverseOver(h, b) =>
       Cardinality(h.iter) + n =< Cardinality(newIterator(EmptyKey, e))

\* A key with an answer is in the range and the iterator meets its entries.
LEMMA AnsweredIsMet ==
  ASSUME IInv, NEW b \in Bound, NEW e \in Bound, NEW ts, NEW iso, NEW k \in Answered(b, e, ts, iso)
  PROVE  k \in Nat /\ b =< k /\ \E x \in newIterator(EmptyKey, e) : x.key = k
<1>1. k \in Nat /\ \E x \in newIterator(b, e) : x.key = k BY RangeAnswered
<1>2. PICK x \in newIterator(b, e) : x.key = k BY <1>1, Zenon
<1>3. x \in Entries /\ InRange(k, b, e) BY <1>2, Zenon DEF newIterator
<1>4. b =< k BY <1>3, Zenon DEF InRange
<1>5. InRange(k, EmptyKey, e) BY <1>1, <1>3 DEF InRange, EmptyKey
<1> QED BY <1>1, <1>2, <1>3, <1>4, <1>5, Zenon DEF newIterator

\* The loop invariant of ReverseScan holds before the first iteration.
LEMMA BackwardInit ==
  ASSUME IInv, NEW b \in Bound, NEW e \in Bound, NEW limit \in Nat, NEW ts, NEW iso, NEW h,
         h.iter = newIterator(EmptyKey, e),
         h.currKey = IF h.iter = {} THEN EmptyKey ELSE Last(h.iter).key,
         h.lock = NoLock, h.values = <<>>, h.pairs = <<>>
  PROVE  Backward(h, 0, b, e, limit, ts, iso)
<1> DEFINE R == newIterator(EmptyKey, e)
           A == Answered(b, e, ts, iso)
           P == {k \in A : k > h.currKey}
<1>1. R \in SUBSET Entries /\ \A x \in R : x.key \in Key /\ x.key \in Nat /\ InRange(x.key, EmptyKey, e)
  BY RangeEntries, Zenon
<1>2. Passed(h, e) = {} BY Zenon DEF Passed
<1>3. /\ h.currKey \in Nat /\ (R # {} => h.currKey \in Key /\ InRange(h.currKey, EmptyKey, e))
      /\ \A x \in R : x.key =< h.currKey
  <2>1. CASE R = {} BY <2>1 DEF EmptyKey
  <2>2. CASE R # {}
    <3> HIDE DEF R
    <3>1. /\ h.currKey = Last(R).key /\ Last(R) \in R
          /\ \A x \in R : x = Last(R) \/ EncodedBefore(x, Last(R))
      BY <1>1, <2>2, LastIsLast, Zenon DEF R
    <3>2. h.currKey \in Key /\ h.currKey \in Nat /\ InRange(h.currKey, EmptyKey, e)
      BY <1>1, <3>1, Zenon
    <3>3. \A x \in R : x.key =< h.currKey BY <1>1, <3>1, <3>2, SMTT(30) DEF EncodedBefore
    <3> QED BY <3>2, <3>3, Zenon
  <2> QED BY <2>1, <2>2, Zenon
<1>4. P = {}
  <2> SUFFICES ASSUME NEW k \in A, k > h.currKey PROVE FALSE BY Zenon
  <2>1. k \in Nat /\ \E x \in R : x.key = k BY AnsweredIsMet
  <2> HIDE DEF A, R
  <2> QED BY <1>3, <2>1
<1>5. Lists(h.pairs, P, "down", ts, iso)
  <2> HIDE DEF P
  <2> QED BY <1>4, ListsNothing, Zenon
<1>6. ValuesPassed(h, e, h.currKey) = {} BY <1>2, Zenon DEF ValuesPassed
<1>7. Collected(h.values, {}) BY DEF Collected
<1>8. h.lock = LockPassed(h, e, h.currKey) BY <1>2, Zenon DEF LockPassed
<1>9. Len(h.pairs) =< limit OBVIOUS
<1>10. Cardinality(R) \in Nat BY RangeFinite, Zenon
<1> HIDE DEF R
<1>11. Cardinality(R) + 0 =< Cardinality(R) BY <1>10
<1> QED BY <1>2, <1>3, <1>5, <1>6, <1>7, <1>8, <1>9, <1>11, Zenon DEF Backward, R

\* When the iterator has left a key, its entry is complete.
LEMMA BackwardFinish ==
  ASSUME IInv, PlainValues, NEW b \in Bound, NEW e \in Bound, NEW limit, NEW ts, NEW iso, NEW n, NEW h,
         Backward(h, n, b, e, limit, ts, iso),
         h.currKey \in Key, InRange(h.currKey, b, e), \A x \in h.iter : x.key # h.currKey,
         NEW pairs, pairs = finishEntry(h, ts, iso),
         NEW Q, Q = {k \in Answered(b, e, ts, iso) : k >= h.currKey}
  PROVE  Lists(pairs, Q, "down", ts, iso) /\ Len(pairs) =< Len(h.pairs) + 1
<1> DEFINE A == Answered(b, e, ts, iso)
           c == h.currKey
           P == {k \in A : k > c}
<1>0. c \in Nat BY KeyAssumption, Zenon
<1>1. ASSUME NEW x \in Entries, x.key = c PROVE x \in Passed(h, e)
  <2>1. InRange(c, EmptyKey, e) BY <1>0 DEF InRange, EmptyKey
  <2> QED BY <1>1, <2>1, Zenon DEF Passed, newIterator
<1>2. \A x \in Passed(h, e) : x \in Entries BY Zenon DEF Passed, newIterator
<1>3. ValuesPassed(h, e, c) = writes[c]
  <2>1. ASSUME NEW w \in writes[c] PROVE w \in ValuesPassed(h, e, c)
    <3> DEFINE x == Entry(c, w.commitTS, w)
    <3>1. x \in Entries /\ w.commitTS \in Uint64 /\ w.commitTS < lockVer BY EntryFacts, ZenonT(30)
    <3>2. x.key = c /\ x.ver = w.commitTS /\ x.value = w BY Zenon DEF Entry
    <3>3. w.commitTS # lockVer BY <3>1, WordAssumption DEF Uint64, lockVer
    <3> HIDE DEF x
    <3> QED BY <1>1, <3>1, <3>2, <3>3, SMTT(30) DEF ValuesPassed
  <2>2. ASSUME NEW w \in ValuesPassed(h, e, c) PROVE w \in writes[c]
    <3>1. PICK x \in Passed(h, e) : x.key = c /\ x.ver # lockVer /\ w = x.value
      BY SMTT(30) DEF ValuesPassed
    <3> QED BY <1>2, <3>1, EntryFacts, ZenonT(30)
  <2> QED BY <2>1, <2>2, ZenonT(30)
<1>4. h.lock = lock[c]
  <2>1. h.lock = LockPassed(h, e, c) BY Zenon DEF Backward
  <2>2. CASE lock[c] = NoLock BY <2>1, <2>2, Zenon DEF LockPassed
  <2>3. CASE lock[c] # NoLock
    <3> DEFINE x == Entry(c, lockVer, lock[c])
    <3>1. x \in Entries BY <2>3, EntryFacts, ZenonT(30)
    <3>2. x.key = c /\ x.ver = lockVer BY DEF Entry
    <3> HIDE DEF x
    <3> QED BY <1>1, <2>1, <3>1, <3>2, Zenon DEF LockPassed
  <2> QED BY <2>2, <2>3
<1>5. Collected(h.values, writes[c]) /\ Lists(h.pairs, P, "down", ts, iso)
  BY <1>3, Zenon DEF Backward
<1>6. Q = P \cup (A \cap {c})
  <2>1. \A k \in A : k \in Nat BY AnsweredIsMet, ZenonT(30)
  <2>2. \A k \in A : k >= c <=> k > c \/ k = c
    <3> HIDE DEF A
    <3> QED BY <1>0, <2>1, SMTT(30)
  <2> QED BY <2>2, Zenon
<1>7. \A l \in P : l > c BY Zenon
<1> HIDE DEF P
<1> QED BY <1>4, <1>5, <1>6, <1>7, FinishAddsPair, Zenon

\* An iteration of ReverseScan keeps its loop invariant.
LEMMA BackwardStep ==
  ASSUME IInv, PlainValues, NEW b \in Bound, NEW e \in Bound, NEW limit \in Nat, NEW ts, NEW iso,
         NEW n \in Nat, NEW h, Backward(h, n, b, e, limit, ts, iso)
  PROVE  Backward(reverseStep(h, b, limit, ts, iso), n + 1, b, e, limit, ts, iso)
<1> DEFINE R == newIterator(EmptyKey, e)
           A == Answered(b, e, ts, iso)
           c == h.currKey
           x0 == Last(h.iter)
           same == x0.key = c
           lck == IF same THEN h.lock ELSE NoLock
           vals == IF same THEN h.values ELSE <<>>
           t == reverseStep(h, b, limit, ts, iso)
<1>a. ASSUME NEW k \in A PROVE k \in Nat /\ b =< k /\ \E x \in R : x.key = k
  BY AnsweredIsMet
<1>b. R \in SUBSET Entries /\ \A x \in R : x.key \in Key /\ x.key \in Nat /\ InRange(x.key, EmptyKey, e)
  BY RangeEntries, Zenon
<1>c. /\ h.iter \in SUBSET R /\ c \in Nat
      /\ R # {} => c \in Key /\ InRange(c, EmptyKey, e)
      /\ \A x \in h.iter : x.key =< c /\ \A y \in Passed(h, e) : EncodedBefore(x, y)
      /\ \A x \in Passed(h, e) : x.key >= c /\ x.key >= b
      /\ Collected(h.values, ValuesPassed(h, e, c))
      /\ h.lock = LockPassed(h, e, c)
      /\ Lists(h.pairs, {k \in A : k > c}, "down", ts, iso)
      /\ Len(h.pairs) =< limit
      /\ Len(h.pairs) < limit /\ ~ ReverseOver(h, b) => Cardinality(h.iter) + n =< Cardinality(R)
  BY Zenon DEF Backward
<1>d. Len(h.pairs) \in Nat
  <2>1. h.pairs \in Seq(PairSet(ts, iso)) BY <1>c, Zenon DEF Lists
  <2> QED BY <2>1
<1>e. b \in Nat /\ c \in Nat
  <2>1. b \in Nat BY KeyAssumption DEF Bound, EmptyKey
  <2> QED BY <1>c, <2>1, Zenon
<1>f. \A x \in Entries : x.key \in Nat /\ x.ver \in Nat
  <2>1. \A x \in Entries : x.key \in Nat /\ x.ver \in Uint64 BY EntryFacts, Zenon
  <2> QED BY <2>1 DEF Uint64
<1>1. CASE Len(h.pairs) >= limit \/ ReverseOver(h, b)
  <2>1. t = h BY <1>1, Zenon DEF reverseStep
  <2>2. ~ (Len(h.pairs) < limit /\ ~ ReverseOver(h, b)) BY <1>1, <1>d
  <2> HIDE DEF t
  <2> QED BY <1>c, <2>1, <2>2, Zenon DEF Backward, t
<1>2. CASE Len(h.pairs) < limit /\ ~ ReverseOver(h, b)
  <2>0. ~ (Len(h.pairs) >= limit \/ ReverseOver(h, b)) BY <1>2, <1>d
  <2>1. t = [iter    |-> h.iter \ {x0},
             currKey |-> x0.key,
             lock    |-> IF x0.ver = lockVer THEN x0.value ELSE lck,
             values  |-> IF x0.ver = lockVer THEN vals ELSE Append(vals, x0.value),
             pairs   |-> IF same THEN h.pairs ELSE finishEntry(h, ts, iso)]
    BY <2>0, ZenonT(30) DEF reverseStep
  <2>2. /\ t.iter = h.iter \ {x0} /\ t.currKey = x0.key
        /\ t.lock = IF x0.ver = lockVer THEN x0.value ELSE lck
        /\ t.values = IF x0.ver = lockVer THEN vals ELSE Append(vals, x0.value)
        /\ t.pairs = IF same THEN h.pairs ELSE finishEntry(h, ts, iso)
    <3> HIDE DEF t, x0, same, lck, vals
    <3> QED BY <2>1
  <2> HIDE DEF t
  <2>3. /\ h.iter # {} /\ x0 \in h.iter /\ x0 \in R /\ x0 \in Entries
        /\ \A x \in h.iter : x = x0 \/ EncodedBefore(x, x0)
    <3>1. h.iter # {} BY <1>2, Zenon DEF ReverseOver
    <3>2. h.iter \in SUBSET Entries BY <1>b, <1>c, Zenon
    <3> QED BY <1>b, <1>c, <3>1, <3>2, LastIsLast, Zenon
  <2>4. ~ (x0.key < b) BY <1>2, <2>3, Zenon DEF ReverseOver
  <2> HIDE DEF x0
  <2>5. /\ x0.key \in Nat /\ x0.key >= b /\ x0.key =< c /\ x0.key \in Key
        /\ InRange(x0.key, EmptyKey, e)
    <3>1. x0.key \in Nat /\ x0.key \in Key /\ x0.key =< c /\ InRange(x0.key, EmptyKey, e)
      BY <1>b, <1>c, <2>3, ZenonT(30)
    <3> QED BY <1>e, <2>4, <3>1
  <2>6. \A x \in h.iter : x.key =< x0.key
    <3>1. \A x \in h.iter : x.key \in Nat BY <1>b, <1>c, Zenon
    <3> QED BY <2>3, <2>5, <3>1 DEF EncodedBefore
  <2>7. Passed(t, e) = Passed(h, e) \cup {x0} BY <1>c, <2>2, <2>3, Zenon DEF Passed, R
  <2>8. \A x \in Passed(h, e) : x \in R /\ x \in Entries BY <1>b, ZenonT(30) DEF Passed
  <2>9. ASSUME NEW x \in Passed(h, e)
        PROVE  x.key >= x0.key /\ (x.key = x0.key => x.ver < x0.ver)
    <3>1. EncodedBefore(x0, x) /\ x \in Entries BY <1>c, <2>3, <2>8, Zenon
    <3> QED BY <1>f, <2>3, <3>1 DEF EncodedBefore
  <2>10. /\ Collected(vals, ValuesPassed(h, e, x0.key)) /\ lck = LockPassed(h, e, x0.key)
         /\ Lists(t.pairs, {k \in A : k > x0.key}, "down", ts, iso) /\ Len(t.pairs) =< limit
    <3>1. CASE same
      <4>1. vals = h.values /\ lck = h.lock /\ t.pairs = h.pairs /\ x0.key = c
        BY <2>2, <3>1, Zenon
      <4> HIDE DEF vals, lck, same
      <4> QED BY <1>c, <4>1, Zenon
    <3>2. CASE ~ same
      <4>1. vals = <<>> /\ lck = NoLock /\ t.pairs = finishEntry(h, ts, iso)
        BY <2>2, <3>2, ZenonT(30)
      <4>a. x0.key \in Nat /\ x0.key >= b /\ x0.key =< c /\ x0.key # c BY <2>5, <3>2, Zenon
      <4>2. x0.key < c BY <1>e, <4>a
      <4>3. ASSUME NEW x \in Passed(h, e) PROVE x.key # x0.key
        <5>1. x.key \in Nat /\ x.key >= c BY <1>c, <1>f, <2>8, Zenon
        <5> QED BY <1>e, <4>a, <4>2, <5>1, SMTT(30)
      <4>4. ValuesPassed(h, e, x0.key) = {} /\ LockPassed(h, e, x0.key) = NoLock
        BY <4>3, Zenon DEF ValuesPassed, LockPassed
      <4>5. Collected(<<>>, {}) BY DEF Collected
      <4>6. c \in Key /\ InRange(c, b, e)
        <5>1. c \in Key /\ InRange(c, EmptyKey, e) BY <1>c, <2>3, ZenonT(30)
        <5>2. b =< c BY <1>e, <4>a, SMTT(30)
        <5> QED BY <5>1, <5>2, Zenon DEF InRange
      <4>7. \A x \in h.iter : x.key # c
        <5>1. \A x \in h.iter : x.key \in Nat BY <1>b, <1>c, Zenon
        <5> QED BY <1>e, <2>6, <4>a, <4>2, <5>1, SMTT(30)
      <4> DEFINE Q == {k \in A : k >= c}
      <4>8. Lists(t.pairs, Q, "down", ts, iso) /\ Len(t.pairs) =< Len(h.pairs) + 1
        <5>1. Q = {k \in A : k >= c} OBVIOUS
        <5> HIDE DEF Q
        <5> QED BY <4>1, <4>6, <4>7, <5>1, BackwardFinish, SMTT(30)
      <4>9. Q = {k \in A : k > x0.key}
        <5>a. c \in Nat /\ x0.key \in Nat BY <1>c, <2>5, Zenon
        <5>1. ASSUME NEW k \in A PROVE k >= c <=> k > x0.key
          <6>1. k \in Nat /\ \E x \in R : x.key = k BY <1>a, Zenon
          <6>2. PICK x \in R : x.key = k BY <6>1, Zenon
          <6>3. CASE x \in h.iter
            <7>1. k =< x0.key BY <2>6, <6>2, <6>3, Zenon
            <7> HIDE DEF c
            <7> QED BY <5>a, <4>2, <6>1, <7>1, SMTT(30)
          <6>4. CASE x \in Passed(h, e)
            <7>1. k >= c BY <1>c, <6>2, <6>4, Zenon
            <7> HIDE DEF c
            <7> QED BY <5>a, <4>2, <6>1, <7>1, SMTT(30)
          <6> QED BY <6>2, <6>3, <6>4, Zenon DEF Passed
        <5> QED BY <5>1, Zenon
      <4>10. Len(t.pairs) =< limit
        <5>1. Len(t.pairs) \in Nat BY <4>8 DEF Lists
        <5>2. Len(t.pairs) =< Len(h.pairs) + 1 /\ Len(h.pairs) < limit BY <1>2, <4>8, Zenon
        <5> QED BY <1>d, <5>1, <5>2, SMTT(30)
      <4> HIDE DEF vals, lck, same, Q
      <4> QED BY <4>1, <4>4, <4>5, <4>8, <4>9, <4>10, ZenonT(30)
    <3> QED BY <3>1, <3>2, Zenon
  <2> HIDE DEF vals, lck, same
  <2>11. Collected(t.values, ValuesPassed(t, e, x0.key)) /\ t.lock = LockPassed(t, e, x0.key)
    <3>1. CASE x0.ver = lockVer
      <4>1. t.values = vals /\ t.lock = x0.value BY <2>2, <3>1, Zenon
      <4>2. ValuesPassed(t, e, x0.key) = ValuesPassed(h, e, x0.key)
        BY <2>7, <3>1, Zenon DEF ValuesPassed
      <4>3. x0.value = lock[x0.key] BY <2>3, <3>1, EntryFacts, Zenon
      <4>4. LockPassed(t, e, x0.key) = lock[x0.key] BY <2>7, <3>1, Zenon DEF LockPassed
      <4> QED BY <2>10, <4>1, <4>2, <4>3, <4>4, Zenon
    <3>2. CASE x0.ver # lockVer
      <4>1. t.values = Append(vals, x0.value) /\ t.lock = lck BY <2>2, <3>2, Zenon
      <4>2. ValuesPassed(t, e, x0.key) = ValuesPassed(h, e, x0.key) \cup {x0.value}
        BY <2>7, <3>2 DEF ValuesPassed
      <4>3. LockPassed(t, e, x0.key) = LockPassed(h, e, x0.key)
        BY <2>7, <3>2, Zenon DEF LockPassed
      <4>4. x0.value \in writes[x0.key] /\ x0.ver = x0.value.commitTS
        BY <2>3, <3>2, EntryFacts, Zenon
      <4>5. x0.value \in mvccValue BY <2>5, <4>4 DEF IInv, DBTypeOK
      <4>6. ASSUME NEW v \in ValuesPassed(h, e, x0.key) PROVE v.commitTS < x0.value.commitTS
        <5>1. PICK x \in Passed(h, e) : x.key = x0.key /\ x.ver # lockVer /\ v = x.value
          BY DEF ValuesPassed
        <5>2. x.ver = v.commitTS BY <2>8, <5>1, EntryFacts, Zenon
        <5> QED BY <2>9, <4>4, <5>1, <5>2, Zenon
      <4> QED BY <2>10, <4>1, <4>2, <4>3, <4>5, <4>6, CollectedOneMore, Zenon
    <3> QED BY <3>1, <3>2
  <2>12. t.iter \in SUBSET R BY <1>c, <2>2, Zenon
  <2>13. ASSUME NEW x \in t.iter
         PROVE  x.key =< x0.key /\ \A y \in Passed(t, e) : EncodedBefore(x, y)
    <3>1. x \in h.iter /\ x # x0 BY <2>2, Zenon
    <3> QED BY <1>c, <2>3, <2>6, <2>7, <3>1, Zenon
  <2>14. \A x \in Passed(t, e) : x.key >= x0.key /\ x.key >= b
    <3>1. x0.key >= x0.key BY <2>5
    <3> QED BY <1>c, <2>5, <2>7, <2>9, <3>1, Zenon
  <2>15. Cardinality(t.iter) + (n + 1) =< Cardinality(R)
    <3>1. \A S \in SUBSET R : IsFiniteSet(S) /\ Cardinality(S) \in Nat BY RangeFinite, Zenon
    <3>2. IsFiniteSet(h.iter) /\ Cardinality(h.iter) \in Nat BY <1>c, <3>1, Zenon
    <3>3. Cardinality(R) \in Nat BY <3>1, Zenon
    <3>4. Cardinality(t.iter) = Cardinality(h.iter) - 1
      <4>1. Cardinality(h.iter \ {x0}) =
              IF x0 \in h.iter THEN Cardinality(h.iter) - 1 ELSE Cardinality(h.iter)
        BY <3>2, FS_RemoveElement, Zenon
      <4> QED BY <2>2, <2>3, <4>1, Zenon
    <3>5. Cardinality(h.iter) + n =< Cardinality(R) BY <1>2, <1>c, Zenon
    <3> HIDE DEF R
    <3> QED BY <3>2, <3>3, <3>4, <3>5, SMTT(30)
  <2> QED BY <2>2, <2>5, <2>10, <2>11, <2>12, <2>13, <2>14, <2>15, ZenonT(30) DEF Backward, t
<1>3. Len(h.pairs) >= limit \/ Len(h.pairs) < limit BY <1>d
<1> QED BY <1>1, <1>2, <1>3, Zenon

\* The state before the first iteration of ReverseScan.
ReverseStart(iter) == [iter |-> iter, currKey |-> IF iter = {} THEN EmptyKey ELSE Last(iter).key,
                       lock |-> NoLock, values |-> <<>>, pairs |-> <<>>]

\* The loop is what its iterations make of its start.
LEMMA ReverseLoopSteps ==
  ASSUME NEW iter, NEW startKey, NEW limit, NEW ts, NEW iso
  PROVE  LET after == reverseLoop(iter, startKey, limit, ts, iso)
         IN  /\ after[0] = ReverseStart(iter)
             /\ \A n \in Nat : after[n + 1] = reverseStep(after[n], startKey, limit, ts, iso)
<1> DEFINE a == ReverseStart(iter)
           step(s) == reverseStep(s, startKey, limit, ts, iso)
           Upto(g, n) == /\ g[0] = a
                         /\ \A i \in Nat : i < n => g[i + 1] = step(g[i])
           Run(f) == f = [n \in Nat |-> IF n = 0 THEN a ELSE step(f[n - 1])]
<1>1. reverseLoop(iter, startKey, limit, ts, iso) = CHOOSE f : Run(f)
  BY SMTT(30) DEF reverseLoop, ReverseStart
<1> HIDE DEF a, step
<1>2. \A n \in Nat : \E g : Upto(g, n)
  <2> DEFINE S == {n \in Nat : \E g : Upto(g, n)}
  <2>1. 0 \in S
    <3>1. Upto([i \in {0} |-> a], 0) OBVIOUS
    <3> QED BY <3>1
  <2>2. ASSUME NEW n \in Nat, n \in S PROVE n + 1 \in S
    <3>1. PICK g : Upto(g, n) BY <2>2
    <3> DEFINE h == [i \in Nat |-> IF i = n + 1 THEN step(g[n]) ELSE g[i]]
    <3>2. h[0] = a BY <3>1
    <3>3. ASSUME NEW i \in Nat, i < n + 1 PROVE h[i + 1] = step(h[i])
      <4>1. h[i] = g[i] BY <3>3
      <4>2. CASE i = n BY <4>1, <4>2
      <4>3. CASE i # n
        <5>1. i < n /\ h[i + 1] = g[i + 1] BY <3>3, <4>3
        <5>2. g[i + 1] = step(g[i]) BY <3>1, <5>1
        <5> QED BY <4>1, <5>1, <5>2
      <4> QED BY <4>2, <4>3
    <3>4. Upto(h, n + 1) BY <3>2, <3>3
    <3> HIDE DEF h, Upto
    <3> QED BY <3>4
  <2> HIDE DEF S
  <2>3. \A n \in Nat : n \in S BY <2>1, <2>2, Successors, Zenon
  <2> QED BY <2>3, Zenon DEF S
<1> DEFINE G(n) == CHOOSE g : Upto(g, n)
<1>3. \A n \in Nat : Upto(G(n), n)
  <2> HIDE DEF Upto
  <2> QED BY <1>2, Zenon
<1> HIDE DEF G
<1>4. ASSUME NEW n \in Nat PROVE G(n + 1)[n] = G(n)[n]
  <2> DEFINE S == {i \in Nat : i =< n => G(n + 1)[i] = G(n)[i]}
  <2>1. Upto(G(n + 1), n + 1) /\ Upto(G(n), n) BY <1>3
  <2>2. 0 \in S BY <2>1
  <2>3. ASSUME NEW i \in Nat, i \in S PROVE i + 1 \in S
    <3> SUFFICES ASSUME i + 1 =< n PROVE G(n + 1)[i + 1] = G(n)[i + 1] OBVIOUS
    <3>1. i < n /\ i < n + 1 OBVIOUS
    <3>2. G(n + 1)[i] = G(n)[i] BY <2>3, <3>1
    <3> QED BY <2>1, <3>1, <3>2
  <2> HIDE DEF S
  <2>4. n \in S BY <2>2, <2>3, Successors, Zenon
  <2> QED BY <2>4 DEF S
<1> DEFINE run == [n \in Nat |-> G(n)[n]]
<1>5. run[0] = a BY <1>3
<1>6. ASSUME NEW n \in Nat PROVE run[n + 1] = step(run[n])
  <2>1. Upto(G(n + 1), n + 1) BY <1>3
  <2>2. G(n + 1)[n + 1] = step(G(n + 1)[n]) BY <2>1
  <2> QED BY <2>2, <1>4
<1>7. Run(run)
  <2>1. ASSUME NEW n \in Nat PROVE run[n] = IF n = 0 THEN a ELSE step(run[n - 1])
    <3>1. CASE n = 0 BY <3>1, <1>5
    <3>2. CASE n # 0
      <4>1. n - 1 \in Nat /\ n - 1 + 1 = n BY <3>2
      <4> HIDE DEF run
      <4> QED BY <4>1, <3>2, <1>6
    <3> QED BY <3>1, <3>2
  <2> QED BY <2>1
<1> DEFINE after == CHOOSE f : Run(f)
<1>8. Run(after)
  <2> HIDE DEF Run, run
  <2> QED BY <1>7, Zenon
<1> HIDE DEF after
<1>9. after[0] = a BY <1>8
<1>10. ASSUME NEW n \in Nat PROVE after[n + 1] = step(after[n])
  <2>1. n + 1 \in Nat /\ n + 1 # 0 /\ n + 1 - 1 = n OBVIOUS
  <2> QED BY <2>1, <1>8
<1> QED BY <1>1, <1>9, <1>10, Zenon DEF after, a, step


\* A backward scan returns what gets return.
LEMMA ReverseScanAgrees ==
  ASSUME IInv, PlainValues, NEW b \in Bound, NEW e \in Bound, NEW limit \in Nat, NEW ts, NEW iso
  PROVE  AgreesSorted(ReverseScan(b, e, limit, ts, iso), Answered(b, e, ts, iso),
                      limit, ts, iso, "down")
<1> DEFINE R == newIterator(EmptyKey, e)
           A == Answered(b, e, ts, iso)
           after == reverseLoop(R, b, limit, ts, iso)
           S == {n \in Nat : Backward(after[n], n, b, e, limit, ts, iso)}
           N == Cardinality(R)
           h == after[N]
           c == h.currKey
<1>1. after[0] = ReverseStart(R) /\ \A n \in Nat : after[n + 1] = reverseStep(after[n], b, limit, ts, iso)
  <2> HIDE DEF R
  <2> QED BY ReverseLoopSteps
<1>2. 0 \in S
  <2> DEFINE s == ReverseStart(R)
  <2>1. /\ s.iter = R /\ s.currKey = IF s.iter = {} THEN EmptyKey ELSE Last(s.iter).key
        /\ s.lock = NoLock /\ s.values = <<>> /\ s.pairs = <<>>
    <3> HIDE DEF R
    <3> QED BY DEF ReverseStart
  <2> HIDE DEF s
  <2>2. Backward(s, 0, b, e, limit, ts, iso) BY <2>1, BackwardInit, Zenon
  <2> HIDE DEF after
  <2> QED BY <1>1, <2>2, SMTT(30) DEF s
<1> HIDE DEF after
<1>3. \A n \in Nat : n \in S => n + 1 \in S
  <2> SUFFICES ASSUME NEW n \in Nat, n \in S PROVE n + 1 \in S OBVIOUS
  <2>1. Backward(reverseStep(after[n], b, limit, ts, iso), n + 1, b, e, limit, ts, iso)
    BY BackwardStep, Zenon
  <2>2. n + 1 \in Nat OBVIOUS
  <2> QED BY <1>1, <2>1, <2>2, Zenon
<1>4. N \in Nat BY RangeFinite, Zenon
<1>5. N \in S
  <2> HIDE DEF S, N
  <2> QED BY <1>2, <1>3, <1>4, Successors, Zenon
<1>6. Backward(h, N, b, e, limit, ts, iso) BY <1>5, Zenon
<1>7. ReverseScan(b, e, limit, ts, iso) =
        IF Len(h.pairs) < limit THEN finishEntry(h, ts, iso) ELSE h.pairs
  BY Zenon DEF ReverseScan, after
<1> HIDE DEF h, N, S
<1> DEFINE P == {k \in A : k > c}
<1>8. /\ h.iter \in SUBSET R /\ c \in Nat
      /\ R # {} => c \in Key /\ InRange(c, EmptyKey, e)
      /\ \A x \in Passed(h, e) : x.key >= c /\ x.key >= b
      /\ Collected(h.values, ValuesPassed(h, e, c))
      /\ h.lock = LockPassed(h, e, c)
      /\ Lists(h.pairs, P, "down", ts, iso)
      /\ Len(h.pairs) =< limit
      /\ Len(h.pairs) < limit /\ ~ ReverseOver(h, b) => Cardinality(h.iter) + N =< Cardinality(R)
  BY <1>6, Zenon DEF Backward
<1>9. Len(h.pairs) \in Nat
  <2>1. h.pairs \in Seq(PairSet(ts, iso)) BY <1>8, Zenon DEF Lists
  <2> QED BY <2>1
<1>10. ASSUME NEW k \in A PROVE k \in Nat /\ b =< k /\ \E x \in R : x.key = k
  BY AnsweredIsMet
<1>11. R \in SUBSET Entries /\ \A x \in R : x.key \in Key /\ x.key \in Nat /\ InRange(x.key, EmptyKey, e)
  BY RangeEntries, Zenon
<1>12. b \in Nat /\ c \in Nat /\ Len(h.pairs) =< limit
  <2>1. b \in Nat BY KeyAssumption DEF Bound, EmptyKey
  <2> QED BY <1>8, <2>1, Zenon
<1> HIDE DEF A
<1>13. CASE ~ (Len(h.pairs) < limit)
  <2>1. Len(h.pairs) = limit BY <1>9, <1>12, <1>13, SMTT(30)
  <2>2. \A k \in A : k \notin P => \A l \in P : Sorted(l, k, "down")
    BY <1>8, <1>10 DEF Sorted
  <2>3. P \in SUBSET A OBVIOUS
  <2> HIDE DEF P
  <2>4. AgreesSorted(h.pairs, A, limit, ts, iso, "down") BY <1>8, <2>1, <2>2, <2>3, ListsAgree, Zenon
  <2> QED BY <1>7, <1>13, <2>4, ZenonT(30) DEF A
<1>14. CASE Len(h.pairs) < limit
  <2>1. ReverseOver(h, b)
    <3> SUFFICES ASSUME ~ ReverseOver(h, b) PROVE FALSE OBVIOUS
    <3>1. Cardinality(h.iter) + N =< Cardinality(R) BY <1>8, <1>14, Zenon
    <3>2. IsFiniteSet(h.iter) /\ Cardinality(h.iter) \in Nat BY <1>8, RangeFinite, Zenon
    <3>3. Cardinality(h.iter) = 0 BY <1>4, <3>1, <3>2, SMTT(30) DEF N
    <3>4. h.iter = {} BY <3>2, <3>3, FS_EmptySet, Zenon
    <3> QED BY <3>4, Zenon DEF ReverseOver
  <2>2. ASSUME NEW x \in h.iter PROVE x.key < b
    <3>1. h.iter \in SUBSET Entries BY <1>8, <1>11, Zenon
    <3>2. /\ Last(h.iter) \in h.iter /\ Last(h.iter).key < b
          /\ (x = Last(h.iter) \/ EncodedBefore(x, Last(h.iter)))
      BY <2>1, <3>1, LastIsLast, Zenon DEF ReverseOver
    <3>3. x.key \in Nat /\ Last(h.iter).key \in Nat BY <1>8, <1>11, <3>2, Zenon
    <3> QED BY <1>12, <3>2, <3>3, SMTT(30) DEF EncodedBefore
  <2>3. ASSUME NEW k \in A PROVE k >= c
    <3>1. PICK x \in R : x.key = k BY <1>10, Zenon
    <3>2. x \notin h.iter
      <4>1. k \in Nat /\ b =< k BY <1>10, Zenon
      <4>2. ~ (k < b) BY <1>12, <4>1, SMTT(30)
      <4> QED BY <2>2, <3>1, <4>2, Zenon
    <3> QED BY <1>8, <3>1, <3>2, Zenon DEF Passed
  <2> DEFINE pairs == finishEntry(h, ts, iso)
  <2>4. Lists(pairs, A, "down", ts, iso) /\ Len(pairs) =< limit
    <3>1. CASE c >= b /\ R # {}
      <4>1. c \in Key /\ InRange(c, b, e)
        <5>1. c \in Key /\ InRange(c, EmptyKey, e) BY <1>8, <3>1, ZenonT(30)
        <5>2. c >= b BY <3>1, Zenon
        <5>3. b =< c BY <1>12, <5>2, SMTT(30)
        <5> QED BY <5>1, <5>3, Zenon DEF InRange
      <4>2. ASSUME NEW x \in h.iter PROVE x.key # c
        <5>1. x.key \in Nat /\ x.key < b /\ c >= b BY <1>8, <1>11, <2>2, <3>1, Zenon
        <5> QED BY <1>12, <5>1
      <4>4. A = {k \in A : k >= c} BY <2>3, ZenonT(30)
      <4>3. Lists(pairs, A, "down", ts, iso) /\ Len(pairs) =< Len(h.pairs) + 1
        BY <1>6, <4>1, <4>2, <4>4, BackwardFinish, SMTT(30) DEF A
      <4> HIDE DEF pairs
      <4>5. Len(pairs) \in Nat BY <4>3 DEF Lists
      <4>6. Len(pairs) =< limit BY <1>9, <1>14, <4>3, <4>5, SMTT(30)
      <4> QED BY <4>3, <4>6, Zenon
    <3>2. CASE ~ (c >= b /\ R # {})
      <4>1. \A x \in Passed(h, e) : x.key # c
        <5>1. \A x \in Passed(h, e) : x \in R BY Zenon DEF Passed
        <5> QED BY <1>8, <3>2, <5>1, Zenon
      <4>2. ValuesPassed(h, e, c) = {} /\ LockPassed(h, e, c) = NoLock
        BY <4>1, Zenon DEF ValuesPassed, LockPassed
      <4>3. h.values = <<>>
        <5>1. h.values \in Seq(mvccValue) /\ \A i \in 1 .. Len(h.values) : FALSE
          BY <1>8, <4>2, Zenon DEF Collected
        <5> QED BY <5>1
      <4>4. pairs = h.pairs BY <1>8, <4>2, <4>3, FinishNothing, ZenonT(30)
      <4>5. \A k \in A : k > c
        <5> SUFFICES ASSUME NEW k \in A PROVE k > c OBVIOUS
        <5>1. k \in Nat /\ b =< k /\ R # {} BY <1>10, Zenon
        <5>2. ~ (c >= b) BY <3>2, <5>1, Zenon
        <5> QED BY <1>12, <5>1, <5>2, SMTT(30)
      <4>6. P = A BY <4>5, Zenon
      <4> HIDE DEF pairs, P
      <4> QED BY <1>8, <4>4, <4>6, ZenonT(30)
    <3> QED BY <3>1, <3>2
  <2> HIDE DEF pairs
  <2>5. AgreesSorted(pairs, A, limit, ts, iso, "down") BY <2>4, ListsAgree, Zenon
  <2> QED BY <1>7, <1>14, <2>5, Zenon DEF A, pairs
<1> QED BY <1>13, <1>14

--------------------------------------------------------------------------------
(* The scans of a reachable database *)

\* In a database with unique versions the scans agree with gets.
LEMMA ScansOfInvariant ==
  ASSUME IInv PROVE ScanAgreesWithGets /\ ReverseScanAgreesWithGets
<1>0. \A n \in 1 .. Cardinality(Key) : n \in Nat
  <2>1. Cardinality(Key) \in Nat BY FiniteAssumption, FS_CardinalityType, Zenon
  <2> QED BY <2>1
<1>1. ScanAgreesWithGets
  <2> SUFFICES ASSUME NEW b \in Bound, NEW e \in Bound, NEW n \in 1 .. Cardinality(Key),
                      NEW ts \in CurrentTS, NEW iso \in IsoLevel
               PROVE  Agrees(Scan(b, e, n, ts, iso), Answered(b, e, ts, iso), n, ts, iso,
                             LAMBDA k, l : k < l)
    BY Zenon DEF ScanAgreesWithGets
  <2> DEFINE pairs == Scan(b, e, n, ts, iso)
             A == Answered(b, e, ts, iso)
  <2>1. AgreesSorted(pairs, A, n, ts, iso, "up") BY <1>0, ScanAgrees, Zenon
  <2>2. \A l, k : Sorted(l, k, "up") <=> l < k BY Zenon DEF Sorted
  <2> HIDE DEF pairs, A
  <2>3. Agrees(pairs, A, n, ts, iso, LAMBDA k, l : k < l)
    BY <2>1, <2>2, Zenon DEF AgreesSorted, Agrees
  <2> QED BY <2>3, Zenon DEF pairs, A
<1>2. ReverseScanAgreesWithGets
  <2> SUFFICES ASSUME PlainValues, NEW b \in Bound, NEW e \in Bound,
                      NEW n \in 1 .. Cardinality(Key), NEW ts \in CurrentTS, NEW iso \in IsoLevel
               PROVE  Agrees(ReverseScan(b, e, n, ts, iso), Answered(b, e, ts, iso), n, ts, iso,
                             LAMBDA k, l : k > l)
    BY Zenon DEF ReverseScanAgreesWithGets
  <2> DEFINE pairs == ReverseScan(b, e, n, ts, iso)
             A == Answered(b, e, ts, iso)
  <2>1. AgreesSorted(pairs, A, n, ts, iso, "down") BY <1>0, ReverseScanAgrees, Zenon
  <2>2. \A l, k : Sorted(l, k, "down") <=> l > k BY Zenon DEF Sorted
  <2> HIDE DEF pairs, A
  <2>3. Agrees(pairs, A, n, ts, iso, LAMBDA k, l : k > l)
    BY <2>1, <2>2, Zenon DEF AgreesSorted, Agrees
  <2> QED BY <2>3, Zenon DEF pairs, A
<1> QED BY <1>1, <1>2


\* Scan agrees with gets in every database the store can reach, for any keys,
\* ranges, limits and timestamps.
THEOREM ScansAgreeWithGets == Spec => []ScanAgreesWithGets
<1>1. IInv => ScanAgreesWithGets BY ScansOfInvariant, Zenon
<1> QED BY <1>1, StoreInvariant, PTL

\* And so does ReverseScan, without empty puts and deletes that carry a value.
THEOREM ReverseScansAgreeWithGets == Spec => []ReverseScanAgreesWithGets
<1>1. IInv => ReverseScanAgreesWithGets BY ScansOfInvariant, Zenon
<1> QED BY <1>1, StoreInvariant, PTL

================================================================================
