--------------------------------- MODULE Scans ---------------------------------
(***************************************************************************)
(* The reads of several keys of server/mvcc_leveldb.go, as they walk the   *)
(* database: Scan forwards with one iterator and the decoders that move    *)
(* it, and ReverseScan backwards, collecting the versions of a key before  *)
(* it looks at them.  They are to agree with Get.                          *)
(*                                                                         *)
(* An iterator is the set of the entries it has not passed yet; it stands  *)
(* at the first of them, or the last when it goes backwards.  A loop is    *)
(* the function from a number of iterations to the state after them.       *)
(***************************************************************************)
EXTENDS MVCCStore, Sequences, FiniteSets

\* A database holds finitely many keys.
ASSUME FiniteAssumption == IsFiniteSet(Key)

\* An entry of the database: its key, its version, and its lock or its value.
Entry(k, ver, v) == [key |-> k, ver |-> ver, value |-> v]

Entries == (UNION {{Entry(k, w.commitTS, w) : w \in writes[k]} : k \in Key})
           \cup {Entry(k, lockVer, lock[k]) : k \in {k \in Key : lock[k] # NoLock}}

\* mvccEncode sorts keys upwards and the versions of a key downwards.
EncodedBefore(a, b) == a.key < b.key \/ (a.key = b.key /\ a.ver > b.ver)

newIterator(startKey, endKey) == {e \in Entries : InRange(e.key, startKey, endKey)}

First(iter) == CHOOSE e \in iter : \A x \in iter : x = e \/ EncodedBefore(e, x)

Last(iter) == CHOOSE e \in iter : \A x \in iter : x = e \/ EncodedBefore(x, e)

--------------------------------------------------------------------------------
(* Forwards *)

\* The entries of k that the iterator meets before it meets another key.
Versions(iter, k) ==
  {e \in iter : \A x \in iter : x = e \/ EncodedBefore(x, e) => x.key = k}

\* getValue on an iterator: what it returns, and where it leaves the iterator.
\* lockDecoder has passed the lock when the check refuses the read, and
\* valueDecoder passes versions until it meets one that is seen.
getValueIter(iter, k, ts, isoLevel) ==
  LET locked  == iter # {} /\ First(iter).key = k /\ First(iter).ver = lockVer
      l       == First(iter).value
      checked == locked /\ isoLevel = "SI"
      left    == IF locked THEN iter \ {First(iter)} ELSE iter
      at      == IF checked THEN CheckedTS(l, ts) ELSE ts
      seen    == {e \in Versions(left, k) : Committed(e.value) /\ e.value.commitTS =< at}
      v       == First(seen).value
  IN  IF checked /\ Blocks(l, ts, k) THEN [result |-> Locked(k), iter |-> left]
      ELSE IF seen = {} THEN [result |-> NotFound, iter |-> left \ Versions(left, k)]
      ELSE [result |-> IF v.valueType = "Delete" THEN NotFound ELSE Found(v.value),
            iter   |-> {e \in left : EncodedBefore(First(seen), e)}]

\* Mutant: the scan goes on where the read of the key stopped.
skipDecoderStays(iter, k) == iter

\* skipDecoder passes what is left of key k.
skipDecoder(iter, k) == iter \ Versions(iter, k)

Pair(k, result) == [key |-> k, result |-> result]

\* One iteration of the loop of Scan.
scanStep(s, limit, ts, isoLevel) ==
  LET got  == getValueIter(s.iter, s.currKey, ts, isoLevel)
      rest == skipDecoder(got.iter, s.currKey)
  IN  IF Len(s.pairs) >= limit \/ ~ s.ok THEN s
      ELSE [iter    |-> rest,
            currKey |-> IF rest = {} THEN s.currKey ELSE First(rest).key,
            ok      |-> rest # {},
            pairs   |-> IF got.result = NotFound THEN s.pairs
                        ELSE Append(s.pairs, Pair(s.currKey, got.result))]

scanLoop(iter, currKey, limit, ts, isoLevel) ==
  LET after[n \in Nat] ==
        IF n = 0 THEN [iter |-> iter, currKey |-> currKey, ok |-> TRUE, pairs |-> <<>>]
        ELSE scanStep(after[n - 1], limit, ts, isoLevel)
  IN  after

\* Without a start key the first key of the store is it.  An iteration after
\* the first passes an entry at least.
Scan(startKey, endKey, limit, ts, isoLevel) ==
  LET iter == newIterator(startKey, endKey)
      from == IF startKey = EmptyKey /\ iter # {} THEN First(iter).key ELSE startKey
  IN  scanLoop(iter, from, limit, ts, isoLevel)[Cardinality(iter) + 1].pairs

--------------------------------------------------------------------------------
(* Backwards *)

\* mvccEntry.Get.  The value of a delete is returned like any other.
Get(l, values, k, ts, isoLevel) ==
  LET checked == isoLevel = "SI" /\ l # NoLock
      at      == IF checked THEN CheckedTS(l, ts) ELSE ts
      seen    == {i \in 1 .. Len(values) : values[i].commitTS =< at /\ Committed(values[i])}
  IN  IF checked /\ Blocks(l, ts, k) THEN Locked(k)
      ELSE IF seen = {} THEN NotFound
      ELSE Found(values[CHOOSE i \in seen : \A j \in seen : i =< j].value)

reverse(s) == [i \in 1 .. Len(s) |-> s[Len(s) - i + 1]]

\* Mutant: the versions stay in the order the iterator met them.
finishEntryUnsorted(h, ts, isoLevel) ==
  LET got == Get(h.lock, h.values, h.currKey, ts, isoLevel)
  IN  IF got \in {NotFound, Found(EmptyValue)} THEN h.pairs
      ELSE Append(h.pairs, Pair(h.currKey, got))

\* The pairs after the entry of a key is complete; an empty value is no pair.
finishEntry(h, ts, isoLevel) ==
  LET got == Get(h.lock, reverse(h.values), h.currKey, ts, isoLevel)
  IN  IF got \in {NotFound, Found(EmptyValue)} THEN h.pairs
      ELSE Append(h.pairs, Pair(h.currKey, got))

\* The iterator is at an entry below the range, or has passed all.
ReverseOver(h, startKey) == h.iter = {} \/ (h.iter # {} /\ Last(h.iter).key < startKey)

\* One iteration of the loop of ReverseScan: the helper after one more entry.
reverseStep(h, startKey, limit, ts, isoLevel) ==
  LET e    == Last(h.iter)
      same == e.key = h.currKey
      lck  == IF same THEN h.lock ELSE NoLock
      vals == IF same THEN h.values ELSE <<>>
  IN  IF Len(h.pairs) >= limit \/ ReverseOver(h, startKey) THEN h
      ELSE [iter    |-> h.iter \ {e},
            currKey |-> e.key,
            lock    |-> IF e.ver = lockVer THEN e.value ELSE lck,
            values  |-> IF e.ver = lockVer THEN vals ELSE Append(vals, e.value),
            pairs   |-> IF same THEN h.pairs ELSE finishEntry(h, ts, isoLevel)]

reverseLoop(iter, startKey, limit, ts, isoLevel) ==
  LET after[n \in Nat] ==
        IF n = 0 THEN [iter |-> iter, currKey |-> IF iter = {} THEN EmptyKey ELSE Last(iter).key,
                       lock |-> NoLock, values |-> <<>>, pairs |-> <<>>]
        ELSE reverseStep(after[n - 1], startKey, limit, ts, isoLevel)
  IN  after

ReverseScan(startKey, endKey, limit, ts, isoLevel) ==
  LET iter == newIterator(EmptyKey, endKey)
      h    == reverseLoop(iter, startKey, limit, ts, isoLevel)[Cardinality(iter)]
  IN  IF Len(h.pairs) < limit THEN finishEntry(h, ts, isoLevel) ELSE h.pairs

--------------------------------------------------------------------------------
(* Properties *)

IsoLevel == {"SI", "RC"}

\* The keys of a range with a pair to return, as gets find them one by one.
Answered(startKey, endKey, ts, isoLevel) ==
  {k \in Key : InRange(k, startKey, endKey) /\ getValue(k, ts, isoLevel) # NotFound}

\* The pairs are what gets return, in the order of Less, and the first limit
\* of them at least.
Agrees(pairs, answered, limit, ts, isoLevel, Less(_, _)) ==
  /\ Len(pairs) =< limit
  /\ \A i \in 1 .. Len(pairs) :
       /\ pairs[i].key \in answered
       /\ pairs[i].result = getValue(pairs[i].key, ts, isoLevel)
       /\ \A j \in 1 .. i - 1 : Less(pairs[j].key, pairs[i].key)
  /\ \A k \in answered :
       \/ \E i \in 1 .. Len(pairs) : pairs[i].key = k
       \/ Len(pairs) = limit /\ \A i \in 1 .. Len(pairs) : Less(pairs[i].key, k)

\* A scan returns what gets of the keys of its range would return one by one,
\* up to its limit: neither a lock that stops the read of one key, nor versions
\* the decoders leave behind, nor a start key without entries, nor a key with
\* only tombstones makes it lose, repeat or misattribute a pair.
ScanAgreesWithGets ==
  \A b, e \in Bound, n \in 1 .. Cardinality(Key), ts \in CurrentTS, iso \in IsoLevel :
    Agrees(Scan(b, e, n, ts, iso), Answered(b, e, ts, iso), n, ts, iso, LAMBDA k, l : k < l)

\* No put is empty and no delete carries a value, as the delete of a committed
\* insert does.
PlainValues ==
  \A k \in Key : \A w \in writes[k] :
    Committed(w) => (w.valueType = "Put" <=> w.value # EmptyValue)

\* On such values a reverse scan returns what gets of the keys of its range
\* would return, from the last key to the first, although it meets the versions
\* of a key oldest first and its lock last.
ReverseScanAgreesWithGets ==
  PlainValues =>
    \A b, e \in Bound, n \in 1 .. Cardinality(Key), ts \in CurrentTS, iso \in IsoLevel :
      Agrees(ReverseScan(b, e, n, ts, iso), Answered(b, e, ts, iso), n, ts, iso, LAMBDA k, l : k > l)

================================================================================
