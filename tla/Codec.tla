--------------------------------- MODULE Codec ---------------------------------
(***************************************************************************)
(* The memory-comparable encoding of server/codec.go, and the entry keys   *)
(* that server/mvcc_leveldb.go makes with it.  A byte string is a sequence *)
(* of bytes.  A uint64 is the tuple of its bytes, the most significant     *)
(* first, so that words are compared like byte strings.                    *)
(*                                                                         *)
(* The loops of the code are position arithmetic here: byte i of the data  *)
(* belongs to group (i - 1) \div 8 and is preceded by as many markers.     *)
(***************************************************************************)
EXTENDS Integers, Sequences

encGroupSize == 8

encMarker == 255

encPad == 0

Byte == 0 .. 255

Bytes == Seq(Byte)

Uint64Bytes == [1 .. 8 -> Byte]

\* bytes.Compare(a, b) < 0: the strings differ at i, where a ends or has the
\* smaller byte.
DiffersAt(a, b, i) == /\ i \in 1 .. Len(b)
                      /\ \A j \in 1 .. i - 1 : j =< Len(a) /\ a[j] = b[j]
                      /\ i > Len(a) \/ (i =< Len(a) /\ a[i] < b[i])

Less(a, b) == \E i \in 1 .. Len(b) : DiffersAt(a, b, i)

--------------------------------------------------------------------------------
(* Encoding *)

\* How many groups encode a string of n bytes; a string that fills its last
\* group is followed by an empty group.
Groups(n) == n \div 8 + 1

\* The padding of group g, counted from 0, in the encoding of n bytes.
padCount(n, g) == IF n - g * 8 >= encGroupSize THEN 0 ELSE encGroupSize - (n - g * 8)

EncodeBytes(data) ==
  [p \in 1 .. Groups(Len(data)) * 9 |->
     LET g == (p - 1) \div 9
         i == p - g
     IN  IF p % 9 = 0 THEN encMarker - padCount(Len(data), g)
         ELSE IF i =< Len(data) THEN data[i] ELSE encPad]

\* The complement, in big-endian order.
EncodeUintDesc(b, v) == b \o [i \in 1 .. 8 |-> 255 - v[i]]

\* Mutant: the version follows the bytes of the key as they are.
mvccEncodeRaw(key, ver) == EncodeUintDesc(key, ver)

mvccEncode(key, ver) == EncodeUintDesc(EncodeBytes(key), ver)

lockVer == [i \in 1 .. 8 |-> 255]

\* The encoding of the empty key is empty.
NewMvccKey(key) == IF key = <<>> THEN <<>> ELSE EncodeBytes(key)

--------------------------------------------------------------------------------
(* Deleting a range of entries; db is the set of keys in leveldb *)

\* A range without an end goes on to the last key.
doRawDeleteRange(db, startKey, endKey) ==
  {k \in db : Less(k, startKey) \/ (endKey # <<>> /\ ~ Less(k, endKey))}

\* The end key is encoded even when it is empty.
DeleteRange(db, startKey, endKey) ==
  doRawDeleteRange(db, EncodeBytes(startKey), EncodeBytes(endKey))

--------------------------------------------------------------------------------
(* Decoding *)

Failed == [error |-> TRUE]

\* Group n, counted from 1, is the first whose marker says that it is padded.
IsLastGroup(b, n) == /\ n * 9 =< Len(b) /\ b[n * 9] # encMarker
                     /\ \A m \in 1 .. n - 1 : b[m * 9] = encMarker

\* The last group of b is group n: what it holds of data, and what follows it.
\* The padding is checked.
decodeGroups(b, n) ==
  LET size == n * 8 - (encMarker - b[n * 9])
  IN  IF encMarker - b[n * 9] > encGroupSize
         \/ \E i \in size + 1 .. n * 8 : b[i + (i - 1) \div 8] # encPad
      THEN Failed
      ELSE [error |-> FALSE,
            rest  |-> SubSeq(b, n * 9 + 1, Len(b)),
            key   |-> [i \in 1 .. size |-> b[i + (i - 1) \div 8]]]

DecodeBytes(b) ==
  IF \E n \in 1 .. Len(b) : IsLastGroup(b, n)
  THEN decodeGroups(b, CHOOSE n \in 1 .. Len(b) : IsLastGroup(b, n))
  ELSE Failed

\* The bytes that are left are the version, or there are none.
mvccDecode(b) ==
  LET d == DecodeBytes(b)
  IN  IF d.error THEN Failed
      ELSE IF Len(d.rest) = 0 THEN [error |-> FALSE, key |-> d.key,
                                    ver |-> [i \in 1 .. 8 |-> 0]]
      ELSE IF Len(d.rest) = 8 THEN [error |-> FALSE, key |-> d.key,
                                    ver |-> [i \in 1 .. 8 |-> 255 - d.rest[i]]]
      ELSE Failed

\* MvccKey.Raw panics on an error.
Raw(key) == IF key = <<>> THEN <<>> ELSE DecodeBytes(key).key

================================================================================
