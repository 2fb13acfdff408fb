------------------------------ MODULE CodecProofs ------------------------------
(***************************************************************************)
(* What the model of the store takes for granted about its keys: entries   *)
(* sort by key and then by descending version, whatever the bytes of the   *)
(* keys, decoding gives back what was encoded, and a region's bounds cut   *)
(* the entries where the bounds' keys say.                                 *)
(***************************************************************************)
EXTENDS Codec, WellFoundedInduction, TLAPS

\* A set of numbers has a least element.
LEMMA Smallest ==
  ASSUME NEW S \in SUBSET Nat, S # {}
  PROVE  \E n \in S : \A m \in S : n =< m
<1> DEFINE R == {p \in Nat \X Nat : p[1] < p[2]}
<1>1. IsWellFoundedOn(OpToRel(<, Nat), Nat) BY NatLessThanWellFounded, Zenon
<1>2. IsWellFoundedOn(R, Nat) BY <1>1 DEF OpToRel
<1>3. \A m, n \in Nat : m < n => <<m, n>> \in R OBVIOUS
<1> HIDE DEF R
<1>4. PICK n \in S : \A m \in S : ~ (<<m, n>> \in R) BY <1>2, WFMin, Zenon
<1>5. ASSUME NEW m \in S PROVE n =< m
  <2>1. m \in Nat /\ n \in Nat OBVIOUS
  <2>2. ~ (m < n) BY <1>3, <1>4, <2>1, Zenon
  <2> QED BY <2>1, <2>2
<1> QED BY <1>5

\* The elements of a byte string are numbers up to 255.
LEMMA ByteAt ==
  ASSUME NEW a \in Bytes
  PROVE  /\ Len(a) \in Nat
         /\ \A i \in 1 .. Len(a) : a[i] \in Byte /\ a[i] \in Nat /\ a[i] =< 255
<1>1. Len(a) \in Nat /\ \A i \in 1 .. Len(a) : a[i] \in Byte BY DEF Bytes
<1>2. \A x \in Byte : x \in Nat /\ x =< 255 BY DEF Byte
<1> QED BY <1>1, <1>2

\* Two strings that differ at a place differ at a first place.
LEMMA FirstDifference ==
  ASSUME NEW a \in Bytes, NEW b \in Bytes, NEW n \in Nat, n >= 1, n =< Len(a), n =< Len(b),
         a[n] # b[n]
  PROVE  \E i \in 1 .. n : a[i] # b[i] /\ \A j \in 1 .. i - 1 : a[j] = b[j]
<1> DEFINE S == {i \in 1 .. n : a[i] # b[i]}
<1>1. S \in SUBSET Nat /\ n \in S OBVIOUS
<1> HIDE DEF S
<1>2. PICK i \in S : \A m \in S : i =< m BY <1>1, Smallest
<1>3. i \in 1 .. n /\ a[i] # b[i] BY DEF S
<1>4. ASSUME NEW j \in 1 .. i - 1, a[j] # b[j] PROVE FALSE
  <2>1. j \in S BY <1>3, <1>4 DEF S
  <2> QED BY <1>2, <1>3, <2>1
<1> QED BY <1>3, <1>4

--------------------------------------------------------------------------------
(* The order of byte strings *)

\* bytes.Compare is irreflexive and asymmetric.
LEMMA LessAsymmetric ==
  ASSUME NEW a \in Bytes, NEW b \in Bytes, Less(a, b)
  PROVE  a # b /\ ~ Less(b, a)
<1>1. PICK i \in 1 .. Len(b) : DiffersAt(a, b, i) BY DEF Less
<1>2. ASSUME NEW j \in 1 .. Len(a), DiffersAt(b, a, j) PROVE FALSE
  <2>1. i \in Nat /\ j \in Nat /\ Len(a) \in Nat /\ Len(b) \in Nat BY ByteAt
  <2>2. CASE i < j BY <1>1, <1>2, <2>1, <2>2, ByteAt DEF DiffersAt
  <2>3. CASE j < i BY <1>1, <1>2, <2>1, <2>3, ByteAt DEF DiffersAt
  <2>4. CASE i = j BY <1>1, <1>2, <2>1, <2>4, ByteAt DEF DiffersAt
  <2> QED BY <2>1, <2>2, <2>3, <2>4
<1>3. a # b BY <1>1, ByteAt DEF DiffersAt
<1> QED BY <1>2, <1>3 DEF Less

\* bytes.Compare decides any two strings.
LEMMA LessTotal ==
  ASSUME NEW a \in Bytes, NEW b \in Bytes
  PROVE  Less(a, b) \/ a = b \/ Less(b, a)
<1>1. Len(a) \in Nat /\ Len(b) \in Nat BY DEF Bytes
<1>2. CASE \E n \in Nat : n >= 1 /\ n =< Len(a) /\ n =< Len(b) /\ a[n] # b[n]
  <2>1. PICK n \in Nat : n >= 1 /\ n =< Len(a) /\ n =< Len(b) /\ a[n] # b[n] BY <1>2
  <2>2. PICK i \in 1 .. n : a[i] # b[i] /\ \A j \in 1 .. i - 1 : a[j] = b[j]
    BY <2>1, FirstDifference
  <2>3. a[i] \in Nat /\ b[i] \in Nat BY <1>1, <2>1, <2>2, ByteAt
  <2>4. CASE a[i] < b[i] BY <1>1, <2>1, <2>2, <2>4 DEF Less, DiffersAt
  <2>5. CASE b[i] < a[i] BY <1>1, <2>1, <2>2, <2>5 DEF Less, DiffersAt
  <2> QED BY <2>2, <2>3, <2>4, <2>5
<1>3. CASE \A n \in Nat : n >= 1 /\ n =< Len(a) /\ n =< Len(b) => a[n] = b[n]
  <2>1. CASE Len(a) = Len(b)
    <3>1. a = b BY <1>1, <1>3, <2>1 DEF Bytes
    <3> QED BY <3>1
  <2>2. CASE Len(a) < Len(b)
    <3>1. DiffersAt(a, b, Len(a) + 1) BY <1>1, <1>3, <2>2 DEF DiffersAt
    <3> QED BY <1>1, <2>2, <3>1 DEF Less
  <2>3. CASE Len(b) < Len(a)
    <3>1. DiffersAt(b, a, Len(b) + 1) BY <1>1, <1>3, <2>3 DEF DiffersAt
    <3> QED BY <1>1, <2>3, <3>1 DEF Less
  <2> QED BY <1>1, <2>1, <2>2, <2>3
<1> QED BY <1>2, <1>3

--------------------------------------------------------------------------------
(* EncodeBytes *)

\* The encoding is whole groups of nine bytes.
LEMMA EncodedShape ==
  ASSUME NEW d \in Bytes
  PROVE  /\ Len(d) \in Nat
         /\ EncodeBytes(d) \in Bytes
         /\ Len(EncodeBytes(d)) = (Len(d) \div 8 + 1) * 9
         /\ \A p \in 1 .. (Len(d) \div 8 + 1) * 9 :
              EncodeBytes(d)[p] =
                IF p % 9 = 0
                THEN 255 - padCount(Len(d), (p - 1) \div 9)
                ELSE IF p - (p - 1) \div 9 =< Len(d) THEN d[p - (p - 1) \div 9] ELSE 0
<1>1. Len(d) \in Nat BY DEF Bytes
<1> DEFINE m == (Len(d) \div 8 + 1) * 9
<1>2. m \in Nat BY <1>1
<1> DEFINE at(p) == IF p % 9 = 0
                    THEN 255 - padCount(Len(d), (p - 1) \div 9)
                    ELSE IF p - (p - 1) \div 9 =< Len(d) THEN d[p - (p - 1) \div 9] ELSE 0
<1>3. ASSUME NEW p \in 1 .. m PROVE at(p) \in Byte
  <2>1. p \in Nat /\ p >= 1 /\ (p - 1) \div 9 \in Nat /\ p =< m BY <1>2
  <2>2. CASE p % 9 = 0
    <3>1. padCount(Len(d), (p - 1) \div 9) \in 0 .. 8
      BY <1>1, <2>1, <2>2, SMTT(30) DEF padCount, encGroupSize
    <3>2. \A x \in 0 .. 8 : 255 - x \in Byte BY DEF Byte
    <3> QED BY <2>2, <3>1, <3>2, SMTT(30)
  <2>3. CASE p % 9 # 0
    <3>1. p - (p - 1) \div 9 \in Nat /\ p - (p - 1) \div 9 >= 1 BY <2>1
    <3>2. 0 \in Byte BY DEF Byte
    <3>3. p - (p - 1) \div 9 =< Len(d) => d[p - (p - 1) \div 9] \in Byte BY <1>1, <3>1, ByteAt
    <3> QED BY <2>3, <3>2, <3>3
  <2> QED BY <2>2, <2>3
<1>4. EncodeBytes(d) = [p \in 1 .. m |-> at(p)]
  BY DEF EncodeBytes, Groups, encMarker, encPad
<1> HIDE DEF at, m
<1>5. EncodeBytes(d) \in Bytes /\ Len(EncodeBytes(d)) = m BY <1>2, <1>3, <1>4 DEF Bytes
<1>6. \A p \in 1 .. m : EncodeBytes(d)[p] = at(p) BY <1>4
<1> QED BY <1>1, <1>5, <1>6 DEF at, m

\* Quotient and remainder by nine, the remainder from 1 to 9; and by eight.
LEMMA Position ==
  /\ \A p \in Nat : p >= 1 => \E g \in Nat, o \in 1 .. 9 : p = 9 * g + o
  /\ \A i \in Nat : i >= 1 => \E g \in Nat, o \in 1 .. 8 : i = 8 * g + o
  /\ \A i \in Nat : \E g \in Nat, o \in 0 .. 7 : i = 8 * g + o
<1>1. ASSUME NEW p \in Nat, p >= 1 PROVE \E g \in Nat, o \in 1 .. 9 : p = 9 * g + o
  <2>1. (p - 1) \div 9 \in Nat /\ p - 9 * ((p - 1) \div 9) \in 1 .. 9 BY <1>1
  <2> QED BY <2>1
<1>2. ASSUME NEW p \in Nat, p >= 1 PROVE \E g \in Nat, o \in 1 .. 8 : p = 8 * g + o
  <2>1. (p - 1) \div 8 \in Nat /\ p - 8 * ((p - 1) \div 8) \in 1 .. 8 BY <1>2
  <2> QED BY <2>1
<1>3. ASSUME NEW p \in Nat PROVE \E g \in Nat, o \in 0 .. 7 : p = 8 * g + o
  <2>1. p \div 8 \in Nat /\ p - 8 * (p \div 8) \in 0 .. 7 BY <1>3
  <2> QED BY <2>1
<1> QED BY <1>1, <1>2, <1>3, Zenon

\* Byte o of group g.
LEMMA EncodedAt ==
  ASSUME NEW d \in Bytes, NEW g \in Nat, NEW o \in 1 .. 9, 8 * g =< Len(d)
  PROVE  /\ 9 * g + o \in 1 .. Len(EncodeBytes(d))
         /\ o = 9 => EncodeBytes(d)[9 * g + o] =
                       IF Len(d) - 8 * g >= 8 THEN 255 ELSE 247 + (Len(d) - 8 * g)
         /\ o # 9 /\ 8 * g + o =< Len(d) => EncodeBytes(d)[9 * g + o] = d[8 * g + o]
         /\ o # 9 /\ 8 * g + o > Len(d) => EncodeBytes(d)[9 * g + o] = 0
<1> DEFINE p == 9 * g + o
           m == (Len(d) \div 8 + 1) * 9
<1>1. Len(d) \in Nat /\ Len(EncodeBytes(d)) = m BY EncodedShape
<1>2. p \in 1 .. m BY <1>1
<1>3. (p - 1) \div 9 = g /\ p - g = 8 * g + o /\ (p % 9 = 0 <=> o = 9) OBVIOUS
<1>4. EncodeBytes(d)[p] = IF p % 9 = 0
                          THEN 255 - padCount(Len(d), (p - 1) \div 9)
                          ELSE IF p - (p - 1) \div 9 =< Len(d) THEN d[p - (p - 1) \div 9] ELSE 0
  BY <1>2, EncodedShape
<1>5. 255 - padCount(Len(d), g) = IF Len(d) - 8 * g >= 8 THEN 255 ELSE 247 + (Len(d) - 8 * g)
  <2>1. padCount(Len(d), g) = IF Len(d) - g * 8 >= 8 THEN 0 ELSE 8 - (Len(d) - g * 8)
    BY DEF padCount, encGroupSize
  <2>2. g * 8 = 8 * g OBVIOUS
  <2>3. CASE Len(d) - 8 * g >= 8 BY <1>1, <2>1, <2>2, <2>3
  <2>4. CASE ~ (Len(d) - 8 * g >= 8)
    <3>1. padCount(Len(d), g) = 8 - (Len(d) - 8 * g) BY <2>1, <2>2, <2>4
    <3>2. 255 - (8 - (Len(d) - 8 * g)) = 247 + (Len(d) - 8 * g) BY <1>1
    <3> QED BY <2>4, <3>1, <3>2
  <2> QED BY <2>3, <2>4
<1>6. EncodeBytes(d)[p] = IF o = 9 THEN 255 - padCount(Len(d), g)
                          ELSE IF 8 * g + o =< Len(d) THEN d[8 * g + o] ELSE 0
  <2> HIDE DEF p
  <2>1. CASE o = 9 BY <1>3, <1>4, <2>1
  <2>2. CASE o # 9
    <3>1. EncodeBytes(d)[p] = IF p - g =< Len(d) THEN d[p - g] ELSE 0 BY <1>3, <1>4, <2>2
    <3> QED BY <1>3, <2>2, <3>1
  <2> QED BY <2>1, <2>2
<1> QED BY <1>1, <1>2, <1>5, <1>6

\* Every byte of an encoding is byte o of a group g.
LEMMA EncodedPlace ==
  ASSUME NEW d \in Bytes, NEW p \in 1 .. Len(EncodeBytes(d))
  PROVE  \E g \in Nat, o \in 1 .. 9 : p = 9 * g + o /\ 8 * g =< Len(d)
<1>1. Len(d) \in Nat /\ Len(EncodeBytes(d)) = (Len(d) \div 8 + 1) * 9 BY EncodedShape
<1>2. p \in Nat /\ p >= 1 /\ p =< (Len(d) \div 8 + 1) * 9 BY <1>1
<1>3. PICK g \in Nat, o \in 1 .. 9 : p = 9 * g + o BY <1>2, Position, Zenon
<1>4. 8 * g =< Len(d) BY <1>1, <1>2, <1>3
<1> QED BY <1>3, <1>4

\* The strings differ inside both: the order stays whatever is appended.
DiffersInside(a, b) ==
  \E i \in 1 .. Len(b) : /\ i =< Len(a) /\ a[i] < b[i]
                         /\ \A j \in 1 .. i - 1 : a[j] = b[j]

\* EncodeBytes "guarantees the encoded value is in ascending order for
\* comparison", and no encoding is a prefix of another.
THEOREM EncodeBytesAscending ==
  ASSUME NEW a \in Bytes, NEW b \in Bytes, Less(a, b)
  PROVE  DiffersInside(EncodeBytes(a), EncodeBytes(b))
<1> DEFINE x == EncodeBytes(a)
           y == EncodeBytes(b)
<1>1. PICK i \in 1 .. Len(b) : DiffersAt(a, b, i) BY DEF Less
<1>2. Len(a) \in Nat /\ Len(b) \in Nat /\ i \in Nat /\ i >= 1 /\ i =< Len(b)
  BY <1>1, EncodedShape
<1>3. x \in Bytes /\ y \in Bytes BY EncodedShape
<1>4. Len(x) \in Nat /\ Len(y) \in Nat BY <1>3, ByteAt
<1> DEFINE At(d, e, g, o) ==
             /\ 9 * g + o \in 1 .. Len(e)
             /\ o = 9 => e[9 * g + o] = IF Len(d) - 8 * g >= 8 THEN 255 ELSE 247 + (Len(d) - 8 * g)
             /\ o # 9 /\ 8 * g + o =< Len(d) => e[9 * g + o] = d[8 * g + o]
             /\ o # 9 /\ 8 * g + o > Len(d) => e[9 * g + o] = 0
<1>5. ASSUME NEW g \in Nat, NEW o \in 1 .. 9, 8 * g =< Len(a), 8 * g =< Len(b)
      PROVE  At(a, x, g, o) /\ At(b, y, g, o)
  <2>1. At(a, x, g, o) BY <1>5, EncodedAt, ZenonT(30)
  <2>2. At(b, y, g, o) BY <1>5, EncodedAt, ZenonT(30)
  <2> QED BY <2>1, <2>2
<1>6. \A p \in 1 .. Len(x) : \E g \in Nat, o \in 1 .. 9 : p = 9 * g + o /\ 8 * g =< Len(a)
  BY EncodedPlace
<1> HIDE DEF x, y, At
<1>7. CASE i =< Len(a)
  <2>1. PICK g \in Nat, o \in 1 .. 8 : i = 8 * g + o BY <1>2, Position, Zenon
  <2> DEFINE p == 9 * g + o
  <2>2. o \in 1 .. 9 /\ o # 9 /\ 8 * g =< Len(a) /\ 8 * g =< Len(b) BY <1>2, <1>7, <2>1
  <2>3. p \in 1 .. Len(x) /\ p \in 1 .. Len(y) /\ x[p] = a[i] /\ y[p] = b[i]
    <3>1. At(a, x, g, o) /\ At(b, y, g, o) BY <1>5, <2>2, SMTT(30)
    <3> QED BY <1>2, <1>7, <2>1, <2>2, <3>1 DEF At
  <2>4. a[i] < b[i] BY <1>1, <1>2, <1>7 DEF DiffersAt
  <2>5. ASSUME NEW q \in 1 .. p - 1 PROVE x[q] = y[q]
    <3>1. q \in 1 .. Len(x) BY <1>4, <2>3
    <3>2. PICK h \in Nat, r \in 1 .. 9 : q = 9 * h + r /\ 8 * h =< Len(a) BY <1>6, <3>1
    <3>3. 9 * h + r < 9 * g + o BY <2>1, <3>2
    <3>4. 8 * h =< Len(b) BY <1>2, <2>1, <3>2, <3>3
    <3>5. CASE r = 9
      <4>1. Len(a) - 8 * h >= 8 /\ Len(b) - 8 * h >= 8 BY <1>2, <1>7, <2>1, <3>2, <3>3, <3>5
      <4>2. At(a, x, h, r) /\ At(b, y, h, r) BY <1>5, <3>2, <3>4, SMTT(30)
      <4> QED BY <3>2, <3>5, <4>1, <4>2 DEF At
    <3>6. CASE r # 9
      <4>1. 8 * h + r \in 1 .. i - 1 BY <2>1, <3>2, <3>3, <3>6
      <4>2. a[8 * h + r] = b[8 * h + r] BY <1>1, <4>1 DEF DiffersAt
      <4>3. 8 * h + r =< Len(a) /\ 8 * h + r =< Len(b) BY <1>2, <1>7, <4>1
      <4>4. At(a, x, h, r) /\ At(b, y, h, r) BY <1>5, <3>2, <3>4, SMTT(30)
      <4> QED BY <3>2, <3>6, <4>2, <4>3, <4>4 DEF At
    <3> QED BY <3>5, <3>6
  <2> HIDE DEF p
  <2>6. p =< Len(x) BY <2>3
  <2> QED BY <2>3, <2>4, <2>5, <2>6 DEF DiffersInside, x, y
<1>8. CASE i > Len(a)
  <2>1. i = Len(a) + 1 /\ Len(a) < Len(b) /\ \A j \in 1 .. Len(a) : a[j] = b[j]
    BY <1>1, <1>2, <1>8 DEF DiffersAt
  <2>2. PICK g \in Nat, o \in 0 .. 7 : Len(a) = 8 * g + o BY <1>2, Position, Zenon
  <2> DEFINE p == 9 * g + 9
  <2>3. 8 * g =< Len(a) /\ 8 * g =< Len(b) BY <1>2, <2>1, <2>2
  <2>4. At(a, x, g, 9) /\ At(b, y, g, 9)
    <3>1. 9 \in 1 .. 9 OBVIOUS
    <3> QED BY <1>5, <2>3, <3>1
  <2>5. p \in 1 .. Len(x) /\ p \in 1 .. Len(y) BY <2>4 DEF At
  <2>6. x[p] < y[p]
    <3>1. /\ x[p] = IF Len(a) - 8 * g >= 8 THEN 255 ELSE 247 + (Len(a) - 8 * g)
          /\ y[p] = IF Len(b) - 8 * g >= 8 THEN 255 ELSE 247 + (Len(b) - 8 * g)
      BY <2>4 DEF At
    <3>2. x[p] = 247 + o BY <1>2, <2>2, <3>1
    <3>3. CASE Len(b) - 8 * g >= 8
      <4>1. y[p] = 255 BY <3>1, <3>3
      <4> QED BY <2>2, <3>2, <4>1
    <3>4. CASE ~ (Len(b) - 8 * g >= 8)
      <4>1. y[p] = 247 + (Len(b) - 8 * g) BY <3>1, <3>4
      <4> QED BY <1>2, <2>1, <2>2, <3>2, <4>1
    <3> QED BY <3>3, <3>4
  <2>7. ASSUME NEW q \in 1 .. p - 1, x[q] # y[q] PROVE x[q] < y[q]
    <3>1. q \in 1 .. Len(x) BY <1>4, <2>5
    <3>2. PICK h \in Nat, r \in 1 .. 9 : q = 9 * h + r /\ 8 * h =< Len(a) BY <1>6, <3>1
    <3>3. 9 * h + r < 9 * g + 9 BY <2>2, <3>2
    <3>4. 8 * h =< Len(b) BY <1>2, <2>1, <3>2
    <3>5. CASE r = 9
      <4>1. Len(a) - 8 * h >= 8 /\ Len(b) - 8 * h >= 8 BY <1>2, <2>1, <2>2, <3>2, <3>3, <3>5
      <4>2. At(a, x, h, r) /\ At(b, y, h, r) BY <1>5, <3>2, <3>4, SMTT(30)
      <4> QED BY <2>7, <3>2, <3>5, <4>1, <4>2 DEF At
    <3>6. CASE r # 9
      <4> DEFINE k == 8 * h + r
      <4>1. k \in Nat /\ k >= 1 BY <3>2
      <4>2. /\ k =< Len(a) => x[q] = a[k]
            /\ k > Len(a) => x[q] = 0
            /\ k =< Len(b) => y[q] = b[k]
            /\ k > Len(b) => y[q] = 0
        <5>1. At(a, x, h, r) /\ At(b, y, h, r) BY <1>5, <3>2, <3>4, SMTT(30)
        <5> QED BY <3>2, <3>6, <5>1 DEF At
      <4> HIDE DEF k
      <4>3. k > Len(a) BY <1>2, <2>1, <2>7, <4>1, <4>2
      <4>4. x[q] = 0 BY <4>2, <4>3
      <4>5. y[q] \in Nat
        <5>1. CASE k =< Len(b)
          <6>1. k \in 1 .. Len(b) BY <1>2, <4>1, <5>1
          <6> QED BY <4>2, <5>1, <6>1, ByteAt
        <5>2. CASE k > Len(b) BY <4>2, <5>2
        <5> QED BY <1>2, <4>1, <5>1, <5>2
      <4> QED BY <2>7, <4>4, <4>5
    <3> QED BY <3>5, <3>6
  <2>8. p \in Nat /\ p >= 1 OBVIOUS
  <2> HIDE DEF p
  <2>9. x[p] # y[p]
    <3>1. x[p] \in Nat /\ y[p] \in Nat BY <1>3, <2>5, ByteAt
    <3> QED BY <2>6, <3>1
  <2>10. PICK q \in 1 .. p : x[q] # y[q] /\ \A j \in 1 .. q - 1 : x[j] = y[j]
    <3>1. p =< Len(x) /\ p =< Len(y) BY <2>5
    <3> QED BY <1>3, <2>8, <2>9, <3>1, FirstDifference
  <2>11. x[q] < y[q]
    <3>1. CASE q = p BY <2>6, <3>1
    <3>2. CASE q # p
      <4>1. q \in 1 .. p - 1 BY <2>8, <3>2
      <4> QED BY <2>7, <2>10, <4>1
    <3> QED BY <3>1, <3>2
  <2>12. q \in 1 .. Len(y) /\ q =< Len(x) BY <1>4, <2>5, <2>8
  <2> QED BY <2>10, <2>11, <2>12 DEF DiffersInside, x, y
<1> QED BY <1>2, <1>7, <1>8

--------------------------------------------------------------------------------
(* The entries of the store *)

\* What follows strings that differ inside does not matter.
LEMMA DifferenceInsideDecides ==
  ASSUME NEW a \in Bytes, NEW b \in Bytes, NEW s \in Bytes, NEW t \in Bytes,
         DiffersInside(a, b)
  PROVE  DiffersInside(a \o s, b \o t) /\ Less(a \o s, b \o t)
<1>1. PICK i \in 1 .. Len(b) : /\ i =< Len(a) /\ a[i] < b[i]
                               /\ \A j \in 1 .. i - 1 : a[j] = b[j]
  BY DEF DiffersInside
<1>2. Len(a) \in Nat /\ Len(b) \in Nat /\ Len(s) \in Nat /\ Len(t) \in Nat BY ByteAt
<1>3. Len(a \o s) = Len(a) + Len(s) /\ Len(b \o t) = Len(b) + Len(t) BY DEF Bytes
<1>4. /\ \A j \in 1 .. Len(a) : (a \o s)[j] = a[j]
      /\ \A j \in 1 .. Len(b) : (b \o t)[j] = b[j]
  BY DEF Bytes
<1>5. i \in 1 .. Len(b \o t) /\ i =< Len(a \o s) /\ (a \o s)[i] < (b \o t)[i]
  BY <1>1, <1>2, <1>3, <1>4
<1>6. \A j \in 1 .. i - 1 : (a \o s)[j] = (b \o t)[j] /\ j =< Len(a \o s)
  BY <1>1, <1>2, <1>3, <1>4
<1> QED BY <1>5, <1>6, Zenon DEF DiffersInside, Less, DiffersAt

\* What precedes strings does not matter when it is the same.
LEMMA CommonPrefix ==
  ASSUME NEW a \in Bytes, NEW s \in Bytes, NEW t \in Bytes, Less(s, t)
  PROVE  Less(a \o s, a \o t)
<1>1. PICK i \in 1 .. Len(t) : DiffersAt(s, t, i) BY DEF Less
<1>2. Len(a) \in Nat /\ Len(s) \in Nat /\ Len(t) \in Nat BY ByteAt
<1>3. Len(a \o s) = Len(a) + Len(s) /\ Len(a \o t) = Len(a) + Len(t) BY DEF Bytes
<1> DEFINE n == Len(a) + i
<1>4. n \in 1 .. Len(a \o t) BY <1>2, <1>3
<1>5. ASSUME NEW j \in 1 .. n - 1 PROVE j =< Len(a \o s) /\ (a \o s)[j] = (a \o t)[j]
  <2>1. CASE j =< Len(a)
    <3>1. (a \o s)[j] = a[j] /\ (a \o t)[j] = a[j] BY <1>2, <2>1 DEF Bytes
    <3> QED BY <1>2, <1>3, <2>1, <3>1
  <2>2. CASE j > Len(a)
    <3>1. j - Len(a) \in 1 .. i - 1 BY <1>2, <2>2
    <3>2. j - Len(a) =< Len(s) /\ s[j - Len(a)] = t[j - Len(a)]
      BY <1>1, <3>1, Zenon DEF DiffersAt
    <3>3. j - Len(a) \in 1 .. Len(s) /\ j - Len(a) \in 1 .. Len(t) BY <1>2, <3>1, <3>2
    <3>4. (a \o s)[j] = s[j - Len(a)] /\ (a \o t)[j] = t[j - Len(a)]
      BY <1>2, <1>3, <2>2, <3>3 DEF Bytes
    <3> QED BY <1>2, <1>3, <3>2, <3>4
  <2> QED BY <1>2, <2>1, <2>2
<1>6. n > Len(a \o s) \/ (n =< Len(a \o s) /\ (a \o s)[n] < (a \o t)[n])
  <2>1. CASE i > Len(s) BY <1>2, <1>3, <2>1
  <2>2. CASE i =< Len(s)
    <3>1. s[i] < t[i] BY <1>1, <1>2, <2>2 DEF DiffersAt
    <3>2. (a \o s)[n] = s[i] /\ (a \o t)[n] = t[i] BY <1>2, <1>3, <2>2 DEF Bytes
    <3> QED BY <1>2, <1>3, <2>2, <3>1, <3>2
  <2> QED BY <1>2, <2>1, <2>2
<1> HIDE DEF n
<1>7. DiffersAt(a \o s, a \o t, n) BY <1>4, <1>5, <1>6 DEF DiffersAt
<1> QED BY <1>4, <1>7 DEF Less

\* A word is a byte string, and so is its complement.
LEMMA Words ==
  ASSUME NEW v \in Uint64Bytes
  PROVE  /\ v \in Bytes /\ Len(v) = 8
         /\ [i \in 1 .. 8 |-> 255 - v[i]] \in Uint64Bytes
<1>1. v = [i \in 1 .. 8 |-> v[i]] /\ \A i \in 1 .. 8 : v[i] \in Byte BY DEF Uint64Bytes
<1>2. v \in Bytes /\ Len(v) = 8 BY <1>1 DEF Bytes
<1>3. \A x \in Byte : 255 - x \in Byte BY DEF Byte
<1>4. [i \in 1 .. 8 |-> 255 - v[i]] \in Uint64Bytes BY <1>3 DEF Uint64Bytes
<1> QED BY <1>2, <1>4

\* The complement turns the order round.
LEMMA ComplementDescends ==
  ASSUME NEW v \in Uint64Bytes, NEW w \in Uint64Bytes, Less(w, v)
  PROVE  Less([i \in 1 .. 8 |-> 255 - v[i]], [i \in 1 .. 8 |-> 255 - w[i]])
<1> DEFINE x == [i \in 1 .. 8 |-> 255 - v[i]]
           y == [i \in 1 .. 8 |-> 255 - w[i]]
<1>1. Len(v) = 8 /\ Len(w) = 8 /\ v \in Bytes /\ w \in Bytes BY Words, Zenon
<1>2. x \in Uint64Bytes /\ y \in Uint64Bytes BY Words
<1>3. Len(x) = 8 /\ Len(y) = 8 BY <1>2, Words
<1>4. PICK n \in 1 .. 8 : DiffersAt(w, v, n) BY <1>1 DEF Less
<1>5. \A i \in 1 .. 8 : v[i] \in Nat /\ w[i] \in Nat /\ x[i] = 255 - v[i] /\ y[i] = 255 - w[i]
  BY <1>1, ByteAt, Zenon
<1> HIDE DEF x, y
<1>6. w[n] < v[n] /\ \A j \in 1 .. n - 1 : w[j] = v[j] BY <1>1, <1>4 DEF DiffersAt
<1>7. x[n] < y[n] BY <1>5, <1>6
<1>8. \A j \in 1 .. n - 1 : j =< Len(x) /\ x[j] = y[j]
  <2>1. \A j \in 1 .. n - 1 : j \in 1 .. 8 OBVIOUS
  <2> QED BY <1>3, <1>5, <1>6, <2>1
<1>9. DiffersAt(x, y, n) BY <1>3, <1>7, <1>8 DEF DiffersAt
<1> QED BY <1>3, <1>9, Zenon DEF Less, x, y

\* One direction of the next theorem.
LEMMA EntryOrdering ==
  ASSUME NEW a \in Bytes, NEW b \in Bytes, NEW v \in Uint64Bytes, NEW w \in Uint64Bytes,
         Less(a, b) \/ (a = b /\ Less(w, v))
  PROVE  Less(mvccEncode(a, v), mvccEncode(b, w))
<1> DEFINE x == [i \in 1 .. 8 |-> 255 - v[i]]
           y == [i \in 1 .. 8 |-> 255 - w[i]]
<1>1. x \in Uint64Bytes /\ y \in Uint64Bytes BY Words
<1>2. x \in Bytes /\ y \in Bytes BY <1>1, Words, Zenon
<1>3. EncodeBytes(a) \in Bytes /\ EncodeBytes(b) \in Bytes BY EncodedShape
<1>4. mvccEncode(a, v) = EncodeBytes(a) \o x /\ mvccEncode(b, w) = EncodeBytes(b) \o y
  BY DEF mvccEncode, EncodeUintDesc
<1>5. a = b /\ Less(w, v) => Less(x, y) BY ComplementDescends
<1> HIDE DEF x, y
<1>6. CASE Less(a, b)
  <2>1. DiffersInside(EncodeBytes(a), EncodeBytes(b)) BY <1>6, EncodeBytesAscending
  <2> QED BY <1>2, <1>3, <1>4, <2>1, DifferenceInsideDecides
<1>7. CASE a = b /\ Less(w, v) BY <1>2, <1>3, <1>4, <1>5, <1>7, CommonPrefix
<1> QED BY <1>6, <1>7

\* The key layout MVCCLevelDB documents: entries sort by key and, for one key,
\* by descending version, so that an iterator meets the lock first, then the
\* newest version.
THEOREM KeyLayout ==
  ASSUME NEW a \in Bytes, NEW b \in Bytes, NEW v \in Uint64Bytes, NEW w \in Uint64Bytes
  PROVE  Less(mvccEncode(a, v), mvccEncode(b, w)) <=> (Less(a, b) \/ (a = b /\ Less(w, v)))
<1>1. Less(a, b) \/ (a = b /\ Less(w, v)) => Less(mvccEncode(a, v), mvccEncode(b, w))
  BY EntryOrdering
<1>2. Less(b, a) \/ (b = a /\ Less(v, w)) => Less(mvccEncode(b, w), mvccEncode(a, v))
  BY EntryOrdering
<1>3. mvccEncode(a, v) \in Bytes /\ mvccEncode(b, w) \in Bytes
  <2>1. ASSUME NEW d \in Bytes, NEW u \in Uint64Bytes PROVE mvccEncode(d, u) \in Bytes
    <3>1. [i \in 1 .. 8 |-> 255 - u[i]] \in Uint64Bytes BY Words
    <3>2. [i \in 1 .. 8 |-> 255 - u[i]] \in Bytes BY <3>1, Words, Zenon
    <3>3. EncodeBytes(d) \in Bytes BY EncodedShape
    <3> QED BY <3>2, <3>3 DEF mvccEncode, EncodeUintDesc, Bytes
  <2> QED BY <2>1
<1>4. Less(a, b) \/ a = b \/ Less(b, a) BY LessTotal
<1>5. Less(v, w) \/ v = w \/ Less(w, v)
  <2>1. v \in Bytes /\ w \in Bytes BY Words, Zenon
  <2> QED BY <2>1, LessTotal
<1>6. Less(mvccEncode(a, v), mvccEncode(b, w))
        => mvccEncode(a, v) # mvccEncode(b, w) /\ ~ Less(mvccEncode(b, w), mvccEncode(a, v))
  BY <1>3, LessAsymmetric
<1> QED BY <1>1, <1>2, <1>4, <1>5, <1>6

--------------------------------------------------------------------------------
(* Decoding *)

\* The markers of an encoding tell where it ends.
LEMMA LastGroup ==
  ASSUME NEW d \in Bytes, NEW s \in Bytes, NEW n \in Nat, n >= 1
  PROVE  IsLastGroup(EncodeBytes(d) \o s, n) <=> n = Len(d) \div 8 + 1
<1> DEFINE e == EncodeBytes(d)
           b == e \o s
           z == Len(d) \div 8 + 1
<1>1. /\ Len(d) \in Nat /\ e \in Bytes /\ Len(e) = z * 9 /\ z \in Nat /\ z >= 1
      /\ 8 * (z - 1) =< Len(d) /\ Len(d) < 8 * z
  <2>1. Len(d) \in Nat /\ e \in Bytes /\ Len(e) = z * 9 BY EncodedShape
  <2>2. \A k \in Nat : /\ k \div 8 + 1 \in Nat /\ k \div 8 + 1 >= 1
                      /\ 8 * (k \div 8 + 1 - 1) =< k /\ k < 8 * (k \div 8 + 1)
    OBVIOUS
  <2> QED BY <2>1, <2>2
<1>2. Len(b) = Len(e) + Len(s) /\ Len(s) \in Nat /\ \A p \in 1 .. Len(e) : b[p] = e[p]
  <2>1. e \in Seq(Byte) /\ s \in Seq(Byte) BY <1>1 DEF Bytes
  <2> HIDE DEF e
  <2> QED BY <2>1
<1>3. ASSUME NEW m \in Nat, m >= 1, m =< z
      PROVE  /\ m * 9 \in 1 .. Len(b)
             /\ b[m * 9] = IF Len(d) - 8 * (m - 1) >= 8 THEN 255 ELSE 247 + (Len(d) - 8 * (m - 1))
  <2> DEFINE g == m - 1
  <2>1. g \in Nat /\ 8 * g =< Len(d) /\ 9 \in 1 .. 9 /\ 9 * g + 9 = m * 9 BY <1>1, <1>3
  <2> HIDE DEF g
  <2>2. /\ 9 * g + 9 \in 1 .. Len(e)
        /\ e[9 * g + 9] = IF Len(d) - 8 * g >= 8 THEN 255 ELSE 247 + (Len(d) - 8 * g)
    BY <2>1, EncodedAt
  <2>3. m * 9 \in 1 .. Len(e) BY <2>1, <2>2
  <2>4. b[m * 9] = e[m * 9] BY <1>2, <2>3
  <2>5. m * 9 \in 1 .. Len(b) BY <1>1, <1>2, <2>3
  <2> QED BY <2>1, <2>2, <2>4, <2>5 DEF g
<1> HIDE DEF b, e, z
<1>4. ASSUME NEW m \in Nat, m >= 1, m < z PROVE b[m * 9] = 255 /\ m * 9 =< Len(b)
  <2>1. Len(d) - 8 * (m - 1) >= 8 BY <1>1, <1>4
  <2> QED BY <1>1, <1>3, <1>4, <2>1
<1>5. b[z * 9] # 255 /\ z * 9 =< Len(b)
  <2>1. ~ (Len(d) - 8 * (z - 1) >= 8) /\ 247 + (Len(d) - 8 * (z - 1)) # 255 BY <1>1
  <2>2. /\ z * 9 \in 1 .. Len(b)
        /\ b[z * 9] = IF Len(d) - 8 * (z - 1) >= 8 THEN 255 ELSE 247 + (Len(d) - 8 * (z - 1))
    BY <1>1, <1>3
  <2> QED BY <2>1, <2>2
<1>6. IsLastGroup(b, n) <=> /\ n * 9 =< Len(b) /\ b[n * 9] # 255
                            /\ \A m \in 1 .. n - 1 : b[m * 9] = 255
  BY DEF IsLastGroup, encMarker
<1>7. CASE n = z
  <2>1. \A m \in 1 .. n - 1 : m \in Nat /\ m >= 1 /\ m < z BY <1>1, <1>7
  <2> QED BY <1>4, <1>5, <1>6, <1>7, <2>1 DEF b, e, z
<1>8. CASE n < z
  <2>1. b[n * 9] = 255 BY <1>4, <1>8
  <2> QED BY <1>1, <1>6, <1>8, <2>1 DEF b, e, z
<1>9. CASE n > z
  <2>1. z \in 1 .. n - 1 BY <1>1, <1>9
  <2>2. ~ \A m \in 1 .. n - 1 : b[m * 9] = 255 BY <1>5, <2>1
  <2>3. ~ IsLastGroup(b, n) BY <1>6, <2>2
  <2> QED BY <1>1, <1>9, <2>3 DEF b, e, z
<1> QED BY <1>1, <1>7, <1>8, <1>9 DEF z

\* DecodeBytes gives back the data and "the leftover bytes", whatever follows
\* the encoding.
THEOREM DecodeBytesRoundTrip ==
  ASSUME NEW d \in Bytes, NEW s \in Bytes
  PROVE  DecodeBytes(EncodeBytes(d) \o s) = [error |-> FALSE, rest |-> s, key |-> d]
<1> DEFINE e == EncodeBytes(d)
           b == e \o s
           z == Len(d) \div 8 + 1
<1>1. /\ Len(d) \in Nat /\ z \in Nat /\ z >= 1 /\ 8 * (z - 1) =< Len(d) /\ Len(d) < 8 * z
  <2>1. Len(d) \in Nat BY EncodedShape
  <2>2. \A k \in Nat : /\ k \div 8 + 1 \in Nat /\ k \div 8 + 1 >= 1
                      /\ 8 * (k \div 8 + 1 - 1) =< k /\ k < 8 * (k \div 8 + 1)
    OBVIOUS
  <2> QED BY <2>1, <2>2
<1>2. e \in Seq(Byte) /\ Len(e) = z * 9 /\ s \in Seq(Byte) BY EncodedShape DEF Bytes
<1>3. \A n \in Nat : n >= 1 => (IsLastGroup(b, n) <=> n = z) BY LastGroup
<1> DEFINE At(g, o) ==
             /\ 9 * g + o \in 1 .. Len(e)
             /\ o = 9 => e[9 * g + o] = IF Len(d) - 8 * g >= 8 THEN 255 ELSE 247 + (Len(d) - 8 * g)
             /\ o # 9 /\ 8 * g + o =< Len(d) => e[9 * g + o] = d[8 * g + o]
             /\ o # 9 /\ 8 * g + o > Len(d) => e[9 * g + o] = 0
<1>4. ASSUME NEW g \in Nat, NEW o \in 1 .. 9, 8 * g =< Len(d) PROVE At(g, o) BY <1>4, EncodedAt, ZenonT(30)
<1> HIDE DEF At
<1>5. ASSUME NEW i \in Nat, i >= 1, i =< z * 8
      PROVE  /\ i + (i - 1) \div 8 \in 1 .. Len(e)
             /\ e[i + (i - 1) \div 8] = IF i =< Len(d) THEN d[i] ELSE 0
  <2>1. PICK g \in Nat, o \in 1 .. 8 : i = 8 * g + o BY <1>5, Position, Zenon
  <2>2. i + (i - 1) \div 8 = 9 * g + o /\ o \in 1 .. 9 /\ o # 9 /\ 8 * g =< Len(d)
    <3>1. (i - 1) \div 8 = g BY <2>1
    <3>2. g < z BY <1>1, <1>5, <2>1
    <3>3. 8 * g =< Len(d)
      <4> HIDE DEF z
      <4> QED BY <1>1, <3>2
    <3> QED BY <2>1, <3>1, <3>3
  <2>3. /\ 9 * g + o \in 1 .. Len(e)
        /\ 8 * g + o =< Len(d) => e[9 * g + o] = d[8 * g + o]
        /\ 8 * g + o > Len(d) => e[9 * g + o] = 0
    BY <1>4, <2>2, ZenonT(30) DEF At
  <2> HIDE DEF e
  <2>4. i =< Len(d) \/ i > Len(d) BY <1>1
  <2> QED BY <1>1, <2>1, <2>2, <2>3, <2>4
<1>6. e[z * 9] = 247 + (Len(d) - 8 * (z - 1)) /\ z * 9 \in 1 .. Len(e)
  <2> DEFINE g == z - 1
  <2>1. g \in Nat /\ 8 * g =< Len(d) /\ 9 \in 1 .. 9 /\ 9 * g + 9 = z * 9 BY <1>1
  <2>2. ~ (Len(d) - 8 * g >= 8) BY <1>1
  <2> HIDE DEF g, e
  <2>3. /\ 9 * g + 9 \in 1 .. Len(e)
        /\ e[9 * g + 9] = IF Len(d) - 8 * g >= 8 THEN 255 ELSE 247 + (Len(d) - 8 * g)
    BY <2>1, EncodedAt DEF e
  <2>4. e[9 * g + 9] = 247 + (Len(d) - 8 * g) BY <2>2, <2>3
  <2> QED BY <2>1, <2>3, <2>4 DEF g
<1> HIDE DEF e
<1>7. /\ Len(b) = z * 9 + Len(s) /\ Len(s) \in Nat /\ b \in Seq(Byte)
      /\ \A p \in 1 .. Len(e) : b[p] = e[p]
      /\ \A p \in 1 .. Len(s) : b[z * 9 + p] = s[p]
  BY <1>1, <1>2, SMTT(30)
<1> HIDE DEF b, z
<1>8. z \in 1 .. Len(b) /\ IsLastGroup(b, z) BY <1>1, <1>3, <1>7
<1>9. (CHOOSE n \in 1 .. Len(b) : IsLastGroup(b, n)) = z
  <2>1. \A n \in 1 .. Len(b) : IsLastGroup(b, n) => n = z BY <1>3, <1>7
  <2> QED BY <1>8, <2>1
<1>10. DecodeBytes(b) = decodeGroups(b, z) BY <1>8, <1>9, Zenon DEF DecodeBytes
<1> DEFINE pad == 255 - b[z * 9]
           size == z * 8 - (255 - b[z * 9])
<1>11. pad =< 8 /\ size = Len(d) BY <1>1, <1>6, <1>7
<1>12. \A i \in Len(d) + 1 .. z * 8 : b[i + (i - 1) \div 8] = 0
  <2>1. ASSUME NEW i \in Len(d) + 1 .. z * 8 PROVE b[i + (i - 1) \div 8] = 0
    <3>1. i \in Nat /\ i >= 1 /\ i =< z * 8 /\ ~ (i =< Len(d)) BY <1>1
    <3>2. i + (i - 1) \div 8 \in 1 .. Len(e) /\ e[i + (i - 1) \div 8] = 0 BY <1>5, <3>1
    <3> QED BY <1>7, <3>2
  <2> QED BY <2>1
<1>13. [i \in 1 .. Len(d) |-> b[i + (i - 1) \div 8]] = d
  <2>1. ASSUME NEW i \in 1 .. Len(d) PROVE b[i + (i - 1) \div 8] = d[i]
    <3>1. i \in Nat /\ i >= 1 /\ i =< z * 8 /\ i =< Len(d) BY <1>1
    <3>2. i + (i - 1) \div 8 \in 1 .. Len(e) /\ e[i + (i - 1) \div 8] = d[i] BY <1>5, <3>1
    <3> QED BY <1>7, <3>2
  <2>2. d = [i \in 1 .. Len(d) |-> d[i]] BY DEF Bytes
  <2> QED BY <2>1, <2>2
<1>14. SubSeq(b, z * 9 + 1, Len(b)) = s
  <2> DEFINE t == SubSeq(b, z * 9 + 1, Len(b))
  <2>1. t \in Seq(Byte) /\ Len(t) = Len(s) BY <1>1, <1>7
  <2>2. ASSUME NEW p \in 1 .. Len(s) PROVE t[p] = s[p]
    <3>1. t[p] = b[z * 9 + 1 + p - 1] BY <1>1, <1>7, <2>1
    <3>2. z * 9 + 1 + p - 1 = z * 9 + p BY <1>1, <1>7
    <3> QED BY <1>7, <3>1, <3>2, Zenon
  <2> HIDE DEF t
  <2>3. t = s BY <1>2, <2>1, <2>2
  <2> QED BY <2>3 DEF t
<1>15. decodeGroups(b, z) = [error |-> FALSE, rest |-> SubSeq(b, z * 9 + 1, Len(b)),
                             key |-> [i \in 1 .. size |-> b[i + (i - 1) \div 8]]]
  <2>1. ~ (pad > 8)
    <3>1. b[z * 9] = 247 + (Len(d) - 8 * (z - 1)) BY <1>6, <1>7
    <3> QED BY <1>1, <1>11, <3>1
  <2>2. ~ \E i \in size + 1 .. z * 8 : b[i + (i - 1) \div 8] # 0 BY <1>11, <1>12
  <2> QED BY <2>1, <2>2 DEF decodeGroups, encMarker, encGroupSize, encPad
<1> HIDE DEF size
<1> QED BY <1>10, <1>11, <1>13, <1>14, <1>15, Zenon DEF b, e

\* What a string leaves behind its first m bytes.
LEMMA SplitAt ==
  ASSUME NEW b \in Bytes, NEW m \in Nat, m =< Len(b), NEW s, s = SubSeq(b, m + 1, Len(b))
  PROVE  s \in Bytes /\ Len(s) = Len(b) - m /\ \A p \in 1 .. Len(s) : s[p] = b[m + p]
<1>1. b \in Seq(Byte) /\ Len(b) \in Nat BY DEF Bytes
<1>2. s \in Seq(Byte) /\ Len(s) = Len(b) - m BY <1>1
<1>3. ASSUME NEW p \in 1 .. Len(s) PROVE s[p] = b[m + p]
  <2>1. s[p] = b[m + 1 + p - 1] BY <1>1, <1>2
  <2>2. m + 1 + p - 1 = m + p BY <1>1, <1>2
  <2> QED BY <2>1, <2>2, Zenon
<1> QED BY <1>2, <1>3, SMTT(30) DEF Bytes

\* A string is the concatenation of two that have its bytes between them.
LEMMA Joined ==
  ASSUME NEW b \in Bytes, NEW e \in Bytes, NEW s \in Bytes, Len(e) + Len(s) = Len(b),
         \A p \in 1 .. Len(e) : e[p] = b[p], \A p \in 1 .. Len(s) : s[p] = b[Len(e) + p]
  PROVE  b = e \o s
<1> DEFINE c == e \o s
<1>1. /\ b \in Seq(Byte) /\ e \in Seq(Byte) /\ s \in Seq(Byte)
      /\ Len(b) \in Nat /\ Len(e) \in Nat /\ Len(s) \in Nat
  BY DEF Bytes
<1>2. c \in Seq(Byte) /\ Len(c) = Len(b) BY <1>1
<1>3. ASSUME NEW p \in 1 .. Len(b) PROVE c[p] = b[p]
  <2>1. CASE p =< Len(e) BY <1>1, <2>1
  <2>2. CASE p > Len(e)
    <3>1. p - Len(e) \in 1 .. Len(s) /\ Len(e) + (p - Len(e)) = p BY <1>1, <2>2
    <3>2. c[p] = s[p - Len(e)] BY <1>1, <2>2
    <3>3. s[p - Len(e)] = b[Len(e) + (p - Len(e))] BY <3>1, Zenon
    <3> QED BY <3>1, <3>2, <3>3, Zenon
  <2> QED BY <1>1, <2>1, <2>2
<1> HIDE DEF c
<1>4. c = b BY <1>1, <1>2, <1>3
<1> QED BY <1>4 DEF c

\* The other direction: what DecodeBytes accepts is the encoding of the key it
\* returns, followed by the bytes it leaves.  A key has one encoding, and the
\* checks of the markers and of the padding leave room for no other.
THEOREM DecodedIsEncoded ==
  ASSUME NEW b \in Bytes, DecodeBytes(b).error = FALSE
  PROVE  /\ DecodeBytes(b).key \in Bytes /\ DecodeBytes(b).rest \in Bytes
         /\ b = EncodeBytes(DecodeBytes(b).key) \o DecodeBytes(b).rest
<1> DEFINE n == CHOOSE m \in 1 .. Len(b) : IsLastGroup(b, m)
           size == n * 8 - (255 - b[n * 9])
           d == [i \in 1 .. size |-> b[i + (i - 1) \div 8]]
           s == SubSeq(b, n * 9 + 1, Len(b))
<1>1. (\E m \in 1 .. Len(b) : IsLastGroup(b, m)) /\ DecodeBytes(b) = decodeGroups(b, n)
  <2>1. CASE ~ \E m \in 1 .. Len(b) : IsLastGroup(b, m)
    <3>1. DecodeBytes(b).error = TRUE BY <2>1 DEF DecodeBytes, Failed
    <3> QED BY <3>1
  <2>2. CASE \E m \in 1 .. Len(b) : IsLastGroup(b, m)
    BY <2>2, Zenon DEF DecodeBytes
  <2> QED BY <2>1, <2>2
<1>2. n \in 1 .. Len(b) /\ IsLastGroup(b, n) BY <1>1, Zenon
<1> HIDE DEF n
<1>3. /\ Len(b) \in Nat /\ n \in Nat /\ n >= 1 /\ n * 9 =< Len(b) /\ b[n * 9] \in Byte
      /\ b[n * 9] # 255 /\ \A p \in 1 .. Len(b) : b[p] \in Byte
  BY <1>2 DEF IsLastGroup, encMarker, Bytes
<1>4. /\ 255 - b[n * 9] =< 8
      /\ \A i \in size + 1 .. n * 8 : b[i + (i - 1) \div 8] = 0
      /\ decodeGroups(b, n) = [error |-> FALSE, rest |-> s, key |-> d]
  <2> DEFINE bad == \/ 255 - b[n * 9] > 8
                    \/ \E i \in size + 1 .. n * 8 : b[i + (i - 1) \div 8] # 0
  <2>1. decodeGroups(b, n) = IF bad THEN Failed
                             ELSE [error |-> FALSE, rest |-> s, key |-> d]
    BY DEF decodeGroups, encMarker, encGroupSize, encPad
  <2>2. ~ bad
    <3> HIDE DEF bad
    <3>1. bad => decodeGroups(b, n).error = TRUE BY <2>1 DEF Failed
    <3> QED BY <1>1, <3>1
  <2>3. decodeGroups(b, n) = [error |-> FALSE, rest |-> s, key |-> d]
    <3> HIDE DEF bad
    <3> QED BY <2>1, <2>2, Zenon
  <2>4. ~ (255 - b[n * 9] > 8) BY <2>2, Zenon
  <2>5. 255 - b[n * 9] =< 8
    <3>1. \A x \in Byte : ~ (255 - x > 8) => 255 - x =< 8 BY DEF Byte
    <3> QED BY <1>3, <2>4, <3>1, Zenon
  <2>6. \A i \in size + 1 .. n * 8 : b[i + (i - 1) \div 8] = 0 BY <2>2, Zenon
  <2> QED BY <2>3, <2>5, <2>6, Zenon
<1>5. size \in Nat /\ 8 * (n - 1) =< size /\ size < 8 * n /\ b[n * 9] = 255 - (n * 8 - size)
  <2>1. \A x \in 0 .. 255 : x # 255 /\ 255 - x =< 8 =>
          /\ n * 8 - (255 - x) \in Nat /\ 8 * (n - 1) =< n * 8 - (255 - x)
          /\ n * 8 - (255 - x) < 8 * n /\ x = 255 - (n * 8 - (n * 8 - (255 - x)))
    BY <1>3
  <2>2. b[n * 9] \in 0 .. 255 BY <1>3, Zenon DEF Byte
  <2>3. b[n * 9] # 255 /\ 255 - b[n * 9] =< 8 BY <1>3, <1>4, Zenon
  <2> QED BY <2>1, <2>2, <2>3
<1> HIDE DEF size
\* Byte i of the data, and the padding behind it, in their places.
<1>7. ASSUME NEW g \in Nat, NEW o \in 1 .. 8, g < n
      PROVE  /\ 9 * g + o \in 1 .. Len(b)
             /\ (8 * g + o) + (8 * g + o - 1) \div 8 = 9 * g + o
             /\ 8 * g + o =< size => d[8 * g + o] = b[9 * g + o]
             /\ 8 * g + o > size => b[9 * g + o] = 0
  <2>1. (8 * g + o - 1) \div 8 = g /\ (8 * g + o) + g = 9 * g + o OBVIOUS
  <2>2. 9 * g + o \in 1 .. Len(b) BY <1>3, <1>7
  <2>3. ASSUME 8 * g + o =< size PROVE d[8 * g + o] = b[9 * g + o]
    <3>1. 8 * g + o \in 1 .. size BY <1>5, <2>3
    <3> QED BY <2>1, <3>1
  <2>4. ASSUME 8 * g + o > size PROVE b[9 * g + o] = 0
    <3>1. 8 * g + o \in size + 1 .. n * 8 BY <1>3, <1>5, <1>7, <2>4
    <3>2. b[(8 * g + o) + (8 * g + o - 1) \div 8] = 0 BY <1>4, <3>1
    <3> QED BY <2>1, <3>2
  <2> QED BY <2>1, <2>2, <2>3, <2>4
<1>8. d \in Bytes /\ Len(d) = size
  <2>1. ASSUME NEW i \in 1 .. size PROVE b[i + (i - 1) \div 8] \in Byte
    <3>1. i \in Nat /\ i >= 1 BY <1>5
    <3>2. PICK g \in Nat, o \in 1 .. 8 : i = 8 * g + o BY <3>1, Position, Zenon
    <3>3. g < n BY <1>3, <1>5, <3>2
    <3>4. 9 * g + o \in 1 .. Len(b) /\ (8 * g + o) + (8 * g + o - 1) \div 8 = 9 * g + o
      BY <1>7, <3>3, Zenon
    <3>5. b[(8 * g + o) + (8 * g + o - 1) \div 8] \in Byte BY <1>3, <3>4, Zenon
    <3> QED BY <3>2, <3>5
  <2>2. d \in [1 .. size -> Byte] BY <2>1
  <2> QED BY <1>5, <2>2 DEF Bytes
<1>9. s \in Bytes /\ Len(s) = Len(b) - n * 9 /\ \A p \in 1 .. Len(s) : s[p] = b[n * 9 + p]
  <2>1. n * 9 \in Nat /\ n * 9 =< Len(b) /\ s = SubSeq(b, n * 9 + 1, Len(b)) BY <1>3
  <2> HIDE DEF s
  <2> QED BY <2>1, SplitAt
<1> HIDE DEF d, s
<1>10. Len(EncodeBytes(d)) = n * 9 /\ EncodeBytes(d) \in Bytes
  <2>1. Len(EncodeBytes(d)) = (Len(d) \div 8 + 1) * 9 /\ EncodeBytes(d) \in Bytes
    BY <1>8, EncodedShape, Zenon
  <2>2. size \div 8 + 1 = n BY <1>3, <1>5
  <2> QED BY <1>8, <2>1, <2>2
<1>11. ASSUME NEW p \in 1 .. n * 9 PROVE EncodeBytes(d)[p] = b[p]
  <2>1. p \in Nat /\ p >= 1 /\ p =< n * 9 BY <1>3
  <2>2. PICK g \in Nat, o \in 1 .. 9 : p = 9 * g + o BY <2>1, Position, Zenon
  <2>3. g < n /\ 8 * g =< Len(d) BY <1>3, <1>5, <1>8, <2>1, <2>2
  <2>4. /\ 9 * g + o \in 1 .. Len(EncodeBytes(d))
        /\ o = 9 => EncodeBytes(d)[9 * g + o] =
                      IF Len(d) - 8 * g >= 8 THEN 255 ELSE 247 + (Len(d) - 8 * g)
        /\ o # 9 /\ 8 * g + o =< Len(d) => EncodeBytes(d)[9 * g + o] = d[8 * g + o]
        /\ o # 9 /\ 8 * g + o > Len(d) => EncodeBytes(d)[9 * g + o] = 0
    <3>1. d \in Bytes BY <1>8, Zenon
    <3>2. 8 * g =< Len(d) BY <2>3, Zenon
    <3> QED BY <3>1, <3>2, EncodedAt, ZenonT(30)
  <2>5. CASE o # 9
    <3>1. o \in 1 .. 8 BY <2>5
    <3>2. /\ 8 * g + o =< size => d[8 * g + o] = b[9 * g + o]
          /\ 8 * g + o > size => b[9 * g + o] = 0
      BY <1>7, <2>3, <3>1, Zenon
    <3>3. 8 * g + o =< size \/ 8 * g + o > size BY <1>5
    <3> QED BY <1>8, <2>2, <2>4, <2>5, <3>2, <3>3, Zenon
  <2>6. CASE o = 9 /\ g < n - 1
    <3>1. Len(d) - 8 * g >= 8 BY <1>3, <1>5, <1>8, <2>6
    <3>2. EncodeBytes(d)[p] = 255 BY <2>2, <2>4, <2>6, <3>1, Zenon
    <3>3. g + 1 \in 1 .. n - 1 /\ (g + 1) * 9 = p BY <1>3, <2>2, <2>6
    <3>4. b[(g + 1) * 9] = 255 BY <1>2, <3>3 DEF IsLastGroup, encMarker
    <3> QED BY <3>2, <3>3, <3>4, Zenon
  <2>7. CASE o = 9 /\ ~ (g < n - 1)
    <3>1. g = n - 1 /\ p = n * 9 BY <1>3, <2>2, <2>3, <2>7
    <3>2. ~ (Len(d) - 8 * g >= 8) /\ 247 + (Len(d) - 8 * g) = b[n * 9]
      BY <1>3, <1>5, <1>8, <3>1
    <3>3. EncodeBytes(d)[p] = 247 + (Len(d) - 8 * g) BY <2>2, <2>4, <2>7, <3>2, Zenon
    <3> QED BY <3>1, <3>2, <3>3, Zenon
  <2> QED BY <2>5, <2>6, <2>7
<1>12. b = EncodeBytes(d) \o s
  <2> DEFINE e == EncodeBytes(d)
  <2>1. e \in Bytes /\ Len(e) = n * 9 /\ \A p \in 1 .. Len(e) : e[p] = b[p]
    BY <1>10, <1>11, Zenon
  <2> HIDE DEF e
  <2>2. Len(e) + Len(s) = Len(b) BY <1>3, <1>9, <2>1
  <2>3. \A p \in 1 .. Len(s) : s[p] = b[Len(e) + p] BY <1>9, <2>1, Zenon
  <2>4. b = e \o s BY <1>9, <2>1, <2>2, <2>3, Joined, Zenon
  <2> QED BY <2>4 DEF e
<1>13. DecodeBytes(b).key = d /\ DecodeBytes(b).rest = s BY <1>1, <1>4
<1> QED BY <1>8, <1>9, <1>12, <1>13, Zenon

\* The errors of mvccDecode marked "should never happen" do not, for the keys
\* mvccEncode makes.
THEOREM MvccDecodeRoundTrip ==
  ASSUME NEW d \in Bytes, NEW v \in Uint64Bytes
  PROVE  mvccDecode(mvccEncode(d, v)) = [error |-> FALSE, key |-> d, ver |-> v]
<1> DEFINE x == [i \in 1 .. 8 |-> 255 - v[i]]
<1>1. x \in Uint64Bytes /\ v \in Bytes /\ Len(v) = 8 BY Words
<1>2. x \in Bytes /\ Len(x) = 8 BY <1>1, Words, Zenon
<1>3. DecodeBytes(EncodeBytes(d) \o x) = [error |-> FALSE, rest |-> x, key |-> d]
  BY <1>2, DecodeBytesRoundTrip, Zenon
<1>4. [i \in 1 .. 8 |-> 255 - x[i]] = v
  <2>1. \A i \in 1 .. 8 : v[i] \in Nat BY <1>1, ByteAt, Zenon
  <2>2. \A i \in 1 .. 8 : 255 - x[i] = v[i] BY <2>1
  <2>3. v = [i \in 1 .. 8 |-> v[i]] BY DEF Uint64Bytes
  <2> QED BY <2>2, <2>3
<1>5. mvccEncode(d, v) = EncodeBytes(d) \o x BY DEF mvccEncode, EncodeUintDesc
<1> HIDE DEF x
<1> DEFINE r == DecodeBytes(mvccEncode(d, v))
<1>6. r.error = FALSE /\ r.rest = x /\ r.key = d BY <1>3, <1>5
<1>7. mvccDecode(mvccEncode(d, v))
        = IF r.error THEN Failed
          ELSE IF Len(r.rest) = 0 THEN [error |-> FALSE, key |-> r.key,
                                        ver |-> [i \in 1 .. 8 |-> 0]]
          ELSE IF Len(r.rest) = 8 THEN [error |-> FALSE, key |-> r.key,
                                        ver |-> [i \in 1 .. 8 |-> 255 - r.rest[i]]]
          ELSE Failed
  BY DEF mvccDecode
<1> HIDE DEF r
<1>8. mvccDecode(mvccEncode(d, v)) = [error |-> FALSE, key |-> d,
                                      ver |-> [i \in 1 .. 8 |-> 255 - x[i]]]
  BY <1>2, <1>6, <1>7
<1> QED BY <1>4, <1>8, Zenon

\* mvccDecode takes nothing for an entry key but what mvccEncode, or EncodeBytes
\* alone, makes of the key and the version it returns: bytes that are no entry
\* key are reported as an error, and no two keys are read as the same entry.
THEOREM OnlyEntriesDecode ==
  ASSUME NEW b \in Bytes, mvccDecode(b).error = FALSE
  PROVE  /\ mvccDecode(b).key \in Bytes /\ mvccDecode(b).ver \in Uint64Bytes
         /\ \/ b = mvccEncode(mvccDecode(b).key, mvccDecode(b).ver)
            \/ b = EncodeBytes(mvccDecode(b).key)
<1> DEFINE r == DecodeBytes(b)
           x == r.rest
           d == r.key
<1>1. mvccDecode(b) = IF r.error THEN Failed
                      ELSE IF Len(x) = 0 THEN [error |-> FALSE, key |-> d,
                                               ver |-> [i \in 1 .. 8 |-> 0]]
                      ELSE IF Len(x) = 8 THEN [error |-> FALSE, key |-> d,
                                               ver |-> [i \in 1 .. 8 |-> 255 - x[i]]]
                      ELSE Failed
  BY DEF mvccDecode
<1>2. Failed.error = TRUE BY DEF Failed
<1>3. r.error = FALSE
  <2>1. r.error \in BOOLEAN
    <3>1. Failed.error \in BOOLEAN BY <1>2
    <3>2. \A n : decodeGroups(b, n).error \in BOOLEAN BY <3>1 DEF decodeGroups
    <3> QED BY <3>1, <3>2 DEF DecodeBytes
  <2> HIDE DEF r, x, d
  <2>2. r.error = TRUE => mvccDecode(b).error = TRUE BY <1>1, <1>2
  <2> QED BY <2>1, <2>2
<1>4. d \in Bytes /\ x \in Bytes /\ b = EncodeBytes(d) \o x BY <1>3, DecodedIsEncoded, Zenon
<1>5. EncodeBytes(d) \in Bytes BY <1>4, EncodedShape, Zenon
<1> HIDE DEF r, x, d
<1>6. CASE Len(x) = 0
  <2>1. mvccDecode(b) = [error |-> FALSE, key |-> d, ver |-> [i \in 1 .. 8 |-> 0]]
    BY <1>1, <1>3, <1>6, Zenon
  <2>2. [i \in 1 .. 8 |-> 0] \in Uint64Bytes BY DEF Uint64Bytes, Byte
  <2>3. b = EncodeBytes(d) BY <1>4, <1>5, <1>6 DEF Bytes
  <2> QED BY <1>4, <2>1, <2>2, <2>3
<1>7. CASE Len(x) = 8
  <2> DEFINE v == [i \in 1 .. 8 |-> 255 - x[i]]
  <2>1. ~ (Len(x) = 0) BY <1>7
  <2>2. mvccDecode(b) = [error |-> FALSE, key |-> d, ver |-> v]
    BY <1>1, <1>3, <1>7, <2>1, Zenon
  <2>3. x = [i \in 1 .. 8 |-> x[i]] /\ \A i \in 1 .. 8 : x[i] \in 0 .. 255
    <3>1. x = [i \in 1 .. Len(x) |-> x[i]] BY <1>4 DEF Bytes
    <3>2. \A i \in 1 .. Len(x) : x[i] \in Byte BY <1>4 DEF Bytes
    <3> QED BY <1>7, <3>1, <3>2, Zenon DEF Byte
  <2>4. v \in Uint64Bytes BY <2>3, SMTT(30) DEF Uint64Bytes, Byte
  <2>5. [i \in 1 .. 8 |-> 255 - v[i]] = x
    <3>1. \A i \in 1 .. 8 : 255 - v[i] = x[i]
      <4> TAKE i \in 1 .. 8
      <4>1. v[i] = 255 - x[i] BY Zenon
      <4>2. x[i] \in 0 .. 255 BY <2>3, Zenon
      <4> HIDE DEF v
      <4> QED BY <4>1, <4>2, SMTT(30)
    <3> QED BY <2>3, <3>1
  <2> HIDE DEF v
  <2>6. b = mvccEncode(d, v) BY <1>4, <2>5, Zenon DEF mvccEncode, EncodeUintDesc
  <2> QED BY <1>4, <2>2, <2>4, <2>6
<1>8. CASE ~ (Len(x) = 0) /\ ~ (Len(x) = 8)
  <2>1. mvccDecode(b) = Failed BY <1>1, <1>3, <1>8, Zenon
  <2> QED BY <1>2, <2>1
<1> QED BY <1>6, <1>7, <1>8

--------------------------------------------------------------------------------
(* Bounds without a version *)

\* An encoded key sorts below all entries of its key and above those of smaller
\* keys.
LEMMA EncodedAsBound ==
  ASSUME NEW k \in Bytes, NEW v \in Uint64Bytes, NEW s \in Bytes
  PROVE  Less(mvccEncode(k, v), EncodeBytes(s)) <=> Less(k, s)
<1> DEFINE x == [i \in 1 .. 8 |-> 255 - v[i]]
           a == EncodeBytes(k)
           b == EncodeBytes(s)
<1>1. x \in Uint64Bytes BY Words
<1>2. x \in Bytes /\ Len(x) = 8 BY <1>1, Words, Zenon
<1>3. a \in Bytes /\ b \in Bytes BY EncodedShape
<1>4. mvccEncode(k, v) = a \o x BY DEF mvccEncode, EncodeUintDesc
<1>5. Less(k, s) => DiffersInside(a, b) BY EncodeBytesAscending
<1>6. Less(s, k) => DiffersInside(b, a) BY EncodeBytesAscending
<1>7. k = s => a = b OBVIOUS
<1> HIDE DEF x, a, b
<1>8. <<>> \in Bytes /\ b \o <<>> = b BY <1>3 DEF Bytes
<1>9. a \o x \in Bytes BY <1>2, <1>3 DEF Bytes
<1>10. CASE Less(k, s)
  <2>1. Less(a \o x, b \o <<>>) BY <1>2, <1>3, <1>5, <1>8, <1>10, DifferenceInsideDecides, Zenon
  <2> QED BY <1>4, <1>8, <1>10, <2>1 DEF b
<1>11. CASE Less(s, k)
  <2>1. Less(b \o <<>>, a \o x) BY <1>2, <1>3, <1>6, <1>8, <1>11, DifferenceInsideDecides, Zenon
  <2>2. ~ Less(a \o x, b) BY <1>3, <1>8, <1>9, <2>1, LessAsymmetric
  <2>3. ~ Less(k, s) BY <1>11, LessAsymmetric
  <2> QED BY <1>4, <2>2, <2>3 DEF b
<1>12. CASE k = s
  <2>1. Len(a) \in Nat BY <1>3, ByteAt
  <2>2. Len(a \o x) = Len(a) + 8 /\ \A j \in 1 .. Len(a) : (a \o x)[j] = a[j]
    <3>1. a \in Seq(Byte) /\ x \in Seq(Byte) BY <1>2, <1>3 DEF Bytes
    <3>2. Len(a \o x) = Len(a) + Len(x) BY <3>1
    <3>3. \A j \in 1 .. Len(a) : (a \o x)[j] = a[j] BY <1>2, <2>1, <3>1
    <3> QED BY <1>2, <3>2, <3>3
  <2> DEFINE n == Len(a) + 1
  <2>3. n \in 1 .. Len(a \o x) /\ n > Len(a) /\ \A j \in 1 .. n - 1 : j \in 1 .. Len(a)
    BY <2>1, <2>2
  <2> HIDE DEF n
  <2>4. Less(a, a \o x)
    <3>1. DiffersAt(a, a \o x, n) BY <2>1, <2>2, <2>3 DEF DiffersAt
    <3> QED BY <2>3, <3>1 DEF Less
  <2>5. ~ Less(a \o x, a) BY <1>3, <1>9, <2>4, LessAsymmetric
  <2>6. ~ Less(k, s) BY <1>12, LessAsymmetric
  <2> QED BY <1>4, <1>7, <1>12, <2>5, <2>6 DEF b
<1> QED BY <1>10, <1>11, <1>12, LessTotal

\* DeleteRange removes the lock and every version of the keys from its start to
\* its end, and no entry of another key.  Its end key is always encoded, so an
\* empty one is not "no end": no key is below it, and nothing is removed.
THEOREM DeleteRangeIsExact ==
  ASSUME NEW db, NEW k \in Bytes, NEW v \in Uint64Bytes, mvccEncode(k, v) \in db,
         NEW s \in Bytes, NEW e \in Bytes
  PROVE  /\ mvccEncode(k, v) \notin DeleteRange(db, s, e) <=> ~ Less(k, s) /\ Less(k, e)
         /\ mvccEncode(k, v) \in DeleteRange(db, s, <<>>)
<1>1. ASSUME NEW b \in Bytes PROVE EncodeBytes(b) # <<>>
  <2>1. Len(b) \in Nat /\ Len(EncodeBytes(b)) = (Len(b) \div 8 + 1) * 9 BY EncodedShape
  <2>2. \A n \in Nat : (n \div 8 + 1) * 9 # 0 OBVIOUS
  <2>3. Len(EncodeBytes(b)) # 0 BY <2>1, <2>2
  <2> QED BY <2>3
<1>2. ASSUME NEW b \in Bytes
      PROVE  mvccEncode(k, v) \notin DeleteRange(db, s, b) <=> ~ Less(k, s) /\ Less(k, b)
  <2>1. Less(mvccEncode(k, v), EncodeBytes(s)) <=> Less(k, s) BY EncodedAsBound
  <2>2. Less(mvccEncode(k, v), EncodeBytes(b)) <=> Less(k, b) BY EncodedAsBound
  <2>3. EncodeBytes(b) # <<>> BY <1>1
  <2> QED BY <2>1, <2>2, <2>3 DEF DeleteRange, doRawDeleteRange
<1>3. <<>> \in Bytes /\ ~ Less(k, <<>>) BY DEF Bytes, Less
<1> QED BY <1>2, <1>3

--------------------------------------------------------------------------------
(* Encoded keys as bounds of raw keys *)

\* A key sorts below its own encoding.  KvScan compares the end key of a
\* request, which is raw, with the end of the region, which is encoded.
THEOREM RawBelowEncoded ==
  ASSUME NEW a \in Bytes
  PROVE  Less(a, EncodeBytes(a))
<1> DEFINE e == EncodeBytes(a)
<1>1. Len(a) \in Nat /\ e \in Bytes BY EncodedShape
<1>2. Len(a) < Len(e)
  <2>1. Len(e) = (Len(a) \div 8 + 1) * 9 BY EncodedShape
  <2>2. \A k \in Nat : k < (k \div 8 + 1) * 9 OBVIOUS
  <2> QED BY <1>1, <2>1, <2>2
<1> DEFINE At(g, o) ==
             /\ 9 * g + o \in 1 .. Len(e)
             /\ o = 9 => e[9 * g + o] = IF Len(a) - 8 * g >= 8 THEN 255 ELSE 247 + (Len(a) - 8 * g)
             /\ o # 9 /\ 8 * g + o =< Len(a) => e[9 * g + o] = a[8 * g + o]
             /\ o # 9 /\ 8 * g + o > Len(a) => e[9 * g + o] = 0
<1>3. ASSUME NEW g \in Nat, NEW o \in 1 .. 9, 8 * g =< Len(a) PROVE At(g, o) BY <1>3, EncodedAt, Zenon
<1> HIDE DEF At, e
<1>4. Len(e) \in Nat BY <1>1, ByteAt
\* Before the first difference a is all 255 from its ninth byte on, so that e
\* is too: at the difference a has the smaller byte.
<1>5. ASSUME NEW p \in 1 .. Len(a), \A j \in 1 .. p - 1 : a[j] = e[j]
      PROVE  /\ p < 9 => a[p] = e[p]
             /\ p >= 9 => \/ e[p] = 255
                          \/ \E j \in 9 .. p - 1 : e[p] = a[j]
  <2>1. PICK g \in Nat, o \in 1 .. 9 : p = 9 * g + o
    <3>1. p \in Nat /\ p >= 1 BY <1>1
    <3> QED BY <3>1, Position, Zenon
  <2>2. 8 * g =< Len(a) BY <1>1, <2>1
  <2>3. At(g, o) BY <1>3, <2>2
  <2>4. CASE o = 9
    <3>1. Len(a) - 8 * g >= 8 BY <1>1, <2>1, <2>4
    <3>2. e[9 * g + o] = 255 BY <2>3, <2>4, <3>1 DEF At
    <3> QED BY <2>1, <2>4, <3>2
  <2>5. CASE o # 9
    <3>1. 8 * g + o =< Len(a) BY <1>1, <2>1
    <3>2. e[9 * g + o] = a[8 * g + o] BY <2>3, <2>5, <3>1 DEF At
    <3>3. CASE g = 0
      <4>1. 9 * g + o = p /\ 8 * g + o = p /\ ~ (p >= 9) BY <2>1, <2>5, <3>3
      <4> QED BY <3>2, <4>1
    <3>4. CASE g # 0
      <4>1. 8 * g + o \in 9 .. p - 1 /\ p >= 9 BY <2>1, <3>4
      <4> QED BY <2>1, <3>2, <4>1
    <3> QED BY <3>3, <3>4
  <2> QED BY <2>4, <2>5
<1>6. ASSUME NEW n \in Nat, n >= 1, n =< Len(a), a[n] # e[n]
      PROVE  \E p \in 1 .. Len(a) : a[p] < e[p] /\ \A j \in 1 .. p - 1 : a[j] = e[j]
  <2>1. PICK p \in 1 .. n : a[p] # e[p] /\ \A j \in 1 .. p - 1 : a[j] = e[j]
    <3>1. n =< Len(e) BY <1>1, <1>2, <1>4, <1>6
    <3> QED BY <1>1, <1>6, <3>1, FirstDifference
  <2>2. p \in 1 .. Len(a) /\ p \in 1 .. Len(e) BY <1>1, <1>2, <1>4, <1>6
  <2>3. p >= 9 BY <1>1, <1>5, <2>1, <2>2
  <2> DEFINE S == {j \in 9 .. p - 1 : a[j] # 255}
  <2>4. S = {}
    <3>1. SUFFICES ASSUME S # {} PROVE FALSE OBVIOUS
    <3>2. S \in SUBSET Nat OBVIOUS
    <3> HIDE DEF S
    <3>3. PICK q \in S : \A j \in S : q =< j BY <3>1, <3>2, Smallest
    <3>4. q \in 9 .. p - 1 /\ a[q] # 255 BY DEF S
    <3>5. q \in 1 .. Len(a) /\ \A j \in 1 .. q - 1 : a[j] = e[j] BY <2>1, <2>2, <3>4
    <3>6. e[q] = 255 \/ \E j \in 9 .. q - 1 : e[q] = a[j] BY <1>5, <3>4, <3>5
    <3>7. a[q] = e[q] BY <2>1, <3>4
    <3>8. PICK j \in 9 .. q - 1 : e[q] = a[j] BY <3>4, <3>6, <3>7
    <3>9. j \in S BY <3>4, <3>7, <3>8 DEF S
    <3> QED BY <3>3, <3>4, <3>8, <3>9
  <2>5. e[p] = 255
    <3>1. e[p] = 255 \/ \E j \in 9 .. p - 1 : e[p] = a[j] BY <1>5, <2>1, <2>2, <2>3
    <3> QED BY <2>4, <3>1
  <2>6. a[p] < e[p]
    <3>1. a[p] \in Nat /\ a[p] =< 255 BY <1>1, <2>2, ByteAt
    <3> QED BY <2>1, <2>5, <3>1
  <2> QED BY <2>1, <2>2, <2>6
<1>7. CASE \E n \in Nat : n >= 1 /\ n =< Len(a) /\ a[n] # e[n]
  <2>1. PICK p \in 1 .. Len(a) : a[p] < e[p] /\ \A j \in 1 .. p - 1 : a[j] = e[j] BY <1>6, <1>7
  <2>2. p \in 1 .. Len(e) BY <1>1, <1>2, <1>4
  <2>3. DiffersAt(a, e, p) BY <1>1, <2>1, <2>2 DEF DiffersAt
  <2> QED BY <2>2, <2>3 DEF Less, e
<1>8. CASE \A n \in Nat : n >= 1 /\ n =< Len(a) => a[n] = e[n]
  <2>1. Len(a) + 1 \in 1 .. Len(e) BY <1>1, <1>2, <1>4
  <2>2. DiffersAt(a, e, Len(a) + 1) BY <1>1, <1>8, <2>1 DEF DiffersAt
  <2> QED BY <2>1, <2>2 DEF Less, e
<1> QED BY <1>7, <1>8

================================================================================
