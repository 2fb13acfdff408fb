--------------------------- MODULE ScanRequestProofs ---------------------------
(***************************************************************************)
(* What one request of a scan sees: the entries of a range lie together in *)
(* the order of their bytes, so an iterator over encoded keys meets the    *)
(* keys of a range, each once and in order.                                *)
(***************************************************************************)
EXTENDS RegionScan, CodecProofs, FiniteSetTheorems

--------------------------------------------------------------------------------
(* Sorted sequences *)

Below(S, k) == {l \in S : l < k}

\* s lists the numbers of S upwards, each once.
Sorted(s, S) == /\ s \in Seq(S)
                /\ \A i, j \in 1 .. Len(s) : i < j => s[i] < s[j]
                /\ \A k \in S : \E i \in 1 .. Len(s) : s[i] = k

\* The number of smaller members is a number below the size of the set, and
\* grows with the member.
LEMMA Rank ==
  ASSUME NEW S, \A k \in S : k \in Nat, IsFiniteSet(S)
  PROVE  /\ \A k \in S : Cardinality(Below(S, k)) \in 0 .. Cardinality(S) - 1
         /\ \A k, l \in S : k < l => Cardinality(Below(S, k)) < Cardinality(Below(S, l))
<1>1. Cardinality(S) \in Nat
  BY FS_CardinalityType, Zenon
<1>2. \A k \in S : IsFiniteSet(Below(S, k)) /\ Cardinality(Below(S, k)) \in Nat
  BY FS_Subset, FS_CardinalityType DEF Below
<1>3. ASSUME NEW k \in S
      PROVE  Cardinality(Below(S, k)) < Cardinality(S)
  <2>1. Below(S, k) \in SUBSET S /\ k \notin Below(S, k)
    BY DEF Below
  <2>2. /\ Cardinality(Below(S, k)) =< Cardinality(S)
        /\ Cardinality(S) # Cardinality(Below(S, k))
    BY <2>1, FS_Subset, Zenon
  <2> QED
    BY <1>1, <1>2, <2>2
<1>4. ASSUME NEW k \in S, NEW l \in S, k < l
      PROVE  Cardinality(Below(S, k)) < Cardinality(Below(S, l))
  <2>1. /\ Below(S, k) \in SUBSET Below(S, l)
        /\ k \in Below(S, l) /\ k \notin Below(S, k)
    BY <1>4 DEF Below
  <2>2. /\ Cardinality(Below(S, k)) =< Cardinality(Below(S, l))
        /\ Cardinality(Below(S, l)) # Cardinality(Below(S, k))
    BY <1>2, <2>1, FS_Subset, Zenon
  <2> QED
    BY <1>2, <2>2
<1> QED
  BY <1>1, <1>2, <1>3, <1>4

\* Every number below the size of the set is the rank of one member.
LEMMA RankOnto ==
  ASSUME NEW S, \A k \in S : k \in Nat, IsFiniteSet(S), NEW n \in 0 .. Cardinality(S) - 1
  PROVE  \E k \in S : Cardinality(Below(S, k)) = n
<1> DEFINE T == 0 .. Cardinality(S) - 1
           f == [k \in S |-> Cardinality(Below(S, k))]
<1>1. Cardinality(S) \in Nat
  BY FS_CardinalityType, Zenon
<1>2. f \in [S -> T] /\ \A k, l \in S : k < l => f[k] < f[l]
  BY Rank, Zenon
<1>3. \A k, l \in S : f[k] = f[l] => k = l
  <2>1. \A k, l \in S : k \in Nat /\ l \in Nat /\ f[k] \in Nat /\ f[l] \in Nat
    BY <1>1, <1>2
  <2> QED
    BY <1>2, <2>1
<1> HIDE DEF f
<1>4. f \in Injection(S, T)
  BY <1>2, <1>3, Zenon DEF Injection, IsInjective
<1>5. IsFiniteSet(T) /\ Cardinality(T) = Cardinality(S)
  <2> DEFINE m == Cardinality(S) - 1
  <2>1. m \in Int /\ 0 \in Int
    BY <1>1
  <2> HIDE DEF m
  <2>2. IsFiniteSet(0 .. m) /\ Cardinality(0 .. m) = IF 0 > m THEN 0 ELSE m - 0 + 1
    BY <2>1, FS_Interval, Zenon
  <2> QED
    BY <1>1, <2>2 DEF m
<1>6. f \in Surjection(S, T)
  BY <1>4, <1>5, FS_Injection, Zenon
<1>7. \E k \in S : f[k] = n
  BY <1>6, Zenon DEF Surjection
<1> QED
  BY <1>7, Zenon DEF f

\* Ascending lists a set upwards.
LEMMA AscendingIsSorted ==
  ASSUME NEW S, \A k \in S : k \in Nat, IsFiniteSet(S)
  PROVE  Sorted(Ascending(S), S) /\ Len(Ascending(S)) = Cardinality(S)
<1> DEFINE a == Ascending(S)
           n == Cardinality(S)
           rank(k) == Cardinality(Below(S, k))
<1>1. n \in Nat
  BY FS_CardinalityType, Zenon
<1>2. /\ \A k \in S : rank(k) \in 0 .. n - 1
      /\ \A k, l \in S : k < l => rank(k) < rank(l)
  BY Rank, Zenon
<1>3. \A m \in 0 .. n - 1 : \E k \in S : rank(k) = m
  BY RankOnto, Zenon
<1>4. a = [i \in 1 .. n |-> CHOOSE k \in S : rank(k) = i - 1]
  BY Zenon DEF Ascending, Below
<1> HIDE DEF a, n, rank
<1>5. \A i \in 1 .. n : a[i] \in S /\ rank(a[i]) = i - 1
  <2> SUFFICES ASSUME NEW i \in 1 .. n PROVE a[i] \in S /\ rank(a[i]) = i - 1
    BY Zenon
  <2>1. \E k \in S : rank(k) = i - 1
    BY <1>1, <1>3
  <2> QED
    BY <1>4, <2>1, Zenon
<1>6. a \in Seq(S) /\ Len(a) = n
  BY <1>1, <1>4, <1>5
<1>7. ASSUME NEW i \in 1 .. n, NEW j \in 1 .. n, i < j
      PROVE  a[i] < a[j]
  <2>1. a[i] \in Nat /\ a[j] \in Nat /\ rank(a[i]) < rank(a[j])
    BY <1>1, <1>5, <1>7
  <2>2. ~ (a[j] < a[i]) /\ a[i] # a[j]
    <3>1. a[j] < a[i] => rank(a[j]) < rank(a[i])
      BY <1>2, <1>5, Zenon
    <3> QED
      BY <1>1, <1>5, <2>1, <3>1
  <2> QED
    BY <2>1, <2>2
<1>8. ASSUME NEW k \in S
      PROVE  \E i \in 1 .. n : a[i] = k
  <2> DEFINE i == rank(k) + 1
  <2>1. i \in 1 .. n /\ i - 1 = rank(k)
    BY <1>1, <1>2
  <2> HIDE DEF i
  <2>2. a[i] \in S /\ rank(a[i]) = rank(k)
    BY <1>5, <2>1, Zenon
  <2>3. ~ (a[i] < k) /\ ~ (k < a[i])
    BY <1>1, <1>2, <2>2
  <2>4. a[i] = k
    BY <2>2, <2>3
  <2> QED
    BY <2>1, <2>4, Zenon
<1> QED
  BY <1>6, <1>7, <1>8 DEF Sorted, a, n

\* A sequence that lists a set upwards is Ascending of it.
LEMMA SortedIsAscending ==
  ASSUME NEW S, \A k \in S : k \in Nat, IsFiniteSet(S), NEW s, Sorted(s, S)
  PROVE  s = Ascending(S)
<1> DEFINE rank(k) == Cardinality(Below(S, k))
<1>1. Len(s) \in Nat /\ \A i \in 1 .. Len(s) : s[i] \in S /\ s[i] \in Nat /\ i \in Nat
  BY DEF Sorted
<1>2. \A i, j \in 1 .. Len(s) : i < j => s[i] < s[j]
  BY Zenon DEF Sorted
<1>3. \A k \in S : \E i \in 1 .. Len(s) : s[i] = k
  BY Zenon DEF Sorted
<1>4. \A i, j \in 1 .. Len(s) : s[i] = s[j] => i = j
  <2> SUFFICES ASSUME NEW i \in 1 .. Len(s), NEW j \in 1 .. Len(s), s[i] = s[j]
               PROVE  i = j
    BY Zenon
  <2>1. ~ (i < j) /\ ~ (j < i)
    BY <1>1, <1>2
  <2> QED
    BY <1>1, <2>1
<1>5. ASSUME NEW m \in 0 .. Len(s), NEW T,
             \A k : k \in T <=> \E i \in 1 .. m : k = s[i]
      PROVE  Cardinality(T) = m
  <2> DEFINE f == [i \in 1 .. m |-> s[i]]
  <2>1. m \in Nat /\ \A i \in 1 .. m : i \in 1 .. Len(s)
    BY <1>1
  <2>2. f \in [1 .. m -> T] /\ \A t \in T : \E i \in 1 .. m : f[i] = t
    BY <1>5, Zenon
  <2>3. \A i, j \in 1 .. m : f[i] = f[j] => i = j
    BY <1>4, <2>1, Zenon
  <2> HIDE DEF f
  <2>4. f \in Bijection(1 .. m, T)
    BY <2>2, <2>3, Zenon DEF Bijection, Injection, Surjection, IsInjective
  <2>5. ExistsBijection(1 .. m, T)
    BY <2>4, Zenon DEF ExistsBijection
  <2> QED
    BY <2>1, <2>5, FS_CountingElements, Zenon
<1>6. Cardinality(S) = Len(s)
  <2>1. \A k : k \in S <=> \E i \in 1 .. Len(s) : k = s[i]
    BY <1>1, <1>3, Zenon
  <2>2. Len(s) \in 0 .. Len(s)
    BY <1>1
  <2> QED
    BY <1>5, <2>1, <2>2, Zenon
<1>7. ASSUME NEW i \in 1 .. Len(s)
      PROVE  rank(s[i]) = i - 1
  <2> DEFINE m == i - 1
  <2>1. m \in 0 .. Len(s) /\ \A j \in Nat : j \in 1 .. m <=> j \in 1 .. Len(s) /\ j < i
    BY <1>1
  <2> HIDE DEF m
  <2>2. \A j \in 1 .. Len(s) : s[j] < s[i] <=> j < i
    <3>1. \A j \in 1 .. Len(s) : s[j] \in Nat /\ j \in Nat
      BY <1>1, Zenon
    <3>2. ASSUME NEW j \in 1 .. Len(s), ~ (j < i)
          PROVE  ~ (s[j] < s[i])
      <4>1. j = i \/ i < j
        BY <3>1, <3>2
      <4>2. j = i \/ s[i] < s[j]
        BY <1>2, <4>1, Zenon
      <4> QED
        BY <3>1, <4>2
    <3> QED
      BY <1>2, <3>2, Zenon
  <2>3. \A k : k \in Below(S, s[i]) <=> \E j \in 1 .. m : k = s[j]
    <3>1. ASSUME NEW k \in S, k < s[i]
          PROVE  \E j \in 1 .. m : k = s[j]
      <4>1. PICK j \in 1 .. Len(s) : s[j] = k
        BY <1>3, Zenon
      <4>2. j < i /\ j \in Nat
        BY <2>2, <3>1, <4>1
      <4> QED
        BY <2>1, <4>1, <4>2, Zenon
    <3>2. ASSUME NEW j \in 1 .. m
          PROVE  s[j] \in S /\ s[j] < s[i]
      <4>1. j \in Nat
        BY <2>1
      <4>2. j \in 1 .. Len(s) /\ j < i
        BY <2>1, <4>1, Zenon
      <4> QED
        BY <1>1, <2>2, <4>2, Zenon
    <3> QED
      BY <3>1, <3>2, Zenon DEF Below
  <2> QED
    BY <1>5, <2>1, <2>3, Zenon DEF m
<1>8. \A k, l \in S : rank(k) = rank(l) => k = l
  <2>1. \A k, l \in S : k < l => rank(k) < rank(l)
    BY Rank, Zenon
  <2>2. \A k \in S : rank(k) \in Nat
    <3>1. \A k \in S : rank(k) \in 0 .. Cardinality(S) - 1
      BY Rank, Zenon
    <3> QED
      BY <1>1, <1>6, <3>1
  <2> QED
    BY <2>1, <2>2
<1>9. Ascending(S) = [i \in 1 .. Cardinality(S) |-> CHOOSE k \in S : rank(k) = i - 1]
  BY Zenon DEF Ascending, Below
<1> HIDE DEF rank
<1>10. \A i \in 1 .. Len(s) : s[i] = CHOOSE k \in S : rank(k) = i - 1
  BY <1>1, <1>7, <1>8, Zenon
<1>11. s = [i \in 1 .. Len(s) |-> s[i]]
  BY DEF Sorted
<1> QED
  BY <1>6, <1>9, <1>10, <1>11, Zenon

\* Replies that follow one another.
LEMMA SortedConcat ==
  ASSUME NEW S, NEW T, NEW s, NEW t, Sorted(s, S), Sorted(t, T),
         \A k \in S, l \in T : k < l
  PROVE  Sorted(s \o t, S \cup T)
<1> DEFINE m == Len(s)
           n == Len(t)
           u == s \o t
<1>1. /\ s \in Seq(S) /\ t \in Seq(T) /\ m \in Nat /\ n \in Nat
      /\ \A i \in 1 .. m : s[i] \in S
      /\ \A i \in 1 .. n : t[i] \in T
  BY DEF Sorted
<1>2. s \in Seq(S \cup T) /\ t \in Seq(S \cup T)
  BY <1>1
<1>3. u \in Seq(S \cup T) /\ Len(u) = m + n
  BY <1>2
<1>4. /\ \A i \in 1 .. m : u[i] = s[i]
      /\ \A i \in 1 .. n : u[m + i] = t[i]
      /\ \A i \in 1 .. m + n : i > m => u[i] = t[i - m]
  BY <1>1, <1>2
<1>5. /\ \A i, j \in 1 .. m : i < j => s[i] < s[j]
      /\ \A i, j \in 1 .. n : i < j => t[i] < t[j]
      /\ \A k \in S : \E i \in 1 .. m : s[i] = k
      /\ \A k \in T : \E i \in 1 .. n : t[i] = k
  BY Zenon DEF Sorted
<1> HIDE DEF u, m, n
<1>6. ASSUME NEW i \in 1 .. m + n, NEW j \in 1 .. m + n, i < j
      PROVE  u[i] < u[j]
  <2>1. CASE j =< m
    BY <1>1, <1>4, <1>5, <1>6, <2>1
  <2>2. CASE i =< m /\ j > m
    <3>1. u[i] = s[i] /\ u[j] = t[j - m] /\ i \in 1 .. m /\ j - m \in 1 .. n
      BY <1>1, <1>4, <2>2
    <3> QED
      BY <1>1, <3>1, Zenon
  <2>3. CASE i > m /\ j > m
    <3>1. /\ u[i] = t[i - m] /\ u[j] = t[j - m]
          /\ i - m \in 1 .. n /\ j - m \in 1 .. n /\ i - m < j - m
      BY <1>1, <1>4, <1>6, <2>3
    <3> QED
      BY <1>5, <3>1, Zenon
  <2> QED
    BY <1>1, <1>6, <2>1, <2>2, <2>3
<1>7. ASSUME NEW k \in S \cup T
      PROVE  \E i \in 1 .. m + n : u[i] = k
  <2>1. CASE k \in S
    BY <1>1, <1>4, <1>5, <2>1
  <2>2. CASE k \in T
    <3>1. PICK i \in 1 .. n : t[i] = k
      BY <1>5, <2>2, Zenon
    <3>2. m + i \in 1 .. m + n /\ u[m + i] = k
      BY <1>1, <1>4, <3>1
    <3> QED
      BY <3>2, Zenon
  <2> QED
    BY <2>1, <2>2, Zenon
<1>8. u \in Seq(S \cup T) /\ Len(u) = m + n
  BY <1>3, Zenon DEF u
<1> QED
  BY <1>6, <1>7, <1>8, Zenon DEF Sorted, u

UpTo(S, k) == {l \in S : l =< k}

\* A reply that the limit cut short lists the keys up to its last one.
LEMMA SortedPrefix ==
  ASSUME NEW S, NEW s, Sorted(s, S), \A k \in S : k \in Nat,
         NEW n \in Nat \ {0}, n =< Len(s)
  PROVE  /\ Len(SubSeq(s, 1, n)) = n /\ SubSeq(s, 1, n)[n] = s[n] /\ s[n] \in S
         /\ Sorted(SubSeq(s, 1, n), UpTo(S, s[n]))
<1> DEFINE u == SubSeq(s, 1, n)
           T == UpTo(S, s[n])
<1>1. s \in Seq(S) /\ Len(s) \in Nat /\ \A i \in 1 .. Len(s) : s[i] \in S /\ s[i] \in Nat
  <2>1. s \in Seq(S)
    BY Zenon DEF Sorted
  <2>2. Len(s) \in Nat /\ \A i \in 1 .. Len(s) : s[i] \in S
    BY <2>1
  <2> QED
    BY <2>1, <2>2, Zenon
<1>2. Len(u) = n /\ u \in Seq(S) /\ \A i \in 1 .. n : u[i] = s[i]
  BY <1>1
<1>3. /\ \A i, j \in 1 .. Len(s) : i < j => s[i] < s[j]
      /\ \A k \in S : \E i \in 1 .. Len(s) : s[i] = k
  BY Zenon DEF Sorted
<1>4. n \in 1 .. Len(s)
  BY <1>1
<1> HIDE DEF u, T
<1>5. \A i \in 1 .. n : u[i] \in T
  <2> SUFFICES ASSUME NEW i \in 1 .. n PROVE u[i] \in T
    BY Zenon
  <2>1. i \in 1 .. Len(s) /\ (i = n \/ i < n)
    BY <1>1, <1>4
  <2>2. s[i] = s[n] \/ s[i] < s[n]
    BY <1>3, <1>4, <2>1, Zenon
  <2>3. s[i] \in S /\ s[i] \in Nat /\ s[n] \in Nat /\ u[i] = s[i]
    BY <1>1, <1>2, <1>4, <2>1, Zenon
  <2>4. s[i] =< s[n]
    BY <2>2, <2>3
  <2> QED
    BY <2>3, <2>4, Zenon DEF T, UpTo
<1>6. u \in Seq(T)
  <2>1. u = [i \in 1 .. n |-> u[i]]
    BY <1>2
  <2> QED
    BY <1>2, <1>5, <2>1
<1>7. ASSUME NEW i \in 1 .. n, NEW j \in 1 .. n, i < j
      PROVE  u[i] < u[j]
  <2>1. i \in 1 .. Len(s) /\ j \in 1 .. Len(s)
    BY <1>4
  <2>2. s[i] < s[j]
    BY <1>3, <1>7, <2>1, Zenon
  <2> QED
    BY <1>2, <2>2, Zenon
<1>8. ASSUME NEW k \in T PROVE \E i \in 1 .. n : u[i] = k
  <2>1. k \in S /\ k =< s[n]
    BY Zenon DEF T, UpTo
  <2>2. PICK i \in 1 .. Len(s) : s[i] = k
    BY <1>3, <2>1, Zenon
  <2>3. s[n] \in Nat /\ k \in Nat
    BY <1>1, <1>4, <2>1, Zenon
  <2>4. n < i => s[n] < k
    BY <1>3, <1>4, <2>2, Zenon
  <2>5. i \in 1 .. n
    BY <1>1, <2>1, <2>3, <2>4
  <2> QED
    BY <1>2, <2>2, <2>5, Zenon
<1>9. Sorted(u, T)
  BY <1>2, <1>6, <1>7, <1>8, Zenon DEF Sorted
<1> QED
  BY <1>1, <1>2, <1>4, <1>9 DEF u, T

\* What is in a reply of at most n pairs.
LEMMA Reply ==
  ASSUME NEW S, NEW s, Sorted(s, S), \A k \in S : k \in Nat, NEW n \in Nat \ {0},
         NEW p, p = FirstOf(s, n)
  PROVE  /\ Len(p) = n => p[n] \in S /\ Sorted(p, UpTo(S, p[n]))
         /\ Len(p) # n => p = s
<1>1. s \in Seq(S) /\ Len(s) \in Nat
  BY DEF Sorted
<1>2. CASE Len(s) < n
  <2>1. SubSeq(s, 1, Len(s)) = s
    BY <1>1
  <2>2. p = s
    BY <1>2, <2>1, Zenon DEF FirstOf
  <2> QED
    BY <1>1, <1>2, <2>2
<1>3. CASE n =< Len(s)
  <2>1. p = SubSeq(s, 1, n)
    BY <1>1, <1>3 DEF FirstOf
  <2>2. /\ Len(SubSeq(s, 1, n)) = n /\ SubSeq(s, 1, n)[n] = s[n] /\ s[n] \in S
        /\ Sorted(SubSeq(s, 1, n), UpTo(S, s[n]))
    BY <1>3, SortedPrefix, Zenon
  <2> QED
    BY <2>1, <2>2, Zenon
<1> QED
  BY <1>1, <1>2, <1>3

--------------------------------------------------------------------------------
(* Keys and their bytes *)

\* bytes.Compare is transitive.
LEMMA LessTransitive ==
  ASSUME NEW a \in Bytes, NEW b \in Bytes, NEW c \in Bytes, Less(a, b), Less(b, c)
  PROVE  Less(a, c)
<1>1. PICK i \in 1 .. Len(b) : DiffersAt(a, b, i)
  BY Zenon DEF Less
<1>2. PICK j \in 1 .. Len(c) : DiffersAt(b, c, j)
  BY Zenon DEF Less
<1>3. /\ Len(a) \in Nat /\ Len(b) \in Nat /\ Len(c) \in Nat
      /\ \A l \in 1 .. Len(a) : a[l] \in Nat
      /\ \A l \in 1 .. Len(b) : b[l] \in Nat
      /\ \A l \in 1 .. Len(c) : c[l] \in Nat
  BY ByteAt
<1>4. CASE i < j
  <2>1. i \in 1 .. Len(c) /\ DiffersAt(a, c, i)
    BY <1>1, <1>2, <1>3, <1>4 DEF DiffersAt
  <2> QED
    BY <2>1, Zenon DEF Less
<1>5. CASE j =< i
  <2>1. DiffersAt(a, c, j)
    BY <1>1, <1>2, <1>3, <1>5, SMTT(30) DEF DiffersAt
  <2> QED
    BY <2>1, Zenon DEF Less
<1> QED
  BY <1>4, <1>5

\* Appending a zero byte gives the next string.
LEMMA Successor ==
  ASSUME NEW a \in Bytes, NEW x \in Bytes
  PROVE  Less(a, x \o <<0>>) <=> a = x \/ Less(a, x)
<1> DEFINE y == x \o <<0>>
           n == Len(x) + 1
<1>1. /\ Len(a) \in Nat /\ Len(x) \in Nat
      /\ \A l \in 1 .. Len(a) : a[l] \in Nat
  BY ByteAt, Zenon
<1>2. Len(y) = n /\ y[n] = 0 /\ \A l \in 1 .. Len(x) : y[l] = x[l]
  BY <1>1 DEF Bytes
<1> HIDE DEF y
<1>3. ASSUME Less(a, x)
      PROVE  Less(a, y)
  <2>1. PICK i \in 1 .. Len(x) : DiffersAt(a, x, i)
    BY <1>3, Zenon DEF Less
  <2>2. i \in 1 .. Len(y) /\ DiffersAt(a, y, i)
    BY <1>1, <1>2, <2>1 DEF DiffersAt
  <2> QED
    BY <2>2, Zenon DEF Less
<1>4. ASSUME a = x
      PROVE  Less(a, y)
  <2>1. n \in 1 .. Len(y) /\ DiffersAt(a, y, n)
    BY <1>1, <1>2, <1>4 DEF DiffersAt
  <2> QED
    BY <2>1, Zenon DEF Less
<1>5. ASSUME Less(a, y)
      PROVE  a = x \/ Less(a, x)
  <2>1. PICK i \in 1 .. Len(y) : DiffersAt(a, y, i)
    BY <1>5, Zenon DEF Less
  <2>2. CASE i =< Len(x)
    <3>1. i \in 1 .. Len(x) /\ DiffersAt(a, x, i)
      BY <1>1, <1>2, <2>1, <2>2 DEF DiffersAt
    <3> QED
      BY <3>1, Zenon DEF Less
  <2>3. CASE i = n
    <3>1. Len(a) = Len(x) /\ \A l \in 1 .. Len(x) : a[l] = x[l]
      BY <1>1, <1>2, <2>1, <2>3 DEF DiffersAt
    <3> QED
      BY <3>1 DEF Bytes
  <2> QED
    BY <1>1, <1>2, <2>2, <2>3
<1> QED
  BY <1>3, <1>4, <1>5, Zenon DEF y

LEMMA RawKeys ==
  /\ \A k \in Key : RawKey[k] \in Bytes /\ k \in Nat
  /\ EmptyKey \in Key /\ EmptyKey = 0 /\ RawKey[EmptyKey] = <<>>
  /\ \A k, l \in Key : k < l <=> Less(RawKey[k], RawKey[l])
  /\ \A k, l \in Key : RawKey[k] = RawKey[l] => k = l
  /\ \A k \in Key : k # EmptyKey <=> Len(RawKey[k]) > 0
<1>1. /\ \A k \in Key : RawKey[k] \in Bytes
      /\ RawKey[EmptyKey] = <<>>
      /\ \A k, l \in Key : k < l <=> Less(RawKey[k], RawKey[l])
  BY RawKeyAssumption, Zenon
<1>2. \A k \in Key : k \in Nat
  BY LayoutAssumption DEF EmptyKey
<1>3. EmptyKey \in Key /\ EmptyKey = 0
  BY LayoutAssumption DEF EmptyKey
<1>4. ASSUME NEW k \in Key, NEW l \in Key, RawKey[k] = RawKey[l]
      PROVE  k = l
  <2>1. ~ Less(RawKey[k], RawKey[l]) /\ ~ Less(RawKey[l], RawKey[k])
    BY <1>1, <1>4, LessAsymmetric, Zenon
  <2>2. ~ (k < l) /\ ~ (l < k)
    BY <1>1, <2>1, Zenon
  <2> QED
    BY <1>2, <2>2
<1>5. ASSUME NEW k \in Key
      PROVE  k # EmptyKey <=> Len(RawKey[k]) > 0
  <2>1. ASSUME k # EmptyKey PROVE Len(RawKey[k]) > 0
    <3>1. EmptyKey < k
      BY <1>2, <1>3, <2>1
    <3>2. Less(RawKey[EmptyKey], RawKey[k])
      BY <1>1, <1>3, <3>1, Zenon
    <3>3. PICK i \in 1 .. Len(RawKey[k]) : TRUE
      BY <3>2, Zenon DEF Less
    <3>4. Len(RawKey[k]) \in Nat
      BY <1>1, ByteAt, Zenon
    <3> QED
      BY <3>3, <3>4
  <2>2. Len(<<>>) = 0
    BY Zenon
  <2> QED
    BY <1>1, <2>1, <2>2
<1> QED
  BY <1>1, <1>2, <1>3, <1>4, <1>5, Zenon

\* The key a client goes on with after a full reply: all keys up to the last one
\* of the reply are below it, and no others.
LEMMA NextKey ==
  ASSUME NEW k \in StoredKey, NEW n \in Key, RawKey[n] = RawKey[k] \o << 0 >>
  PROVE  \A l \in Key : l < n <=> l =< k
<1> SUFFICES ASSUME NEW l \in Key PROVE l < n <=> l =< k
  BY Zenon
<1>1. k \in Key
  BY RawKeyAssumption, Zenon
<1>2. /\ RawKey[k] \in Bytes /\ RawKey[l] \in Bytes
      /\ k \in Nat /\ l \in Nat
      /\ RawKey[l] = RawKey[k] => l = k
  BY <1>1, RawKeys, Zenon
<1>3. l < k <=> Less(RawKey[l], RawKey[k])
  BY <1>1, RawKeys, Zenon
<1>4. l < n <=> Less(RawKey[l], RawKey[n])
  BY RawKeys, Zenon
<1>5. Less(RawKey[l], RawKey[k] \o <<0>>) <=> RawKey[l] = RawKey[k] \/ Less(RawKey[l], RawKey[k])
  BY <1>2, Successor, Zenon
<1>6. l < n <=> l = k \/ l < k
  BY <1>2, <1>3, <1>4, <1>5, Zenon
<1> QED
  BY <1>2, <1>6

\* The order of the entries in the store, and their place relative to the key a
\* scan starts from or ends at, is the order of the keys.
LEMMA EntriesInKeyOrder ==
  /\ \A k \in StoredKey, s \in Key : Less(entry[k], mvccEncode(RawKey[s], lockVer)) <=> k < s
  /\ \A k, l \in StoredKey : <<k, l>> \in EntryOrder <=> k < l
<1> DEFINE v == [i \in 1 .. 8 |-> IF i = 8 THEN 7 ELSE 0]
<1>1. v \in Uint64Bytes
  BY DEF Uint64Bytes, Byte
<1>2. lockVer \in Uint64Bytes
  BY DEF Uint64Bytes, Byte, lockVer
<1>3. Len(lockVer) = 8 /\ Len(v) = 8 /\ v \in Bytes /\ lockVer \in Bytes
  BY <1>1, <1>2, Words, Zenon
<1>4. Less(v, lockVer)
  <2>1. v[1] = 0 /\ lockVer[1] = 255
    BY DEF lockVer
  <2> HIDE DEF v
  <2>2. DiffersAt(v, lockVer, 1)
    BY <1>3, <2>1 DEF DiffersAt
  <2> QED
    BY <1>3, <2>2 DEF Less
<1>5. \A k \in StoredKey : entry[k] = mvccEncode(RawKey[k], v)
  BY Zenon DEF entry
<1> HIDE DEF v
<1>6. ~ Less(lockVer, v) /\ ~ Less(v, v)
  BY <1>3, <1>4, LessAsymmetric, Zenon
<1>7. \A k \in StoredKey : k \in Key
  BY RawKeyAssumption, Zenon
<1>8. ASSUME NEW k \in StoredKey, NEW s \in Key
      PROVE  Less(entry[k], mvccEncode(RawKey[s], lockVer)) <=> k < s
  <2>1. RawKey[k] \in Bytes /\ RawKey[s] \in Bytes
    BY <1>7, RawKeys, Zenon
  <2>2. Less(mvccEncode(RawKey[k], v), mvccEncode(RawKey[s], lockVer))
          <=> Less(RawKey[k], RawKey[s])
    BY <1>1, <1>2, <1>6, <2>1, KeyLayout, Zenon
  <2> QED
    BY <1>5, <1>7, <2>2, RawKeys, Zenon
<1>9. ASSUME NEW k \in StoredKey, NEW l \in StoredKey
      PROVE  <<k, l>> \in EntryOrder <=> k < l
  <2>1. RawKey[k] \in Bytes /\ RawKey[l] \in Bytes
    BY <1>7, RawKeys, Zenon
  <2>2. Less(mvccEncode(RawKey[k], v), mvccEncode(RawKey[l], v))
          <=> Less(RawKey[k], RawKey[l])
    BY <1>1, <1>6, <2>1, KeyLayout, Zenon
  <2>3. Less(entry[k], entry[l]) <=> k < l
    BY <1>5, <1>7, <2>2, RawKeys, Zenon
  <2>4. <<k, l>> \in EntryOrder <=> Less(entry[k], entry[l])
    BY DEF EntryOrder
  <2> QED
    BY <2>3, <2>4, Zenon
<1> QED
  BY <1>8, <1>9, Zenon

\* The keys from s to e, or to the end when e is empty.
KeysFrom(s, e) == {k \in StoredKey : s =< k /\ (e = EmptyKey \/ k < e)}

\* A scan iterator over raw bounds meets exactly the keys between them.
LEMMA IteratorRange ==
  ASSUME NEW s \in Key, NEW e \in Key
  PROVE  newScanIterator(RawKey[s], RawKey[e]) = KeysFrom(s, e)
<1>1. \A k \in StoredKey : k \in Nat
  BY RawKeyAssumption, RawKeys, Zenon
<1>2. s \in Nat /\ e \in Nat /\ EmptyKey = 0
  BY RawKeys, Zenon
<1>3. ASSUME NEW k \in StoredKey
      PROVE  (Len(RawKey[s]) > 0 => ~ Less(entry[k], mvccEncode(RawKey[s], lockVer)))
               <=> s =< k
  <2>1. Less(entry[k], mvccEncode(RawKey[s], lockVer)) <=> k < s
    BY EntriesInKeyOrder, Zenon
  <2>2. Len(RawKey[s]) > 0 <=> s # EmptyKey
    BY RawKeys, Zenon
  <2> QED
    BY <1>1, <1>2, <2>1, <2>2
<1>4. ASSUME NEW k \in StoredKey
      PROVE  (Len(RawKey[e]) > 0 => Less(entry[k], mvccEncode(RawKey[e], lockVer)))
               <=> (e = EmptyKey \/ k < e)
  <2>1. Less(entry[k], mvccEncode(RawKey[e], lockVer)) <=> k < e
    BY EntriesInKeyOrder, Zenon
  <2>2. Len(RawKey[e]) > 0 <=> e # EmptyKey
    BY RawKeys, Zenon
  <2> QED
    BY <2>1, <2>2, Zenon
<1> QED
  BY <1>3, <1>4, Zenon DEF newScanIterator, KeysFrom

\* The bounds ScanLock gets are the raw ones: decoding undoes the encoding.
LEMMA RawOfMvccKey ==
  ASSUME NEW e \in Key
  PROVE  Raw(NewMvccKey(RawKey[e])) = RawKey[e]
<1> DEFINE d == RawKey[e]
<1>1. d \in Bytes
  BY RawKeys, Zenon
<1> HIDE DEF d
<1>2. EncodeBytes(d) \in Bytes /\ EncodeBytes(d) # <<>>
  <2>1. /\ EncodeBytes(d) \in Bytes /\ Len(d) \in Nat
        /\ Len(EncodeBytes(d)) = (Len(d) \div 8 + 1) * 9
    BY <1>1, EncodedShape, Zenon
  <2>2. \A n \in Nat : (n \div 8 + 1) * 9 # 0
    OBVIOUS
  <2>3. Len(EncodeBytes(d)) # 0
    BY <2>1, <2>2, Zenon
  <2> QED
    BY <2>1, <2>3
<1>3. <<>> \in Bytes /\ EncodeBytes(d) \o <<>> = EncodeBytes(d)
  BY <1>2 DEF Bytes
<1>4. DecodeBytes(EncodeBytes(d) \o <<>>) = [error |-> FALSE, rest |-> <<>>, key |-> d]
  BY <1>1, <1>3, DecodeBytesRoundTrip, Zenon
<1>5. DecodeBytes(EncodeBytes(d)).key = d
  BY <1>3, <1>4
<1> QED
  BY <1>2, <1>5, Zenon DEF Raw, NewMvccKey, d

\* A request that ends inside the region ends at its own end key: the encoded
\* end key of the region, which Scan must not be given, never takes its place.
LEMMA BoundedRequest ==
  ASSUME NEW r \in Key, NEW e \in Key, r # EmptyKey, e = EmptyKey \/ r =< e
  PROVE  scanEndKey(RawKey[r], NewMvccKey(RawKey[e])) = RawKey[r]
<1>1. RawKey[r] \in Bytes /\ RawKey[e] \in Bytes /\ r \in Nat /\ e \in Nat
  BY RawKeys, Zenon
<1>2. Len(RawKey[r]) > 0
  BY RawKeys, Zenon
<1>3. CASE e = EmptyKey
  <2>1. NewMvccKey(RawKey[e]) = <<>>
    BY <1>3, RawKeys, Zenon DEF NewMvccKey
  <2> QED
    BY <1>2, <2>1, Zenon DEF scanEndKey
<1>4. CASE e # EmptyKey
  <2>1. RawKey[e] # <<>>
    <3>1. Len(RawKey[e]) > 0
      BY <1>4, RawKeys, Zenon
    <3> QED
      BY <3>1
  <2>2. NewMvccKey(RawKey[e]) = EncodeBytes(RawKey[e]) /\ EncodeBytes(RawKey[e]) \in Bytes
    BY <1>1, <2>1, EncodedShape, Zenon DEF NewMvccKey
  <2>3. Less(RawKey[e], EncodeBytes(RawKey[e]))
    BY <1>1, RawBelowEncoded, Zenon
  <2>4. r = e \/ Less(RawKey[r], RawKey[e])
    BY <1>1, <1>4, RawKeys
  <2>5. Less(RawKey[r], EncodeBytes(RawKey[e]))
    BY <1>1, <2>2, <2>3, <2>4, LessTransitive, Zenon
  <2> QED
    BY <1>2, <2>2, <2>5, Zenon DEF scanEndKey
<1> QED
  BY <1>3, <1>4, Zenon

\* An iterator meets keys upwards.
LEMMA InOrderIsAscending ==
  ASSUME NEW S \in SUBSET StoredKey
  PROVE  InOrder(S) = Ascending(S)
<1> DEFINE n == Cardinality(S)
           a(i) == CHOOSE k \in S : Cardinality({l \in S : <<l, k>> \in EntryOrder}) = i - 1
           b(i) == CHOOSE k \in S : Cardinality({l \in S : l < k}) = i - 1
<1>1. IsFiniteSet(S) /\ \A k \in S : k \in Nat
  BY RawKeyAssumption, RawKeys, FS_Subset, Zenon
<1>2. \A k \in S : {l \in S : <<l, k>> \in EntryOrder} = Below(S, k)
  BY EntriesInKeyOrder, Zenon DEF Below
<1>3. \A k \in S : {l \in S : l < k} = Below(S, k)
  BY Zenon DEF Below
<1>4. \A k, l \in S : k < l => Cardinality(Below(S, k)) < Cardinality(Below(S, l))
  BY <1>1, Rank, Zenon
<1>5. ASSUME NEW i \in 1 .. n
      PROVE  a(i) = b(i)
  <2> DEFINE m == i - 1
  <2>1. m \in 0 .. n - 1
    BY <1>1, FS_CardinalityType
  <2> HIDE DEF m
  <2>2. PICK k \in S : Cardinality(Below(S, k)) = m
    BY <1>1, <2>1, RankOnto, Zenon
  <2>3. a(i) \in S /\ Cardinality(Below(S, a(i))) = m
    BY <1>2, <2>2, Zenon DEF m
  <2>4. b(i) \in S /\ Cardinality(Below(S, b(i))) = m
    BY <1>3, <2>2, Zenon DEF m
  <2> HIDE DEF a, b
  <2> QED
    BY <1>1, <1>4, <2>1, <2>3, <2>4
<1>6. InOrder(S) = [i \in 1 .. n |-> a(i)] /\ Ascending(S) = [i \in 1 .. n |-> b(i)]
  BY Zenon DEF InOrder, Ascending
<1> HIDE DEF a, b, n
<1> QED
  BY <1>5, <1>6, Zenon

\* A request with an end key inside the region, as bounded scans send it, is
\* served from exactly its range; and ScanLock is served from exactly the range
\* of the region.  The first fails for a request without an end key.
THEOREM RequestsSeeTheirRange ==
  /\ \A s, r, e \in Key : r # EmptyKey /\ (e = EmptyKey \/ r =< e) =>
       newScanIterator(RawKey[s], scanEndKey(RawKey[r], NewMvccKey(RawKey[e]))) = KeysFrom(s, r)
  /\ \A s, e \in Key :
       newScanIterator(Raw(NewMvccKey(RawKey[s])), Raw(NewMvccKey(RawKey[e]))) = KeysFrom(s, e)
BY BoundedRequest, IteratorRange, RawOfMvccKey, Zenon

================================================================================
