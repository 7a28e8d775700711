---------------------------- MODULE HistogramProofs ----------------------------
(***************************************************************************)
(* Proofs about histogram.c, for every message: every occurrence of every  *)
(* symbol is counted once, by whichever of the programs is called.         *)
(***************************************************************************)
EXTENDS Histogram, Induction, SequenceTheorems

-----------------------------------------------------------------------------
(* Counting what occurs in a message.                                      *)

\* A function without repetitions keeps the number of elements.
LEMMA SameNumber ==
    ASSUME NEW S, IsFiniteSet(S), NEW T, NEW f \in [S -> T],
           \A x, y \in S : f[x] = f[y] => x = y, \A z \in T : \E x \in S : f[x] = z
    PROVE  IsFiniteSet(T) /\ Cardinality(T) = Cardinality(S)
<1>1. f \in Bijection(S, T)
  BY Zenon DEF Bijection, Injection, Surjection, IsInjective
<1>2. ExistsBijection(S, T)
  BY Zenon, <1>1 DEF ExistsBijection
<1> QED BY Zenon, <1>2, FS_Bijection

\* The positions from + 1 .. to of src that hold an element of V, and how many.
Hits(src, from, to, V) == {i \in from + 1 .. to : src[i] \in V}
Occurs(src, from, to, V) == Cardinality(Hits(src, from, to, V))
Occ(src, V) == Occurs(src, 0, Len(src), V)

LEMMA OccursType ==
    ASSUME NEW src, NEW from \in Int, NEW to \in Int, NEW V
    PROVE  /\ IsFiniteSet(Hits(src, from, to, V)) /\ Occurs(src, from, to, V) \in Nat
           /\ from >= to => Occurs(src, from, to, V) = 0
<1>1. IsFiniteSet(from + 1 .. to)
  BY FS_Interval
<1>2. IsFiniteSet(Hits(src, from, to, V))
  BY Zenon, <1>1, FS_Subset DEF Hits
<1>3. ASSUME from >= to PROVE Occurs(src, from, to, V) = 0
  <2>1. Hits(src, from, to, V) = {}
    BY <1>3 DEF Hits
  <2> QED BY Zenon, <2>1, FS_EmptySet DEF Occurs
<1> QED BY <1>2, <1>3, FS_CardinalityType DEF Occurs

LEMMA OccursSplit ==
    ASSUME NEW src, NEW a \in Int, NEW b \in Int, NEW c \in Int, a <= b, b <= c, NEW V
    PROVE  Occurs(src, a, c, V) = Occurs(src, a, b, V) + Occurs(src, b, c, V)
<1>1. Hits(src, a, c, V) = Hits(src, a, b, V) \union Hits(src, b, c, V)
  BY DEF Hits
<1>2. Hits(src, a, b, V) \intersect Hits(src, b, c, V) = {}
  BY DEF Hits
<1>3. IsFiniteSet(Hits(src, a, b, V)) /\ IsFiniteSet(Hits(src, b, c, V))
  BY OccursType
<1> QED BY Zenon, <1>1, <1>2, <1>3, DisjointUnion DEF Occurs

\* The same message at another place.
Repeats(t, p, q, s, a, b) ==
    /\ a \in Int /\ b \in Int /\ p \in Int /\ q \in Int /\ q - b = p - a
    /\ \A i \in a + 1 .. b : t[i + (p - a)] = s[i]

LEMMA OccursShift ==
    ASSUME NEW t, NEW p, NEW q, NEW s, NEW a, NEW b, NEW V, Repeats(t, p, q, s, a, b)
    PROVE  Occurs(t, p, q, V) = Occurs(s, a, b, V)
<1> DEFINE d == p - a
           S == Hits(s, a, b, V)
           T == Hits(t, p, q, V)
           f == [i \in S |-> i + d]
<1>0. a \in Int /\ b \in Int /\ p \in Int /\ q \in Int /\ q - b = p - a
  BY DEF Repeats
<1>1. IsFiniteSet(S)
  BY <1>0, OccursType
<1>2. \A i \in S : i \in Int /\ i + d \in T
  BY DEF Hits, Repeats
<1>3. f \in [S -> T] /\ \A i \in S : f[i] = i + d
  BY <1>2
<1>4. ASSUME NEW z \in T PROVE \E x \in S : f[x] = z
  <2>1. z \in Int /\ z - d \in a + 1 .. b /\ (z - d) + d = z /\ t[z] \in V
    BY <1>0 DEF Hits
  <2>2. z - d \in S
    BY <2>1 DEF Hits, Repeats
  <2>3. f[z - d] = z
    BY <2>1, <2>2, <1>3
  <2> QED BY <2>2, <2>3
<1> HIDE DEF S, T, f
<1>5. \A x, y \in S : f[x] = f[y] => x = y
  BY <1>0, <1>2, <1>3
<1>6. Cardinality(T) = Cardinality(S)
  BY Zenon, <1>1, <1>3, <1>4, <1>5, SameNumber
<1> QED BY <1>6 DEF Occurs, S, T

LEMMA OccConcat ==
    ASSUME NEW S, NEW s \in Seq(S), NEW t \in Seq(S), NEW V
    PROVE  Occ(s \o t, V) = Occ(s, V) + Occ(t, V)
<1> DEFINE m == Len(s)
           n == Len(t)
           u == s \o t
<1>1. m \in Nat /\ n \in Nat /\ Len(u) = m + n
      /\ \A i \in 1 .. m + n : u[i] = IF i <= m THEN s[i] ELSE t[i - m]
  BY ConcatProperties, LenProperties
<1> HIDE DEF m, n, u
<1>2. Occurs(u, 0, m + n, V) = Occurs(u, 0, m, V) + Occurs(u, m, m + n, V)
  BY <1>1, OccursSplit
<1>3. Occurs(u, 0, m, V) = Occurs(s, 0, m, V)
  <2>1. \A i \in 0 + 1 .. m : u[i] \in V <=> s[i] \in V
    BY <1>1
  <2> QED BY <2>1 DEF Occurs, Hits
<1>6. Occurs(u, m, m + n, V) = Occurs(t, 0, n, V)
  <2>1. ASSUME NEW i \in 0 + 1 .. n PROVE u[i + (m - 0)] = t[i]
    <3>1. i + (m - 0) \in 1 .. m + n /\ ~ (i + (m - 0) <= m) /\ (i + (m - 0)) - m = i
      BY <1>1
    <3> QED BY <1>1, <3>1
  <2>2. m \in Int /\ n \in Int /\ 0 \in Int /\ m + n \in Int /\ (m + n) - n = m - 0
    BY <1>1
  <2>3. Repeats(u, m, m + n, t, 0, n)
    BY Zenon, <2>1, <2>2 DEF Repeats
  <2> QED BY <2>3, OccursShift
<1>7. Occurs(u, 0, m + n, V) = Occurs(s, 0, m, V) + Occurs(t, 0, n, V)
  BY Zenon, <1>2, <1>3, <1>6
<1> QED BY <1>1, <1>7 DEF Occ, m, n, u

LEMMA OccSubSeq ==
    ASSUME NEW S, NEW s \in Seq(S), NEW a \in Nat, NEW b \in Nat, a <= b, b <= Len(s), NEW V
    PROVE  /\ SubSeq(s, a + 1, b) \in Seq(S) /\ Len(SubSeq(s, a + 1, b)) = b - a
           /\ \A i \in 1 .. b - a : SubSeq(s, a + 1, b)[i] = s[a + i]
           /\ Occ(SubSeq(s, a + 1, b), V) = Occurs(s, a, b, V)
<1> DEFINE u == SubSeq(s, a + 1, b)
<1>1. \A i \in a + 1 .. b : s[i] \in S
  BY ElementOfSeq, LenProperties
<1>2. /\ u \in Seq(S)
      /\ Len(u) = IF a + 1 <= b THEN b - (a + 1) + 1 ELSE 0
      /\ \A i \in 1 .. b - (a + 1) + 1 : u[i] = s[a + 1 + i - 1]
  BY <1>1, SubSeqProperties
<1>3. Len(u) = b - a
  BY <1>2
<1>4. \A i \in 1 .. b - a : u[i] = s[a + i]
  BY <1>2
<1>5. Repeats(s, a, b, u, 0, b - a)
  BY <1>4 DEF Repeats
<1> HIDE DEF u
<1>7. Occurs(s, a, b, V) = Occurs(u, 0, b - a, V)
  BY <1>5, OccursShift
<1>8. Occurs(s, a, b, V) = Occ(u, V)
  BY Zenon, <1>3, <1>7 DEF Occ
<1> QED BY <1>2, <1>3, <1>4, <1>8 DEF u

LEMMA OccEmpty == \A V : Occ(<< >>, V) = 0
<1>1. Len(<< >>) = 0 /\ 0 \in Int
  BY EmptySeq
<1> QED BY <1>1, OccursType DEF Occ

LEMMA OccType ==
    ASSUME NEW S, NEW s \in Seq(S), NEW V
    PROVE  Len(s) \in Nat /\ Occ(s, V) \in Nat
<1>1. Len(s) \in Nat /\ 0 \in Int
  BY LenProperties
<1> QED BY <1>1, OccursType DEF Occ

\* Zeros.
LEMMA OccBound ==
    ASSUME NEW src \in Seq(Bytes), NEW V
    PROVE  Occ(src, V) <= Len(src)
<1>1. PICK n : n = Len(src)
  OBVIOUS
<1>2. n \in Nat
  BY <1>1, LenProperties
<1>3. Hits(src, 0, n, V) \subseteq 0 + 1 .. n /\ 0 + 1 .. n = 1 .. n
  BY <1>2 DEF Hits
<1>4. IsFiniteSet(1 .. n) /\ Cardinality(1 .. n) = n
  BY ONLY <1>2, FS_Interval
<1>5. Cardinality(Hits(src, 0, n, V)) <= Cardinality(1 .. n)
  BY Zenon, <1>3, <1>4, FS_Subset
<1> QED BY Zenon, <1>1, <1>4, <1>5 DEF Occ, Occurs

LEMMA OccZeros ==
    ASSUME NEW S, 0 \in S, NEW k \in Nat, NEW V
    PROVE  /\ Zeros(k) \in Seq(S) /\ Len(Zeros(k)) = k
           /\ Occ(Zeros(k), V) = IF 0 \in V THEN k ELSE 0
<1>1. Zeros(k) \in Seq(S) /\ Len(Zeros(k)) = k /\ \A i \in 1 .. k : Zeros(k)[i] = 0
  BY DEF Zeros
<1>2. Hits(Zeros(k), 0, k, V) = IF 0 \in V THEN 1 .. k ELSE {}
  BY <1>1 DEF Hits
<1>3. Cardinality(1 .. k) = k /\ Cardinality({}) = 0
  BY FS_Interval, FS_EmptySet
<1>4. Occurs(Zeros(k), 0, k, V) = IF 0 \in V THEN k ELSE 0
  BY Zenon, <1>2, <1>3 DEF Occurs
<1> QED BY Zenon, <1>1, <1>4 DEF Occ

\* Two kinds of symbols.
LEMMA OccUnion ==
    ASSUME NEW src, NEW from \in Int, NEW to \in Int, NEW V, NEW W, V \intersect W = {}
    PROVE  Occurs(src, from, to, V \union W) = Occurs(src, from, to, V) + Occurs(src, from, to, W)
<1>1. /\ Hits(src, from, to, V \union W) = Hits(src, from, to, V) \union Hits(src, from, to, W)
      /\ Hits(src, from, to, V) \intersect Hits(src, from, to, W) = {}
  BY DEF Hits
<1>2. IsFiniteSet(Hits(src, from, to, V)) /\ IsFiniteSet(Hits(src, from, to, W))
  BY OccursType
<1> QED BY Zenon, <1>1, <1>2, DisjointUnion DEF Occurs

\* One more position.
LEMMA OccursStep ==
    ASSUME NEW src, NEW k \in Nat, NEW V
    PROVE  Occurs(src, 0, k + 1, V) = Occurs(src, 0, k, V) + IF src[k + 1] \in V THEN 1 ELSE 0
<1>1. 0 \in Int /\ k \in Int /\ k + 1 \in Int /\ 0 <= k /\ k <= k + 1
  OBVIOUS
<1>2. Occurs(src, 0, k + 1, V) = Occurs(src, 0, k, V) + Occurs(src, k, k + 1, V)
  BY <1>1, OccursSplit
<1>3. Hits(src, k, k + 1, V) = IF src[k + 1] \in V THEN {k + 1} ELSE {}
  <2>1. k + 1 .. k + 1 = {k + 1}
    OBVIOUS
  <2> QED BY Zenon, <2>1 DEF Hits
<1>4. Cardinality({k + 1}) = 1 /\ Cardinality({}) = 0
  BY FS_Singleton, FS_EmptySet
<1>5. Occurs(src, k, k + 1, V) = IF src[k + 1] \in V THEN 1 ELSE 0
  BY Zenon, <1>3, <1>4 DEF Occurs
<1> QED BY Zenon, <1>2, <1>5

-----------------------------------------------------------------------------
(* The bytes of a vector that are kept.                                    *)

\* g[k] is what is kept of the first k bytes.
IsKept(g, raw, kept, n) ==
    g = [k \in 0 .. n |-> IF k = 0 THEN << >>
                          ELSE IF raw[k] \in kept THEN Append(g[k - 1], raw[k])
                          ELSE g[k - 1]]

LEMMA KeptExists ==
    ASSUME NEW raw, NEW kept, NEW n \in Nat
    PROVE  \E g : IsKept(g, raw, kept, n)
<1> DEFINE T == {m \in Nat : \E g : IsKept(g, raw, kept, m)}
<1>1. 0 \in T
  <2> DEFINE g == [k \in 0 .. 0 |-> << >>]
  <2>1. IsKept(g, raw, kept, 0)
    BY DEF IsKept
  <2> QED BY <2>1
<1>2. ASSUME NEW m \in T PROVE m + 1 \in T
  <2>1. PICK g : IsKept(g, raw, kept, m)
    OBVIOUS
  <2> DEFINE Next(h, k) == IF k = 0 THEN << >>
                           ELSE IF raw[k] \in kept THEN Append(h[k - 1], raw[k])
                           ELSE h[k - 1]
             h == [k \in 0 .. m + 1 |-> IF k <= m THEN g[k] ELSE Next(g, k)]
  <2>2. \A k \in 0 .. m : h[k] = g[k] /\ g[k] = Next(g, k)
    <3>1. \A k \in 0 .. m : k \in 0 .. m + 1 /\ k <= m
      OBVIOUS
    <3>2. \A k \in 0 .. m : g[k] = Next(g, k)
      <4>1. g = [k \in 0 .. m |-> Next(g, k)]
        BY Zenon, <2>1 DEF IsKept
      <4> HIDE DEF Next
      <4> QED BY Zenon, <4>1
    <3>3. \A k \in 0 .. m + 1 : h[k] = IF k <= m THEN g[k] ELSE Next(g, k)
      BY Zenon
    <3> HIDE DEF h, Next
    <3> QED BY <3>1, <3>2, <3>3
  <2>3. \A k \in 0 .. m + 1 : h[k] = Next(h, k)
    <3> SUFFICES ASSUME NEW k \in 0 .. m + 1 PROVE h[k] = Next(h, k)
      OBVIOUS
    <3>0. h[k] = IF k <= m THEN g[k] ELSE Next(g, k)
      OBVIOUS
    <3> HIDE DEF h
    <3>1. k # 0 => k - 1 \in 0 .. m
      OBVIOUS
    <3>2. Next(g, k) = Next(h, k)
      BY <2>2, <3>1
    <3>3. k <= m => h[k] = Next(g, k)
      BY <2>2
    <3> QED BY <3>0, <3>2, <3>3
  <2>4. h = [k \in 0 .. m + 1 |-> Next(h, k)]
    <3>1. h = [k \in 0 .. m + 1 |-> h[k]]
      OBVIOUS
    <3> HIDE DEF h, Next
    <3> QED BY Zenon, <2>3, <3>1
  <2>5. IsKept(h, raw, kept, m + 1)
    BY Zenon, <2>4 DEF IsKept
  <2> QED BY <2>5
<1>3. T \in SUBSET Nat
  OBVIOUS
<1>4. T = Nat
  <2> HIDE DEF T
  <2> QED BY <1>1, <1>2, <1>3, Numbers
<1> QED BY <1>4

LEMMA CompressFacts ==
    ASSUME NEW S, NEW raw \in Seq(S), NEW kept
    PROVE  /\ Compress(raw, kept) \in Seq(S) /\ Len(Compress(raw, kept)) \in Nat
           /\ Len(Compress(raw, kept)) <= Len(raw)
           /\ \A V : Occ(Compress(raw, kept), V) = Occ(raw, kept \intersect V)
<1> DEFINE n == Len(raw)
           some == CHOOSE g : IsKept(g, raw, kept, n)
<1>1. n \in Nat /\ \A i \in 1 .. n : raw[i] \in S
  BY ElementOfSeq, LenProperties
<1>2. IsKept(some, raw, kept, n)
  BY Zenon, <1>1, KeptExists
<1>3. Compress(raw, kept) = some[n]
  BY Zenon DEF Compress, IsKept
<1> HIDE DEF some, n
<1>4. \A k \in 0 .. n : some[k] = IF k = 0 THEN << >>
                                  ELSE IF raw[k] \in kept THEN Append(some[k - 1], raw[k])
                                  ELSE some[k - 1]
  BY Zenon, <1>2 DEF IsKept
<1> DEFINE Good(k) == /\ some[k] \in Seq(S) /\ Len(some[k]) \in Nat /\ Len(some[k]) <= k
                      /\ \A V : Occ(some[k], V) = Occurs(raw, 0, k, kept \intersect V)
           T == {k \in Nat : k <= n => Good(k)}
<1>5. 0 \in T
  <2>1. 0 \in 0 .. n /\ 0 \in Int /\ 0 \in Nat
    BY <1>1
  <2>2. some[0] = << >>
    BY <1>4, <2>1
  <2>3. << >> \in Seq(S) /\ Len(<< >>) = 0
    BY EmptySeq
  <2>4. \A V : Occ(<< >>, V) = 0 /\ Occurs(raw, 0, 0, kept \intersect V) = 0
    BY <2>1, OccEmpty, OccursType
  <2>5. Len(some[0]) <= 0 /\ Len(some[0]) \in Nat
    BY <2>2, <2>3
  <2>6. \A V : Occ(some[0], V) = Occurs(raw, 0, 0, kept \intersect V)
    BY Zenon, <2>2, <2>4
  <2>7. Good(0)
    BY Zenon, <2>2, <2>3, <2>5, <2>6
  <2> HIDE DEF Good
  <2> QED BY <2>7
<1>6. ASSUME NEW k \in T PROVE k + 1 \in T
  <2> SUFFICES ASSUME k + 1 <= n PROVE Good(k + 1)
    OBVIOUS
  <2>1. k \in Nat /\ Good(k)
    BY <1>1
  <2>2. k + 1 \in 1 .. n /\ k + 1 \in 0 .. n /\ k + 1 # 0 /\ (k + 1) - 1 = k /\ k + 1 \in Nat
    BY <1>1, <2>1
  <2>3. some[k + 1] = IF raw[k + 1] \in kept THEN Append(some[k], raw[k + 1]) ELSE some[k]
    BY <1>4, <2>2
  <2>4. raw[k + 1] \in S
    BY <1>1, <2>2
  <2>5. \A V : Occurs(raw, 0, k + 1, kept \intersect V)
                 = Occurs(raw, 0, k, kept \intersect V)
                     + IF raw[k + 1] \in kept \intersect V THEN 1 ELSE 0
    BY <2>1, OccursStep
  <2>6. CASE raw[k + 1] \notin kept
    <3>1. some[k + 1] = some[k]
      BY <2>3, <2>6
    <3>2. \A V : Occurs(raw, 0, k + 1, kept \intersect V) = Occurs(raw, 0, k, kept \intersect V)
      <4>1. TAKE V
      <4>2. raw[k + 1] \notin kept \intersect V /\ Occurs(raw, 0, k, kept \intersect V) \in Nat
        BY <2>1, <2>6, OccursType
      <4> QED BY <2>5, <4>2
    <3>3. Len(some[k]) <= k + 1
      BY <2>1
    <3> QED BY Zenon, <2>1, <3>1, <3>2, <3>3
  <2>7. CASE raw[k + 1] \in kept
    <3>1. some[k + 1] = Append(some[k], raw[k + 1])
      BY <2>3, <2>7
    <3> DEFINE u == some[k]
               v == Append(u, raw[k + 1])
    <3>2. /\ v \in Seq(S) /\ Len(v) = Len(u) + 1
          /\ \A i \in 1 .. Len(u) : v[i] = u[i]
          /\ v[Len(u) + 1] = raw[k + 1]
      <4>1. PICK e : e = raw[k + 1]
        OBVIOUS
      <4>2. u \in Seq(S) /\ e \in S
        BY <2>1, <2>4, <4>1
      <4> HIDE DEF u
      <4>3. /\ Append(u, e) \in Seq(S) /\ Len(Append(u, e)) = Len(u) + 1
            /\ \A i \in 1 .. Len(u) : Append(u, e)[i] = u[i]
            /\ Append(u, e)[Len(u) + 1] = e
        BY <4>2, AppendProperties
      <4> QED BY Zenon, <4>1, <4>3
    <3>3. Len(u) \in Nat /\ Len(u) <= k
      BY <2>1
    <3>4. \A V : Occ(u, V) = Occurs(raw, 0, k, kept \intersect V)
      BY <2>1
    <3> HIDE DEF u, v
    <3>5. ASSUME NEW V PROVE Occ(v, V) = Occurs(raw, 0, k + 1, kept \intersect V)
      <4>1. Occurs(v, 0, Len(u) + 1, V)
              = Occurs(v, 0, Len(u), V) + IF v[Len(u) + 1] \in V THEN 1 ELSE 0
        BY <3>3, OccursStep
      <4>2. Occurs(v, 0, Len(u), V) = Occurs(u, 0, Len(u), V)
        <5>1. \A i \in 0 + 1 .. Len(u) : v[i] \in V <=> u[i] \in V
          BY <3>2, <3>3
        <5> QED BY <5>1 DEF Occurs, Hits
      <4>3. v[Len(u) + 1] \in V <=> raw[k + 1] \in kept \intersect V
        BY <2>7, <3>2
      <4>4. Occ(v, V) = Occ(u, V) + IF v[Len(u) + 1] \in V THEN 1 ELSE 0
        BY Zenon, <3>2, <4>1, <4>2 DEF Occ
      <4>5. Occurs(raw, 0, k + 1, kept \intersect V)
              = Occ(u, V) + IF raw[k + 1] \in kept \intersect V THEN 1 ELSE 0
        BY Zenon, <2>5, <3>4
      <4> QED BY Zenon, <4>3, <4>4, <4>5
    <3>6. Len(v) \in Nat /\ Len(v) <= k + 1
      BY <2>1, <3>2, <3>3
    <3>7. some[k + 1] = v
      BY <3>1 DEF u, v
    <3> QED BY Zenon, <3>2, <3>5, <3>6, <3>7
  <2> QED BY <2>6, <2>7
<1>7. T = Nat
  <2>1. T \in SUBSET Nat
    OBVIOUS
  <2> HIDE DEF T
  <2> QED BY Zenon, <1>5, <1>6, <2>1, Numbers
<1>8. Good(n)
  <2>1. n \in T /\ n <= n
    <3> HIDE DEF T
    <3> QED BY <1>1, <1>7
  <2> HIDE DEF Good
  <2> QED BY <2>1
<1>9. \A V : Occ(raw, kept \intersect V) = Occurs(raw, 0, n, kept \intersect V)
  BY DEF Occ, n
<1> HIDE DEF Good, T
<1>10. /\ some[n] \in Seq(S) /\ Len(some[n]) \in Nat /\ Len(some[n]) <= n
       /\ \A V : Occ(some[n], V) = Occurs(raw, 0, n, kept \intersect V)
  BY Zenon, <1>8 DEF Good
<1> QED BY Zenon, <1>3, <1>9, <1>10 DEF n

-----------------------------------------------------------------------------
(* Counting the one bits of a vector.                                      *)

\* The two tables: a sum without carry, and the carry from that sum.
LEMMA Tables ==
    ASSUME NEW h, NEW l, NEW x, NEW p
    PROVE  /\ p \in FALow(h, l, x) <=> ((p \in h <=> p \in l) <=> p \in x)
           /\ p \in FAHigh(h, FALow(h, l, x), x)
                <=> (p \in h /\ p \in l) \/ (p \in h /\ p \in x) \/ (p \in l /\ p \in x)
<1>1. \A t, a, b, c :
        p \in Ternary(t, a, b, c) <=>
          /\ p \in a \/ p \in b \/ p \in c
          /\ (IF p \in a THEN 4 ELSE 0) + (IF p \in b THEN 2 ELSE 0)
                + (IF p \in c THEN 1 ELSE 0) \in t
  BY DEF Ternary
<1>2. p \in FALow(h, l, x) <=> ((p \in h <=> p \in l) <=> p \in x)
  <2>1. p \in FALow(h, l, x) <=>
          /\ p \in l \/ p \in h \/ p \in x
          /\ (IF p \in l THEN 4 ELSE 0) + (IF p \in h THEN 2 ELSE 0)
                + (IF p \in x THEN 1 ELSE 0) \in {1, 2, 4, 7}
    BY <1>1, TernaryAssumption DEF FALow
  <2> QED BY <2>1
<1>3. \A n : p \in FAHigh(h, n, x) <=>
               /\ p \in h \/ p \in n \/ p \in x
               /\ (IF p \in h THEN 4 ELSE 0) + (IF p \in n THEN 2 ELSE 0)
                     + (IF p \in x THEN 1 ELSE 0) \in {1, 4, 5, 7}
  BY <1>1, TernaryAssumption DEF FAHigh
<1> QED BY <1>2, <1>3

Ones(v, S) == Cardinality(v \intersect S)
Adds(S, h, l, x, low, high) ==
    IsFiniteSet(S) /\ low = FALow(h, l, x) /\ high = FAHigh(h, low, x)

LEMMA FullAdder ==
    ASSUME NEW S, NEW h, NEW l, NEW x, NEW low, NEW high, Adds(S, h, l, x, low, high)
    PROVE  /\ Ones(h, S) \in Nat /\ Ones(l, S) \in Nat /\ Ones(x, S) \in Nat
           /\ Ones(low, S) \in Nat /\ Ones(high, S) \in Nat
           /\ Ones(h, S) + Ones(l, S) + Ones(x, S) = Ones(low, S) + 2 * Ones(high, S)
<1> DEFINE H == h \intersect S
           L == l \intersect S
           X == x \intersect S
           Y == Xor(H, L)
           C == H \intersect L
           D == Y \intersect X
<1>0. IsFiniteSet(S) /\ low = FALow(h, l, x) /\ high = FAHigh(h, low, x)
  BY Zenon DEF Adds
<1>1. IsFiniteSet(H) /\ IsFiniteSet(L) /\ IsFiniteSet(X)
  BY <1>0, FS_Subset
<1>2. /\ \A p : p \in low <=> ((p \in h <=> p \in l) <=> p \in x)
      /\ \A p : p \in high <=> (p \in h /\ p \in l) \/ (p \in h /\ p \in x) \/ (p \in l /\ p \in x)
  BY Zenon, <1>0, Tables
<1>3. low \intersect S = Xor(Y, X)
  BY <1>2 DEF Xor
<1>4. high \intersect S = C \union D /\ C \intersect D = {}
  BY <1>2 DEF Xor
<1> HIDE DEF H, L, X
<1>5. /\ IsFiniteSet(Y) /\ IsFiniteSet(C)
      /\ Cardinality(H) \in Nat /\ Cardinality(L) \in Nat
      /\ Cardinality(Y) \in Nat /\ Cardinality(C) \in Nat
      /\ Cardinality(H) + Cardinality(L) = Cardinality(Y) + 2 * Cardinality(C)
  BY <1>1, XorCardinality
<1> HIDE DEF Y, C
<1>6. /\ IsFiniteSet(D) /\ Cardinality(X) \in Nat /\ Cardinality(D) \in Nat
      /\ Cardinality(Xor(Y, X)) \in Nat
      /\ Cardinality(Y) + Cardinality(X) = Cardinality(Xor(Y, X)) + 2 * Cardinality(D)
  BY <1>1, <1>5, XorCardinality
<1> HIDE DEF D
<1>7. Cardinality(C \union D) = Cardinality(C) + Cardinality(D)
  BY <1>4, <1>5, <1>6, DisjointUnion
<1>8. /\ Cardinality(low \intersect S) = Cardinality(Xor(Y, X))
      /\ Cardinality(high \intersect S) = Cardinality(C) + Cardinality(D)
  BY Zenon, <1>3, <1>4, <1>7
<1>9. /\ Cardinality(H) \in Nat /\ Cardinality(L) \in Nat /\ Cardinality(X) \in Nat
      /\ Cardinality(low \intersect S) \in Nat /\ Cardinality(high \intersect S) \in Nat
      /\ Cardinality(H) + Cardinality(L) + Cardinality(X)
           = Cardinality(low \intersect S) + 2 * Cardinality(high \intersect S)
  BY <1>5, <1>6, <1>8
<1> QED BY Zenon, <1>9 DEF H, L, X, Ones

LEMMA SamePlace ==
    ASSUME NEW w \in Int, NEW v \in Int, NEW r \in Int, NEW s \in Int, NEW m \in {16, 32},
           r >= 0, r < m, s >= 0, s < m, m * w + r = m * v + s
    PROVE  w = v /\ r = s
<1>1. CASE m = 16
  <2>1. ~ (w <= v - 1) /\ ~ (v <= w - 1)
    BY <1>1
  <2> QED BY <2>1
<1>2. CASE m = 32
  <2>1. ~ (w <= v - 1) /\ ~ (v <= w - 1)
    BY <1>2
  <2> QED BY <2>1
<1> QED BY <1>1, <1>2

\* Of the bits that stand for the symbols of n bytes, those that stand for s.
Marked(m, n, R, s, D, C) ==
    /\ m \in {16, 32} /\ n \in Nat /\ s \in 0 .. m - 1
    /\ \A w \in 0 .. n : R[w] \in 0 .. m - 1
    /\ D = {m * w + R[w] : w \in 0 .. n} \intersect {m * w + s : w \in 0 .. n}
    /\ C = {w \in 0 .. n : R[w] = s}

LEMMA SymbolBits ==
    ASSUME NEW m, NEW n, NEW R, NEW s, NEW D, NEW C, Marked(m, n, R, s, D, C)
    PROVE  Cardinality(D) = Cardinality(C)
<1>0. /\ m \in {16, 32} /\ n \in Nat /\ s \in 0 .. m - 1
      /\ \A w \in 0 .. n : R[w] \in 0 .. m - 1
      /\ D = {m * w + R[w] : w \in 0 .. n} \intersect {m * w + s : w \in 0 .. n}
      /\ C = {w \in 0 .. n : R[w] = s}
  BY Zenon DEF Marked
<1> USE <1>0
<1> DEFINE S == {w \in 0 .. n : R[w] = s}
           T == {m * w + R[w] : w \in 0 .. n} \intersect {m * w + s : w \in 0 .. n}
           f == [w \in S |-> m * w + s]
<1>1. IsFiniteSet(S)
  <2>0. n \in Nat
    BY Zenon
  <2>1. IsFiniteSet(0 .. n)
    BY ONLY <2>0, FS_Interval
  <2> QED BY Zenon, <2>1, FS_Subset
<1>2. \A w \in S : w \in Int /\ m * w + s \in T
  OBVIOUS
<1>3. f \in [S -> T] /\ \A w \in S : f[w] = m * w + s
  <2> HIDE DEF S, T
  <2> QED BY <1>2
<1>4. ASSUME NEW z \in T PROVE \E x \in S : f[x] = z
  <2>1. PICK w \in 0 .. n, v \in 0 .. n : z = m * w + R[w] /\ z = m * v + s
    OBVIOUS
  <2>2. PICK r : r = R[w] /\ r \in 0 .. m - 1
    OBVIOUS
  <2>3. /\ w \in Int /\ v \in Int /\ r \in Int /\ s \in Int /\ r >= 0 /\ r < m /\ s >= 0 /\ s < m
        /\ m * w + r = m * v + s
    BY <2>1, <2>2
  <2>4. w = v /\ r = s
    BY <2>3, SamePlace
  <2> QED BY <2>1, <2>2, <2>4, <1>3
<1>5. \A x, y \in S : f[x] = f[y] => x = y
  <2>1. \A x, y \in Int : m * x + s = m * y + s => x = y
    OBVIOUS
  <2> HIDE DEF S, T, f
  <2> QED BY <1>2, <1>3, <2>1
<1> HIDE DEF S, T, f
<1>6. Cardinality(T) = Cardinality(S)
  BY Zenon, <1>1, <1>3, <1>4, <1>5, SameNumber
<1>7. T = D /\ S = C
  BY Zenon DEF S, T
<1> QED BY Zenon, <1>6, <1>7

\* Every width-th byte, from byte j on.
Lane(raw, width, n, j, V) == {w \in 0 .. n : raw[width * w + j + 1] \in V}

LaneOf(raw, width, n, j, V, k, P) ==
    /\ width \in {2, 4} /\ n \in Nat /\ j \in 0 .. width - 1 /\ k = width * (n + 1)
    /\ P = {i \in Hits(raw, 0, k, V) : (i - 1) % width = j}

LEMMA LaneHits ==
    ASSUME NEW raw, NEW width, NEW n, NEW j, NEW V, NEW k, NEW P,
           LaneOf(raw, width, n, j, V, k, P)
    PROVE  /\ IsFiniteSet(P)
           /\ Cardinality(Lane(raw, width, n, j, V)) = Cardinality(P)
<1>0. /\ width \in {2, 4} /\ n \in Nat /\ j \in 0 .. width - 1 /\ k = width * (n + 1)
      /\ P = {i \in Hits(raw, 0, k, V) : (i - 1) % width = j}
  BY Zenon DEF LaneOf
<1> USE <1>0
<1> DEFINE S == Lane(raw, width, n, j, V)
           T == {i \in Hits(raw, 0, k, V) : (i - 1) % width = j}
           f == [w \in S |-> width * w + j + 1]
<1>1. IsFiniteSet(S)
  <2>1. IsFiniteSet(0 .. n)
    BY FS_Interval
  <2> QED BY Zenon, <2>1, FS_Subset DEF Lane
<1>2. \A w \in S : w \in Int /\ width * w + j + 1 \in T
  <2> SUFFICES ASSUME NEW w \in S PROVE w \in Int /\ width * w + j + 1 \in T
    OBVIOUS
  <2>1. w \in Int /\ w >= 0 /\ w <= n /\ raw[width * w + j + 1] \in V
    BY DEF Lane
  <2>2. /\ width * w + j + 1 \in Int /\ width * w + j + 1 >= 1 /\ width * w + j + 1 <= k
        /\ ((width * w + j + 1) - 1) % width = j
    BY <2>1
  <2>3. k \in Int
    OBVIOUS
  <2> QED BY <2>1, <2>2, <2>3 DEF Hits
<1>3. f \in [S -> T] /\ \A w \in S : f[w] = width * w + j + 1
  <2> HIDE DEF S, T
  <2> QED BY <1>2
<1>4. ASSUME NEW z \in T PROVE \E x \in S : f[x] = z
  <2>1. z \in Int /\ z >= 1 /\ z <= k /\ raw[z] \in V /\ (z - 1) % width = j
    <3>1. z \in Hits(raw, 0, k, V) /\ (z - 1) % width = j
      OBVIOUS
    <3>2. k \in Int
      OBVIOUS
    <3> HIDE DEF T
    <3> QED BY <3>1, <3>2 DEF Hits
  <2>2. \E w \in 0 .. n : z = width * w + j + 1
    <3>1. CASE width = 2
      <4>1. /\ (z - 1) \div 2 \in 0 .. n
            /\ z = 2 * ((z - 1) \div 2) + j + 1
        BY <2>1, <3>1
      <4> QED BY <3>1, <4>1
    <3>2. CASE width = 4
      <4>1. /\ (z - 1) \div 4 \in 0 .. n
            /\ z = 4 * ((z - 1) \div 4) + j + 1
        BY <2>1, <3>2
      <4> QED BY <3>2, <4>1
    <3> QED BY <3>1, <3>2
  <2>3. PICK w \in 0 .. n : z = width * w + j + 1
    BY <2>2
  <2>4. w \in S
    BY <2>1, <2>3 DEF Lane
  <2> HIDE DEF S, T, f
  <2> QED BY <2>3, <2>4, <1>3
<1>5. \A x, y \in S : f[x] = f[y] => x = y
  <2>1. \A x, y \in Int : width * x + j + 1 = width * y + j + 1 => x = y
    OBVIOUS
  <2> HIDE DEF S, T, f
  <2> QED BY <1>2, <1>3, <2>1
<1> HIDE DEF S, T, f
<1>6. IsFiniteSet(T) /\ Cardinality(T) = Cardinality(S)
  BY Zenon, <1>1, <1>3, <1>4, <1>5, SameNumber
<1> QED BY Zenon, <1>6 DEF S, T

\* The bytes that are t modulo m.
Class(m, t) == {b \in Bytes : b % m = t}

\* D has the bits of s among those of lane j, P the bytes they stand for.
LaneBits(raw, width, j, s, n, S, H, D, P) ==
    /\ raw \in Seq(Bytes) /\ Len(raw) = 64 /\ width \in {2, 4} /\ j \in 0 .. width - 1
    /\ s \in 0 .. 8 * width - 1 /\ n = 64 \div width - 1
    /\ S = {8 * width * w + s : w \in 0 .. n}
    /\ H = Hits(raw, 0, 64, Class(8 * width, s))
    /\ D = OneBits(raw, width, j) \intersect S
    /\ P = {i \in H : (i - 1) % width = j}

LEMMA LaneCount ==
    ASSUME NEW raw, NEW width, NEW j, NEW s, NEW n, NEW S, NEW H, NEW D, NEW P,
           LaneBits(raw, width, j, s, n, S, H, D, P)
    PROVE  IsFiniteSet(S) /\ IsFiniteSet(P) /\ Cardinality(D) = Cardinality(P)
<1>0. /\ raw \in Seq(Bytes) /\ Len(raw) = 64 /\ width \in {2, 4} /\ j \in 0 .. width - 1
      /\ s \in 0 .. 8 * width - 1 /\ n = 64 \div width - 1
      /\ S = {8 * width * w + s : w \in 0 .. n}
      /\ H = Hits(raw, 0, 64, Class(8 * width, s))
      /\ D = OneBits(raw, width, j) \intersect S
      /\ P = {i \in H : (i - 1) % width = j}
  BY Zenon DEF LaneBits
<1> USE <1>0
<1> DEFINE m == 8 * width
           R == [w \in 0 .. n |-> raw[width * w + j + 1] % m]
<1>1. m \in {16, 32} /\ n \in Nat /\ width * (n + 1) = 64 /\ s \in 0 .. m - 1
  OBVIOUS
<1>2. \A i \in 1 .. 64 : raw[i] \in Bytes /\ raw[i] \in Int
  <2>1. \A i \in 1 .. Len(raw) : raw[i] \in Bytes
    BY ElementOfSeq
  <2>2. \A b \in Bytes : b \in Int
    BY DEF Bytes
  <2> HIDE DEF m
  <2> QED BY <2>1, <2>2
<1>3. \A w \in 0 .. n : width * w + j + 1 \in 1 .. 64
  OBVIOUS
<1>4. \A w \in 0 .. n : raw[width * w + j + 1] \in Bytes /\ raw[width * w + j + 1] \in Int
  BY Zenon, <1>2, <1>3
<1>5. \A w \in 0 .. n : R[w] \in 0 .. m - 1
  <2>1. \A x \in Int : x % m \in 0 .. m - 1
    BY <1>1
  <2> HIDE DEF m
  <2> QED BY Zenon, <1>4, <2>1
<1>6. OneBits(raw, width, j) = {m * w + R[w] : w \in 0 .. n}
  <2>1. \A w \in 0 .. n : R[w] = raw[width * w + j + 1] % m
    BY Zenon
  <2>2. OneBits(raw, width, j) = {m * w + (raw[width * w + j + 1] % m) : w \in 0 .. n}
    BY Zenon DEF OneBits
  <2> HIDE DEF m, R
  <2> QED BY <2>1, <2>2
<1>7. Lane(raw, width, n, j, Class(m, s)) = {w \in 0 .. n : R[w] = s}
  <2>1. \A w \in 0 .. n : R[w] = raw[width * w + j + 1] % m
    BY Zenon
  <2> HIDE DEF m, R
  <2> QED BY Zenon, <1>4, <2>1 DEF Lane, Class
<1>8. IsFiniteSet(S)
  <2>1. m * n + s \in Int /\ 0 \in Int /\ S \subseteq 0 .. m * n + s
    <3>1. \A w \in 0 .. n : m * w + s \in 0 .. m * n + s
      BY <1>1
    <3>2. S = {m * w + s : w \in 0 .. n}
      BY Zenon
    <3>3. m * n + s \in Int /\ 0 \in Int
      BY <1>1
    <3> HIDE DEF m
    <3> QED BY Zenon, <3>1, <3>2, <3>3
  <2>2. IsFiniteSet(0 .. m * n + s)
    BY Zenon, <2>1, FS_Interval
  <2> QED BY Zenon, <2>1, <2>2, FS_Subset
<1> HIDE DEF R
<1>9. Cardinality(D) = Cardinality(Lane(raw, width, n, j, Class(m, s)))
  <2>1. S = {m * w + s : w \in 0 .. n}
    BY Zenon
  <2> HIDE DEF m
  <2>2. PICK C : C = Lane(raw, width, n, j, Class(m, s))
    BY Zenon
  <2>3. /\ D = {m * w + R[w] : w \in 0 .. n} \intersect {m * w + s : w \in 0 .. n}
        /\ C = {w \in 0 .. n : R[w] = s}
    BY Zenon, <1>6, <1>7, <2>1, <2>2
  <2>4. Marked(m, n, R, s, D, C)
    BY Zenon, <1>1, <1>5, <2>3 DEF Marked
  <2>5. Cardinality(D) = Cardinality(C)
    BY <2>4, SymbolBits
  <2> QED BY Zenon, <2>2, <2>5
<1> HIDE DEF m
<1>10. P = {i \in Hits(raw, 0, 64, Class(m, s)) : (i - 1) % width = j}
  BY Zenon DEF m
<1>11. IsFiniteSet(P) /\ Cardinality(Lane(raw, width, n, j, Class(m, s))) = Cardinality(P)
  <2>1. PICK V, k : V = Class(m, s) /\ k = 64
    BY Zenon
  <2>2. P = {i \in Hits(raw, 0, k, V) : (i - 1) % width = j} /\ k = width * (n + 1)
    BY Zenon, <1>1, <1>10, <2>1
  <2>3. IsFiniteSet(P) /\ Cardinality(Lane(raw, width, n, j, V)) = Cardinality(P)
    <3>1. LaneOf(raw, width, n, j, V, k, P)
      BY Zenon, <1>1, <2>2 DEF LaneOf
    <3> QED BY <3>1, LaneHits
  <2> QED BY Zenon, <2>1, <2>3
<1> QED BY Zenon, <1>8, <1>9, <1>11

\* The bytes of a vector in two lanes, and in four.
InTwo(H, P, Q) ==
    /\ \A i \in H : i \in Int
    /\ IsFiniteSet(P) /\ P = {i \in H : (i - 1) % 2 = 0}
    /\ IsFiniteSet(Q) /\ Q = {i \in H : (i - 1) % 2 = 1}

LEMMA TwoLanes ==
    ASSUME NEW H, NEW P, NEW Q, InTwo(H, P, Q)
    PROVE  /\ Cardinality(P) \in Nat /\ Cardinality(Q) \in Nat
           /\ Cardinality(H) = Cardinality(P) + Cardinality(Q)
<1> USE DEF InTwo
<1>1. \A i \in H : (i - 1) % 2 = 0 \/ (i - 1) % 2 = 1
  OBVIOUS
<1>2. H = P \union Q
  BY Zenon, <1>1
<1>3. P \intersect Q = {}
  OBVIOUS
<1> QED BY Zenon, <1>2, <1>3, DisjointUnion

InFour(H, P, Q, R, S) ==
    /\ \A i \in H : i \in Int
    /\ IsFiniteSet(P) /\ P = {i \in H : (i - 1) % 4 = 0}
    /\ IsFiniteSet(Q) /\ Q = {i \in H : (i - 1) % 4 = 1}
    /\ IsFiniteSet(R) /\ R = {i \in H : (i - 1) % 4 = 2}
    /\ IsFiniteSet(S) /\ S = {i \in H : (i - 1) % 4 = 3}

LEMMA FourLanes ==
    ASSUME NEW H, NEW P, NEW Q, NEW R, NEW S, InFour(H, P, Q, R, S)
    PROVE  /\ Cardinality(P) \in Nat /\ Cardinality(Q) \in Nat
           /\ Cardinality(R) \in Nat /\ Cardinality(S) \in Nat
           /\ Cardinality(H) = Cardinality(P) + Cardinality(Q) + Cardinality(R) + Cardinality(S)
<1> USE DEF InFour
<1>1. \A i \in H : (i - 1) % 4 = 0 \/ (i - 1) % 4 = 1 \/ (i - 1) % 4 = 2 \/ (i - 1) % 4 = 3
  OBVIOUS
<1>2. H = (P \union Q) \union (R \union S)
  BY Zenon, <1>1
<1>3. P \intersect Q = {} /\ R \intersect S = {} /\ (P \union Q) \intersect (R \union S) = {}
  OBVIOUS
<1>4. /\ IsFiniteSet(P \union Q) /\ Cardinality(P) \in Nat /\ Cardinality(Q) \in Nat
      /\ Cardinality(P \union Q) = Cardinality(P) + Cardinality(Q)
  BY Zenon, <1>3, DisjointUnion
<1>5. /\ IsFiniteSet(R \union S) /\ Cardinality(R) \in Nat /\ Cardinality(S) \in Nat
      /\ Cardinality(R \union S) = Cardinality(R) + Cardinality(S)
  BY Zenon, <1>3, DisjointUnion
<1>6. Cardinality(H) = Cardinality(P \union Q) + Cardinality(R \union S)
  BY Zenon, <1>2, <1>3, <1>4, <1>5, DisjointUnion
<1> QED BY <1>4, <1>5, <1>6

\* What a vector has of a symbol, in two words and in four.
OfWords16(raw, s, x0, x1) ==
    /\ raw \in Seq(Bytes) /\ Len(raw) = 64 /\ s \in 0 .. 15
    /\ x0 = OneBits(raw, 2, 0) \intersect Sources16[s]
    /\ x1 = OneBits(raw, 2, 1) \intersect Sources16[s]

LEMMA Vector16 ==
    ASSUME NEW raw, NEW s, NEW x0, NEW x1, OfWords16(raw, s, x0, x1)
    PROVE  /\ IsFiniteSet(Sources16[s])
           /\ Cardinality(x0) \in Nat /\ Cardinality(x1) \in Nat
           /\ Occ(raw, Class(16, s)) = Cardinality(x0) + Cardinality(x1)
<1>0. /\ raw \in Seq(Bytes) /\ Len(raw) = 64 /\ s \in 0 .. 15
      /\ x0 = OneBits(raw, 2, 0) \intersect Sources16[s]
      /\ x1 = OneBits(raw, 2, 1) \intersect Sources16[s]
  BY Zenon DEF OfWords16
<1> USE <1>0
<1>1. PICK n, S, H : n = 64 \div 2 - 1 /\ S = Sources16[s] /\ H = Hits(raw, 0, 64, Class(8 * 2, s))
  BY Zenon
<1>2. S = {8 * 2 * w + s : w \in 0 .. n}
  BY Zenon, <1>1, SourcesAssumption
<1>3. PICK P, Q : P = {i \in H : (i - 1) % 2 = 0} /\ Q = {i \in H : (i - 1) % 2 = 1}
  BY Zenon
<1>4. 2 \in {2, 4} /\ 0 \in 0 .. 2 - 1 /\ 1 \in 0 .. 2 - 1 /\ s \in 0 .. 8 * 2 - 1 /\ 8 * 2 = 16
  OBVIOUS
<1>5. IsFiniteSet(S) /\ IsFiniteSet(P) /\ Cardinality(x0) = Cardinality(P)
  <2>1. LaneBits(raw, 2, 0, s, n, S, H, x0, P)
    BY Zenon, <1>1, <1>2, <1>3, <1>4 DEF LaneBits
  <2> QED BY <2>1, LaneCount
<1>6. IsFiniteSet(Q) /\ Cardinality(x1) = Cardinality(Q)
  <2>1. LaneBits(raw, 2, 1, s, n, S, H, x1, Q)
    BY Zenon, <1>1, <1>2, <1>3, <1>4 DEF LaneBits
  <2> QED BY <2>1, LaneCount
<1>7. \A i \in H : i \in Int
  BY <1>1 DEF Hits
<1>8. /\ Cardinality(P) \in Nat /\ Cardinality(Q) \in Nat
      /\ Cardinality(H) = Cardinality(P) + Cardinality(Q)
  <2>1. InTwo(H, P, Q)
    BY Zenon, <1>3, <1>5, <1>6, <1>7 DEF InTwo
  <2> QED BY <2>1, TwoLanes
<1>9. Occ(raw, Class(16, s)) = Cardinality(H)
  BY Zenon, <1>1, <1>4 DEF Occ, Occurs
<1> QED BY Zenon, <1>1, <1>5, <1>6, <1>8, <1>9

OfWords32(raw, s, x0, x1, x2, x3) ==
    /\ raw \in Seq(Bytes) /\ Len(raw) = 64 /\ s \in 0 .. 31
    /\ x0 = OneBits(raw, 4, 0) \intersect Sources32[s]
    /\ x1 = OneBits(raw, 4, 1) \intersect Sources32[s]
    /\ x2 = OneBits(raw, 4, 2) \intersect Sources32[s]
    /\ x3 = OneBits(raw, 4, 3) \intersect Sources32[s]

LEMMA Vector32 ==
    ASSUME NEW raw, NEW s, NEW x0, NEW x1, NEW x2, NEW x3, OfWords32(raw, s, x0, x1, x2, x3)
    PROVE  /\ IsFiniteSet(Sources32[s])
           /\ Cardinality(x0) \in Nat /\ Cardinality(x1) \in Nat
           /\ Cardinality(x2) \in Nat /\ Cardinality(x3) \in Nat
           /\ Occ(raw, Class(32, s))
                = Cardinality(x0) + Cardinality(x1) + Cardinality(x2) + Cardinality(x3)
<1>0. /\ raw \in Seq(Bytes) /\ Len(raw) = 64 /\ s \in 0 .. 31
      /\ x0 = OneBits(raw, 4, 0) \intersect Sources32[s]
      /\ x1 = OneBits(raw, 4, 1) \intersect Sources32[s]
      /\ x2 = OneBits(raw, 4, 2) \intersect Sources32[s]
      /\ x3 = OneBits(raw, 4, 3) \intersect Sources32[s]
  BY Zenon DEF OfWords32
<1> USE <1>0
<1>1. PICK n, S, H : n = 64 \div 4 - 1 /\ S = Sources32[s] /\ H = Hits(raw, 0, 64, Class(8 * 4, s))
  BY Zenon
<1>2. S = {8 * 4 * w + s : w \in 0 .. n}
  BY Zenon, <1>1, SourcesAssumption
<1>3. PICK P, Q, R, T : /\ P = {i \in H : (i - 1) % 4 = 0} /\ Q = {i \in H : (i - 1) % 4 = 1}
                        /\ R = {i \in H : (i - 1) % 4 = 2} /\ T = {i \in H : (i - 1) % 4 = 3}
  BY Zenon
<1>4. /\ 4 \in {2, 4} /\ 0 \in 0 .. 4 - 1 /\ 1 \in 0 .. 4 - 1 /\ 2 \in 0 .. 4 - 1 /\ 3 \in 0 .. 4 - 1
      /\ s \in 0 .. 8 * 4 - 1 /\ 8 * 4 = 32
  OBVIOUS
<1>5. IsFiniteSet(S) /\ IsFiniteSet(P) /\ Cardinality(x0) = Cardinality(P)
  <2>1. LaneBits(raw, 4, 0, s, n, S, H, x0, P)
    BY Zenon, <1>1, <1>2, <1>3, <1>4 DEF LaneBits
  <2> QED BY <2>1, LaneCount
<1>6. IsFiniteSet(Q) /\ Cardinality(x1) = Cardinality(Q)
  <2>1. LaneBits(raw, 4, 1, s, n, S, H, x1, Q)
    BY Zenon, <1>1, <1>2, <1>3, <1>4 DEF LaneBits
  <2> QED BY <2>1, LaneCount
<1>7. IsFiniteSet(R) /\ Cardinality(x2) = Cardinality(R)
  <2>1. LaneBits(raw, 4, 2, s, n, S, H, x2, R)
    BY Zenon, <1>1, <1>2, <1>3, <1>4 DEF LaneBits
  <2> QED BY <2>1, LaneCount
<1>8. IsFiniteSet(T) /\ Cardinality(x3) = Cardinality(T)
  <2>1. LaneBits(raw, 4, 3, s, n, S, H, x3, T)
    BY Zenon, <1>1, <1>2, <1>3, <1>4 DEF LaneBits
  <2> QED BY <2>1, LaneCount
<1>9. \A i \in H : i \in Int
  BY <1>1 DEF Hits
<1>10. /\ Cardinality(P) \in Nat /\ Cardinality(Q) \in Nat
       /\ Cardinality(R) \in Nat /\ Cardinality(T) \in Nat
       /\ Cardinality(H) = Cardinality(P) + Cardinality(Q) + Cardinality(R) + Cardinality(T)
  <2>1. InFour(H, P, Q, R, T)
    BY Zenon, <1>3, <1>5, <1>6, <1>7, <1>8, <1>9 DEF InFour
  <2> QED BY <2>1, FourLanes
<1>11. Occ(raw, Class(32, s)) = Cardinality(H)
  BY Zenon, <1>1, <1>4 DEF Occ, Occurs
<1> QED BY Zenon, <1>1, <1>5, <1>6, <1>7, <1>8, <1>10, <1>11

\* The ones that stand for a symbol.
Ones16(v, s) == Popcnt16(v)[s]
Ones32(v, s) == Popcnt32(v)[s]

\* What an addition of a vector adds: the sums and the carries.
WordSums16(raw, b, sum, high) ==
    /\ raw \in Seq(Bytes) /\ Len(raw) = 64
    /\ sum = FALow(OneBits(raw, 2, 1), b, OneBits(raw, 2, 0))
    /\ high = FAHigh(OneBits(raw, 2, 1), sum, OneBits(raw, 2, 0))

LEMMA Added16 ==
    ASSUME NEW raw, NEW s \in 0 .. 15, NEW b, NEW sum, NEW high, WordSums16(raw, b, sum, high)
    PROVE  /\ Ones16(b, s) \in Nat /\ Ones16(sum, s) \in Nat /\ Ones16(high, s) \in Nat
           /\ Ones16(b, s) + Occ(raw, Class(16, s))
                = Ones16(sum, s) + 2 * Ones16(high, s)
<1>0. PICK x0, x1 : /\ x0 = OneBits(raw, 2, 0) /\ x1 = OneBits(raw, 2, 1)
                    /\ raw \in Seq(Bytes) /\ Len(raw) = 64
                    /\ sum = FALow(x1, b, x0) /\ high = FAHigh(x1, sum, x0)
  BY Zenon DEF WordSums16
<1>1. PICK S, y0, y1 : S = Sources16[s] /\ y0 = x0 \intersect S /\ y1 = x1 \intersect S
  BY Zenon
<1>2. /\ IsFiniteSet(S) /\ Cardinality(y0) \in Nat /\ Cardinality(y1) \in Nat
      /\ Occ(raw, Class(16, s)) = Cardinality(y0) + Cardinality(y1)
  <2>1. OfWords16(raw, s, y0, y1)
    BY Zenon, <1>0, <1>1 DEF OfWords16
  <2>2. /\ IsFiniteSet(Sources16[s])
        /\ Cardinality(y0) \in Nat /\ Cardinality(y1) \in Nat
        /\ Occ(raw, Class(16, s)) = Cardinality(y0) + Cardinality(y1)
    BY <2>1, Vector16
  <2> QED BY Zenon, <1>1, <2>2
<1>3. /\ \A v : Ones16(v, s) = Ones(v, S)
      /\ Ones(x0, S) = Cardinality(y0) /\ Ones(x1, S) = Cardinality(y1)
  BY Zenon, <1>1 DEF Popcnt16, Ones16, Ones
<1>4. /\ Ones(x1, S) \in Nat /\ Ones(b, S) \in Nat /\ Ones(x0, S) \in Nat
      /\ Ones(sum, S) \in Nat /\ Ones(high, S) \in Nat
      /\ Ones(x1, S) + Ones(b, S) + Ones(x0, S) = Ones(sum, S) + 2 * Ones(high, S)
  <2>1. Adds(S, x1, b, x0, sum, high)
    BY Zenon, <1>0, <1>2 DEF Adds
  <2> QED BY <2>1, FullAdder
<1>5. PICK o, c0, c1, d, e, f : /\ o = Occ(raw, Class(16, s))
                                /\ c0 = Cardinality(y0) /\ c1 = Cardinality(y1)
                                /\ d = Ones16(b, s) /\ e = Ones16(sum, s) /\ f = Ones16(high, s)
  BY Zenon
<1>6. /\ c1 \in Nat /\ d \in Nat /\ c0 \in Nat /\ e \in Nat /\ f \in Nat
      /\ c1 + d + c0 = e + 2 * f /\ o = c0 + c1
  BY Zenon, <1>1, <1>2, <1>3, <1>4, <1>5
<1>7. d \in Nat /\ e \in Nat /\ f \in Nat /\ d + o = e + 2 * f
  BY ONLY <1>6
<1> QED BY Zenon, <1>5, <1>7

WordSums32(raw, b, c, sum1, high1, sum2, high2, sum3, high3) ==
    /\ raw \in Seq(Bytes) /\ Len(raw) = 64
    /\ sum1 = FALow(OneBits(raw, 4, 1), b, OneBits(raw, 4, 0))
    /\ high1 = FAHigh(OneBits(raw, 4, 1), sum1, OneBits(raw, 4, 0))
    /\ sum2 = FALow(OneBits(raw, 4, 3), sum1, OneBits(raw, 4, 2))
    /\ high2 = FAHigh(OneBits(raw, 4, 3), sum2, OneBits(raw, 4, 2))
    /\ sum3 = FALow(high2, c, high1) /\ high3 = FAHigh(high2, sum3, high1)

\* Bits worth two and one, symbols counted: what becomes of them.
Carried(twos, ones, some, high, newtwos, newones) ==
    /\ twos \in Nat /\ ones \in Nat /\ high \in Nat /\ newtwos \in Nat /\ newones \in Nat
    /\ 2 * twos + ones + some = 4 * high + 2 * newtwos + newones

LEMMA Added32 ==
    ASSUME NEW raw, NEW s \in 0 .. 31, NEW b, NEW c,
           NEW sum1, NEW high1, NEW sum2, NEW high2, NEW sum3, NEW high3,
           WordSums32(raw, b, c, sum1, high1, sum2, high2, sum3, high3)
    PROVE  Carried(Ones32(c, s), Ones32(b, s), Occ(raw, Class(32, s)),
                   Ones32(high3, s), Ones32(sum3, s), Ones32(sum2, s))
<1>0. PICK x0, x1, x2, x3 :
        /\ raw \in Seq(Bytes) /\ Len(raw) = 64
        /\ x0 = OneBits(raw, 4, 0) /\ x1 = OneBits(raw, 4, 1)
        /\ x2 = OneBits(raw, 4, 2) /\ x3 = OneBits(raw, 4, 3)
        /\ sum1 = FALow(x1, b, x0) /\ high1 = FAHigh(x1, sum1, x0)
        /\ sum2 = FALow(x3, sum1, x2) /\ high2 = FAHigh(x3, sum2, x2)
        /\ sum3 = FALow(high2, c, high1) /\ high3 = FAHigh(high2, sum3, high1)
  BY Zenon DEF WordSums32
<1>1. PICK S, y0, y1, y2, y3 : /\ S = Sources32[s]
                               /\ y0 = x0 \intersect S /\ y1 = x1 \intersect S
                               /\ y2 = x2 \intersect S /\ y3 = x3 \intersect S
  BY Zenon
<1>2. /\ IsFiniteSet(S)
      /\ Cardinality(y0) \in Nat /\ Cardinality(y1) \in Nat
      /\ Cardinality(y2) \in Nat /\ Cardinality(y3) \in Nat
      /\ Occ(raw, Class(32, s))
           = Cardinality(y0) + Cardinality(y1) + Cardinality(y2) + Cardinality(y3)
  <2>1. OfWords32(raw, s, y0, y1, y2, y3)
    BY Zenon, <1>0, <1>1 DEF OfWords32
  <2>2. /\ IsFiniteSet(Sources32[s])
        /\ Cardinality(y0) \in Nat /\ Cardinality(y1) \in Nat
        /\ Cardinality(y2) \in Nat /\ Cardinality(y3) \in Nat
        /\ Occ(raw, Class(32, s))
             = Cardinality(y0) + Cardinality(y1) + Cardinality(y2) + Cardinality(y3)
    BY <2>1, Vector32
  <2> QED BY Zenon, <1>1, <2>2
<1>3. /\ \A v : Ones32(v, s) = Ones(v, S)
      /\ Ones(x0, S) = Cardinality(y0) /\ Ones(x1, S) = Cardinality(y1)
      /\ Ones(x2, S) = Cardinality(y2) /\ Ones(x3, S) = Cardinality(y3)
  BY Zenon, <1>1 DEF Popcnt32, Ones32, Ones
<1>4. /\ Adds(S, x1, b, x0, sum1, high1) /\ Adds(S, x3, sum1, x2, sum2, high2)
      /\ Adds(S, high2, c, high1, sum3, high3)
  BY Zenon, <1>0, <1>2 DEF Adds
<1>5. PICK o, c0, c1, c2, c3, d, e, l1, h1, l2, h2, l3, h3 :
        /\ o = Occ(raw, Class(32, s))
        /\ c0 = Ones(x0, S) /\ c1 = Ones(x1, S) /\ c2 = Ones(x2, S) /\ c3 = Ones(x3, S)
        /\ d = Ones(b, S) /\ e = Ones(c, S)
        /\ l1 = Ones(sum1, S) /\ h1 = Ones(high1, S)
        /\ l2 = Ones(sum2, S) /\ h2 = Ones(high2, S)
        /\ l3 = Ones(sum3, S) /\ h3 = Ones(high3, S)
  BY Zenon
<1>6. o = c0 + c1 + c2 + c3
  BY Zenon, <1>1, <1>2, <1>3, <1>5
<1>7. /\ c1 \in Nat /\ d \in Nat /\ c0 \in Nat /\ l1 \in Nat /\ h1 \in Nat
      /\ c1 + d + c0 = l1 + 2 * h1
  BY <1>4, <1>5, FullAdder
<1>8. /\ c3 \in Nat /\ c2 \in Nat /\ l2 \in Nat /\ h2 \in Nat
      /\ c3 + l1 + c2 = l2 + 2 * h2
  BY <1>4, <1>5, FullAdder
<1>9. e \in Nat /\ l3 \in Nat /\ h3 \in Nat /\ h2 + e + h1 = l3 + 2 * h3
  BY <1>4, <1>5, FullAdder
<1>10. 2 * e + d + o = 4 * h3 + 2 * l3 + l2
  BY ONLY <1>6, <1>7, <1>8, <1>9
<1>11. /\ Ones32(b, s) = d /\ Ones32(c, s) = e /\ Ones32(sum2, s) = l2
       /\ Ones32(sum3, s) = l3 /\ Ones32(high3, s) = h3
  BY Zenon, <1>3, <1>5
<1>12. o = Occ(raw, Class(32, s))
  BY Zenon, <1>5
<1> QED BY Zenon, <1>7, <1>8, <1>9, <1>10, <1>11, <1>12 DEF Carried

-----------------------------------------------------------------------------
(* A counter wraps around: what it holds, up to whole turns.               *)

Wraps == {CounterLimit * q : q \in Int}
Residues == 0 .. CounterLimit - 1

LEMMA Turns ==
    /\ 0 \in Wraps /\ Wraps \in SUBSET Int
    /\ \A v, w \in Wraps : v + w \in Wraps /\ v - w \in Wraps
<1>1. PICK m : m = CounterLimit
  OBVIOUS
<1>2. m \in Int
  BY <1>1, LimitAssumption
<1>3. Wraps = {m * q : q \in Int}
  BY <1>1 DEF Wraps
<1>4. \A p, q \in Int : m * p \in Int /\ m * p + m * q = m * (p + q) /\ m * p - m * q = m * (p - q)
                        /\ p + q \in Int /\ p - q \in Int
  BY ONLY <1>2
<1>5. 0 = m * 0 /\ 0 \in Int
  BY ONLY <1>2
<1>6. Wraps \in SUBSET Int
  BY <1>3, <1>4
<1>7. 0 \in Wraps
  BY <1>3, <1>5
<1>8. ASSUME NEW v \in Wraps, NEW w \in Wraps PROVE v + w \in Wraps /\ v - w \in Wraps
  <2>1. PICK p, q : p \in Int /\ q \in Int /\ v = m * p /\ w = m * q
    BY Zenon, <1>3
  <2>2. v + w = m * (p + q) /\ v - w = m * (p - q) /\ p + q \in Int /\ p - q \in Int
    BY Zenon, <1>4, <2>1
  <2> QED BY Zenon, <1>3, <2>2
<1> QED BY <1>6, <1>7, <1>8

\* One turn, and what is left of it.
LEMMA Reduced ==
    ASSUME NEW x \in Int
    PROVE  x % CounterLimit \in Residues /\ x % CounterLimit \in Int
           /\ (x % CounterLimit) - x \in Wraps
<1>1. PICK m : m = CounterLimit
  OBVIOUS
<1>2. m \in Nat /\ m > 0
  BY <1>1, LimitAssumption
<1>3. x % m \in 0 .. m - 1 /\ x % m \in Int
  BY ONLY <1>2, x \in Int
<1>4. x = m * (x \div m) + (x % m) /\ x \div m \in Int
  BY ONLY <1>2, x \in Int
<1>5. PICK q, r, y : q = x \div m /\ r = x % m /\ y = m * q
  OBVIOUS
<1>6. y \in Int
  <2>1. m \in Int /\ q \in Int
    BY <1>2, <1>4, <1>5
  <2> QED BY <2>1, <1>5
<1>7. y - 0 = y /\ 0 - y = r - x
  <2>1. x = y + r /\ r \in Int
    BY <1>3, <1>4, <1>5
  <2> QED BY ONLY <1>6, <2>1, x \in Int
<1>8. y \in Wraps
  BY Zenon, <1>1, <1>4, <1>5 DEF Wraps
<1>9. 0 - y \in Wraps
  BY <1>8, Turns
<1>10. (x % m) - x \in Wraps
  BY Zenon, <1>5, <1>7, <1>9
<1>11. x % m \in Residues
  BY Zenon, <1>1, <1>3 DEF Residues
<1> QED BY Zenon, <1>1, <1>3, <1>10, <1>11

LEMMA SameResidue ==
    ASSUME NEW x \in Residues, NEW y \in Residues, x - y \in Wraps
    PROVE  x = y
<1>1. PICK m : m = CounterLimit
  OBVIOUS
<1>2. m \in Nat /\ m > 0
  BY <1>1, LimitAssumption
<1>3. PICK q : q \in Int /\ x - y = m * q
  BY Zenon, <1>1 DEF Wraps
<1>4. x \in 0 .. m - 1 /\ y \in 0 .. m - 1
  BY Zenon, <1>1 DEF Residues
<1>5. ~ (q >= 1)
  <2> SUFFICES ASSUME q >= 1 PROVE FALSE
    OBVIOUS
  <2>1. m * q >= m * 1
    BY <1>2, <1>3
  <2> QED BY <1>2, <1>3, <1>4, <2>1
<1>6. ~ (q <= -1)
  <2> SUFFICES ASSUME q <= -1 PROVE FALSE
    OBVIOUS
  <2>1. m * q <= m * (-1)
    BY <1>2, <1>3
  <2> QED BY <1>2, <1>3, <1>4, <2>1
<1>7. q = 0
  BY <1>3, <1>5, <1>6
<1>8. m * q = 0
  BY <1>2, <1>7
<1> QED BY <1>3, <1>4, <1>8

\* The sums of vhist16() are narrowed to a u16, those of the others are exact
\* as long as no counter overflows.
Slack(fn) == IF fn = "vhist16" THEN Wraps ELSE {0}

LEMMA Slacks ==
    ASSUME NEW fn
    PROVE  /\ 0 \in Slack(fn) /\ Slack(fn) \in SUBSET Int
           /\ \A v, w \in Slack(fn) : v + w \in Slack(fn) /\ v - w \in Slack(fn)
           /\ fn # "vhist16" => \A v \in Slack(fn) : v = 0
<1>1. CASE fn = "vhist16"
  BY Zenon, <1>1, Turns DEF Slack
<1>2. CASE fn # "vhist16"
  <2>1. 0 + 0 = 0 /\ 0 - 0 = 0 /\ 0 \in Int
    OBVIOUS
  <2>2. Slack(fn) = {0}
    BY Zenon, <1>2 DEF Slack
  <2>3. \A v \in Slack(fn) : v = 0
    BY Zenon, <2>2
  <2>4. 0 \in Slack(fn) /\ Slack(fn) \in SUBSET Int
    BY Zenon, <2>1, <2>2
  <2> QED BY Zenon, <2>1, <2>3, <2>4
<1> QED BY Zenon, <1>1, <1>2

\* What is stored of x.
LEMMA Stored ==
    ASSUME NEW fn, NEW x \in Int
    PROVE  /\ x % CounterLimit \in Residues /\ x % CounterLimit \in Int
           /\ fn = "vhist16" \/ x \in Residues => (x % CounterLimit) - x \in Slack(fn)
<1>1. x % CounterLimit \in Residues /\ x % CounterLimit \in Int /\ (x % CounterLimit) - x \in Wraps
  BY Reduced
<1>2. ASSUME x \in Residues PROVE (x % CounterLimit) - x \in Slack(fn)
  <2>1. PICK m : m = CounterLimit
    OBVIOUS
  <2>2. m \in Nat /\ m > 0 /\ x \in 0 .. m - 1
    BY <1>2, <2>1, LimitAssumption DEF Residues
  <2>3. (x % m) - x = 0
    BY ONLY <2>2
  <2> QED BY Zenon, <2>1, <2>3, Slacks
<1> QED BY Zenon, <1>1, <1>2 DEF Slack

-----------------------------------------------------------------------------
(* The addition of two vectors of counters.                                *)

Counter32 == 0 .. 31

LEMMA LaneType ==
    ASSUME NEW a \in [Counter32 -> Nat], NEW b \in [Counter32 -> Nat]
    PROVE  /\ LaneAdd(a, b) \in [Counter32 -> Residues]
           /\ LaneAdd(a, b) \in [Counter32 -> Nat]
<1>1. \A s \in Counter32 : LaneAdd(a, b)[s] \in Residues
  <2> SUFFICES ASSUME NEW s \in Counter32 PROVE LaneAdd(a, b)[s] \in Residues
    OBVIOUS
  <2>1. PICK x : x = a[s] + b[s] + IF CarryInto(s, a, b) THEN 1 ELSE 0
    OBVIOUS
  <2>2. x \in Int
    BY <2>1
  <2>3. LaneAdd(a, b)[s] = x % CounterLimit
    BY Zenon, <2>1 DEF LaneAdd, Counter32
  <2> QED BY Zenon, <2>2, <2>3, Reduced
<1>2. LaneAdd(a, b) \in [Counter32 -> Residues]
  BY Zenon, <1>1 DEF LaneAdd, Counter32
<1>3. \A r \in Residues : r \in Nat
  BY DEF Residues
<1> QED BY Zenon, <1>2, <1>3

\* Without an overflow nothing is carried and the sums are exact.
LEMMA LaneExact ==
    ASSUME NEW a \in [Counter32 -> Nat], NEW b \in [Counter32 -> Nat],
           \A s \in Counter32 : a[s] + b[s] < CounterLimit
    PROVE  \A s \in Counter32 : LaneAdd(a, b)[s] = a[s] + b[s]
<1> SUFFICES ASSUME NEW s \in Counter32 PROVE LaneAdd(a, b)[s] = a[s] + b[s]
  OBVIOUS
<1>1. ~ CarryInto(s, a, b)
  <2>1. \A j \in 4 * (s \div 4) .. s - 1 : j \in Counter32
    BY DEF Counter32
  <2>2. PICK m : m = CounterLimit
    OBVIOUS
  <2>3. m \in Nat
    BY <2>2, LimitAssumption
  <2>4. \A j \in Counter32 : ~ (a[j] + b[j] >= m)
    <3> SUFFICES ASSUME NEW j \in Counter32 PROVE ~ (a[j] + b[j] >= m)
      OBVIOUS
    <3>1. a[j] \in Nat /\ b[j] \in Nat /\ a[j] + b[j] < m
      BY Zenon, <2>2
    <3> QED BY ONLY <2>3, <3>1
  <2> QED BY Zenon, <2>1, <2>2, <2>4 DEF CarryInto
<1>2. PICK m, x : m = CounterLimit /\ x = a[s] + b[s]
  OBVIOUS
<1>3. m \in Nat /\ x \in Nat /\ x < m
  BY <1>2, LimitAssumption
<1>4. (x + 0) % m = x
  BY ONLY <1>3
<1>5. LaneAdd(a, b)[s] = (a[s] + b[s] + 0) % CounterLimit
  BY Zenon, <1>1 DEF LaneAdd, Counter32
<1> QED BY Zenon, <1>2, <1>4, <1>5

-----------------------------------------------------------------------------
(* The functions and the symbols they count.                               *)

Size(fn) == IF fn \in Dividers THEN 2 * Divider(fn).half ELSE IF fn = "vhist16" THEN 16 ELSE 32

\* How many functions may run at once, this one the innermost but for its own.
Rank(fn) == CASE fn \in Counters -> 1
              [] fn \in Symbols64 -> 2
              [] fn \in {"vhist128", "vhist128t"} -> 3
              [] OTHER -> 4

\* The bytes that a function for 2 * half symbols tells apart as t.
LEMMA Halves ==
    ASSUME NEW fn \in Dividers
    PROVE  /\ Divider(fn).half \in {32, 64, 128} /\ Size(fn) = 2 * Divider(fn).half
           /\ Divider(fn).upper \in SUBSET Bytes
           /\ Divider(fn).callee \in {"__vhist32"} \union Dividers
           /\ Size(Divider(fn).callee) = Divider(fn).half
           /\ Rank(fn) = Rank(Divider(fn).callee) + 1
<1>1. PICK m0, m1, m2, t5, t6 : /\ m0 = MovedMask(0) /\ m1 = MovedMask(1) /\ m2 = MovedMask(2)
                                /\ t5 = Tested(5) /\ t6 = Tested(6)
  BY Zenon
<1>2. /\ m0 \in SUBSET Bytes /\ m1 \in SUBSET Bytes /\ m2 \in SUBSET Bytes
      /\ t5 \in SUBSET Bytes /\ t6 \in SUBSET Bytes
  BY Zenon, <1>1 DEF MovedMask, Tested
<1>3. /\ Divider("vhist64") = [callee |-> "__vhist32", half |-> 32, upper |-> m2]
      /\ Divider("vhist64t") = [callee |-> "__vhist32", half |-> 32, upper |-> t5]
      /\ Divider("vhist128") = [callee |-> "vhist64", half |-> 64, upper |-> m1]
      /\ Divider("vhist128t") = [callee |-> "vhist64", half |-> 64, upper |-> t6]
      /\ Divider("vhist256") = [callee |-> "vhist128", half |-> 128, upper |-> m0]
  BY <1>1 DEF Divider, Vhist64, Vhist64t, Vhist128, Vhist128t, Vhist256
<1>4. /\ Divider(fn).half \in {32, 64, 128}
      /\ Divider(fn).upper \in SUBSET Bytes
      /\ Divider(fn).callee \in {"__vhist32"} \union Dividers
  BY <1>2, <1>3 DEF Dividers
<1>5. Size(fn) = 2 * Divider(fn).half
  BY Zenon DEF Size
<1>6. Size("__vhist32") = 32
  BY DEF Size, Dividers
<1>7. Size("vhist64") = 64 /\ Size("vhist128") = 128
  BY <1>3 DEF Size, Dividers
<1>8. Size(Divider(fn).callee) = Divider(fn).half
  BY <1>3, <1>6, <1>7 DEF Dividers
<1>9. /\ Rank("__vhist32") = 1 /\ Rank("vhist64") = 2 /\ Rank("vhist64t") = 2
      /\ Rank("vhist128") = 3 /\ Rank("vhist128t") = 3 /\ Rank("vhist256") = 4
  BY DEF Rank, Counters, Symbols64
<1>10. Rank(fn) = Rank(Divider(fn).callee) + 1
  BY <1>3, <1>9 DEF Dividers
<1> QED BY Zenon, <1>4, <1>5, <1>8, <1>10

LEMMA Ranks ==
    ASSUME NEW fn \in Counters \union Dividers
    PROVE  /\ Rank(fn) \in 1 .. 4 /\ Size(fn) \in {16, 32, 64, 128, 256}
           /\ fn \in Counters => fn \notin Dividers
<1>1. Rank(fn) \in 1 .. 4
  BY DEF Rank, Counters, Symbols64, Dividers
<1>2. fn \in Dividers => Size(fn) \in {64, 128, 256}
  BY Halves
<1>3. fn \notin Dividers => Size(fn) \in {16, 32}
  BY DEF Size
<1>4. fn \in Counters => fn \notin Dividers
  BY DEF Counters, Dividers
<1> QED BY <1>1, <1>2, <1>3, <1>4

HalfClasses(fn, t, A, B) ==
    LET d == Divider(fn)
    IN  /\ A = (Bytes \ d.upper) \intersect Class(d.half, t)
        /\ B = d.upper \intersect Class(d.half, t - d.half)

LEMMA ClassSplit ==
    ASSUME NEW fn \in Dividers, NEW t \in Int, NEW A, NEW B, HalfClasses(fn, t, A, B)
    PROVE  Class(Size(fn), t) = A \union B /\ A \intersect B = {}
<1>0. PICK half, upper : /\ half = Divider(fn).half /\ upper = Divider(fn).upper
                         /\ A = (Bytes \ upper) \intersect Class(half, t)
                         /\ B = upper \intersect Class(half, t - half)
  BY Zenon DEF HalfClasses
<1>1. half \in Int /\ half > 0 /\ Size(fn) = 2 * half /\ upper \in SUBSET Bytes
  BY <1>0, Halves
<1>2. \A b \in Bytes : b \in Int
  BY DEF Bytes
<1>3. \A b \in Bytes : b % half \in Int
  BY <1>1, <1>2
<1>4. \A b \in Bytes : b % (2 * half) = (b % half) + IF b \in upper THEN half ELSE 0
  BY Zenon, <1>0, UpperAssumption
<1>5. \A b \in Bytes : b % Size(fn) = t <=> IF b \in upper THEN b % half = t - half ELSE b % half = t
  BY <1>1, <1>3, <1>4
<1> QED BY Zenon, <1>0, <1>1, <1>5 DEF Class

LEMMA ClassZero ==
    ASSUME NEW m \in {16, 32, 64, 128, 256}, NEW t \in Int
    PROVE  /\ 0 \in Bytes /\ (0 \in Class(m, t) <=> t = 0)
           /\ t \notin 0 .. m - 1 => Class(m, t) = {}
<1>1. 0 \in Bytes /\ \A b \in Bytes : b \in Int
  BY DEF Bytes
<1>2. 0 % m = 0 /\ \A b \in Int : b % m \in 0 .. m - 1
  OBVIOUS
<1>3. 0 \in Class(m, t) <=> t = 0
  BY Zenon, <1>1, <1>2 DEF Class
<1>4. ASSUME t \notin 0 .. m - 1 PROVE Class(m, t) = {}
  BY Zenon, <1>1, <1>2, <1>4 DEF Class
<1> QED BY <1>1, <1>3, <1>4

-----------------------------------------------------------------------------
(* Reading a message, a vector at a time.                                  *)

\* What remains to be read, without what is to be subtracted in the end.
Ahead(fn, src, at, padding, t) ==
    Occurs(src, at, Len(src), Class(Size(fn), t)) - IF t = 0 THEN padding ELSE 0

LEMMA AheadType ==
    ASSUME NEW fn, NEW src \in Seq(Bytes), NEW at \in Nat, NEW padding \in Int, NEW t
    PROVE  /\ Ahead(fn, src, at, padding, t) \in Int
           /\ at >= Len(src) =>
                Ahead(fn, src, at, padding, t) = 0 - IF t = 0 THEN padding ELSE 0
<1>1. Len(src) \in Nat
  BY LenProperties
<1>2. PICK V, n, p : V = Class(Size(fn), t) /\ n = Len(src) /\ p = IF t = 0 THEN padding ELSE 0
  BY Zenon
<1>3. at \in Int /\ n \in Int /\ p \in Int
  BY <1>1, <1>2
<1>4. PICK o : o = Occurs(src, at, n, V)
  BY Zenon
<1>5. o \in Nat /\ (at >= n => o = 0)
  BY <1>3, <1>4, OccursType
<1>6. Ahead(fn, src, at, padding, t) = o - p
  BY Zenon, <1>2, <1>4 DEF Ahead
<1>7. o - p \in Int /\ (at >= n => o - p = 0 - p)
  BY <1>3, <1>5
<1> QED BY Zenon, <1>2, <1>6, <1>7

\* At most a short padding is to be subtracted.
LEMMA AheadBound ==
    ASSUME NEW fn, NEW src \in Seq(Bytes), NEW at \in Nat, NEW padding \in 0 .. 63, NEW t
    PROVE  Ahead(fn, src, at, padding, t) + 63 >= 0
<1>1. Len(src) \in Nat
  BY LenProperties
<1>2. PICK o, p : o = Occurs(src, at, Len(src), Class(Size(fn), t)) /\ p = IF t = 0 THEN padding ELSE 0
  BY Zenon
<1>3. o \in Nat
  BY <1>1, <1>2, OccursType
<1>4. p \in 0 .. 63
  BY <1>2
<1>5. Ahead(fn, src, at, padding, t) = o - p
  BY Zenon, <1>2 DEF Ahead
<1> QED BY ONLY <1>3, <1>4, <1>5

\* raw is the whole vector at at.
Whole(src, at, padding, raw) ==
    /\ src \in Seq(Bytes) /\ at \in Nat /\ padding \in Int
    /\ at + 64 <= Len(src) /\ raw = SubSeq(src, at + 1, at + 64)

LEMMA WholeVector ==
    ASSUME NEW fn, NEW src, NEW at, NEW padding, NEW t, NEW raw, Whole(src, at, padding, raw)
    PROVE  /\ raw \in Seq(Bytes) /\ Len(raw) = 64 /\ Occ(raw, Class(Size(fn), t)) \in Nat
           /\ Ahead(fn, src, at, padding, t)
                = Occ(raw, Class(Size(fn), t)) + Ahead(fn, src, at + 64, padding, t)
<1>0. /\ src \in Seq(Bytes) /\ at \in Nat /\ padding \in Int
      /\ at + 64 <= Len(src) /\ raw = SubSeq(src, at + 1, at + 64)
  BY Zenon DEF Whole
<1> USE <1>0
<1>1. Len(src) \in Nat
  BY LenProperties
<1>2. PICK V, n, p : V = Class(Size(fn), t) /\ n = Len(src) /\ p = IF t = 0 THEN padding ELSE 0
  BY Zenon
<1>3. at \in Int /\ at + 64 \in Int /\ n \in Int /\ p \in Int /\ at <= at + 64 /\ at + 64 <= n
      /\ at + 64 \in Nat /\ (at + 64) - at = 64
  BY <1>1, <1>2
<1>4. raw \in Seq(Bytes) /\ Len(raw) = 64 /\ Occ(raw, V) = Occurs(src, at, at + 64, V)
  <2>1. /\ SubSeq(src, at + 1, at + 64) \in Seq(Bytes)
        /\ Len(SubSeq(src, at + 1, at + 64)) = (at + 64) - at
        /\ Occ(SubSeq(src, at + 1, at + 64), V) = Occurs(src, at, at + 64, V)
    BY <1>2, <1>3, OccSubSeq
  <2> QED BY Zenon, <1>3, <2>1
<1>5. PICK o, o1, o2 : o = Occurs(src, at, n, V) /\ o1 = Occurs(src, at, at + 64, V)
                       /\ o2 = Occurs(src, at + 64, n, V)
  BY Zenon
<1>6. o = o1 + o2 /\ o1 \in Nat /\ o2 \in Nat
  <2>1. Occurs(src, at, n, V) = Occurs(src, at, at + 64, V) + Occurs(src, at + 64, n, V)
    BY <1>3, OccursSplit
  <2>2. o1 \in Nat /\ o2 \in Nat
    BY <1>3, <1>5, OccursType
  <2> QED BY Zenon, <1>5, <2>1, <2>2
<1>7. /\ Ahead(fn, src, at, padding, t) = o - p /\ Ahead(fn, src, at + 64, padding, t) = o2 - p
      /\ Occ(raw, Class(Size(fn), t)) = o1
  BY Zenon, <1>2, <1>4, <1>5 DEF Ahead
<1>8. o - p = o1 + (o2 - p)
  BY <1>3, <1>6
<1> QED BY Zenon, <1>4, <1>6, <1>7, <1>8

\* The zeros behind the last bytes are what is subtracted later.
Padded(fn, src, at, raw, more, to) ==
    /\ fn \in Counters \union Dividers /\ src \in Seq(Bytes) /\ at \in Nat /\ to \in Nat
    /\ at <= Len(src) /\ more = 64 - (Len(src) - at) /\ more \in Nat /\ to >= Len(src)
    /\ raw = SubSeq(src, at + 1, Len(src)) \o Zeros(more)

LEMMA PaddedVector ==
    ASSUME NEW fn, NEW src, NEW at, NEW t \in Int, NEW raw, NEW more, NEW to,
           Padded(fn, src, at, raw, more, to)
    PROVE  /\ raw \in Seq(Bytes) /\ Len(raw) = 64 /\ Occ(raw, Class(Size(fn), t)) \in Nat
           /\ Ahead(fn, src, at, 0, t)
                = Occ(raw, Class(Size(fn), t)) + Ahead(fn, src, to, more, t)
<1>0. /\ fn \in Counters \union Dividers /\ src \in Seq(Bytes) /\ at \in Nat /\ to \in Nat
      /\ at <= Len(src) /\ more = 64 - (Len(src) - at) /\ more \in Nat /\ to >= Len(src)
      /\ raw = SubSeq(src, at + 1, Len(src)) \o Zeros(more)
  BY Zenon DEF Padded
<1> USE <1>0
<1>1. Len(src) \in Nat
  BY LenProperties
<1>2. PICK V, n, p, u, z : /\ V = Class(Size(fn), t) /\ n = Len(src)
                           /\ p = (IF t = 0 THEN more ELSE 0)
                           /\ u = SubSeq(src, at + 1, n) /\ z = Zeros(more)
  BY Zenon
<1>3. n \in Nat /\ at <= n /\ n <= n /\ p \in Int /\ more = 64 - (n - at) /\ at \in Int /\ to \in Int
      /\ to >= n
  BY <1>1, <1>2
<1>4. 0 \in Bytes /\ (0 \in V <=> t = 0)
  <2>1. Size(fn) \in {16, 32, 64, 128, 256}
    BY Ranks
  <2> QED BY <1>2, <2>1, ClassZero
<1>5. u \in Seq(Bytes) /\ Len(u) = n - at /\ Occ(u, V) = Occurs(src, at, n, V)
  <2>1. n <= Len(src)
    BY <1>2, <1>3
  <2> QED BY <1>2, <1>3, <2>1, OccSubSeq
<1>6. z \in Seq(Bytes) /\ Len(z) = more /\ Occ(z, V) = p
  <2>1. /\ Zeros(more) \in Seq(Bytes) /\ Len(Zeros(more)) = more
        /\ Occ(Zeros(more), V) = IF 0 \in V THEN more ELSE 0
    BY <1>4, OccZeros
  <2> QED BY Zenon, <1>2, <1>4, <2>1
<1>7. raw = u \o z
  BY Zenon, <1>2
<1>8. raw \in Seq(Bytes) /\ Len(raw) = (n - at) + more /\ Occ(raw, V) = Occ(u, V) + Occ(z, V)
  <2>1. /\ u \o z \in Seq(Bytes) /\ Len(u \o z) = Len(u) + Len(z)
        /\ Occ(u \o z, V) = Occ(u, V) + Occ(z, V)
    BY ONLY <1>5, <1>6, ConcatProperties, OccConcat
  <2> QED BY Zenon, <1>5, <1>6, <1>7, <2>1
<1>9. Len(raw) = 64
  <2>1. (n - at) + more = 64
    BY ONLY <1>3
  <2> QED BY Zenon, <1>8, <2>1
<1>10. PICK o : o = Occurs(src, at, n, V)
  BY Zenon
<1>11. o \in Nat /\ p \in Nat
  BY <1>2, <1>3, <1>10, OccursType
<1>12. Occ(raw, V) = o + p
  BY Zenon, <1>5, <1>6, <1>8, <1>10
<1>13. Ahead(fn, src, at, 0, t) = o - 0
  <2>1. Ahead(fn, src, at, 0, t) = o - IF t = 0 THEN 0 ELSE 0
    BY Zenon, <1>2, <1>10 DEF Ahead
  <2> QED BY <2>1
<1>14. Ahead(fn, src, to, more, t) = 0 - p
  <2>1. Ahead(fn, src, to, more, t) = 0 - IF t = 0 THEN more ELSE 0
    BY <1>2, <1>3, AheadType
  <2> QED BY Zenon, <1>2, <2>1
<1>15. o - 0 = (o + p) + (0 - p) /\ o + p \in Nat
  BY <1>11
<1> QED BY Zenon, <1>2, <1>8, <1>9, <1>12, <1>13, <1>14, <1>15

-----------------------------------------------------------------------------
(* Frames, and what the function of a frame will have counted.             *)

Short == 0 .. 63
BitWords == SUBSET Int
Vectors == {64 * q : q \in Nat}
CounterPlaces(fn) == 0 .. IF fn = "vhist16" THEN 15 ELSE 31
Arrays == UNION {[CounterPlaces(fn) -> Nat] : fn \in Counters}

CountFrames ==
    [fn : Counters, src : Seq(Bytes), base : Nat, at : Nat, padding : Short,
     acc : Arrays, b0 : BitWords, b1 : BitWords]
DivideFrames ==
    [fn : Dividers, src : Seq(Bytes), base : Nat, at : Nat, padding : Short,
     left : Short, fake_end : Nat, buf0 : Seq(Bytes), buf1 : Seq(Bytes),
     phase : {"outer", "inner", "upper"}]

CountOK(f) ==
    /\ f \in CountFrames /\ f.acc \in [CounterPlaces(f.fn) -> Nat]
    /\ f.at <= Len(f.src) /\ (f.at < Len(f.src) => f.padding = 0)
    /\ f.base + Size(f.fn) <= 256

DivideOK(f) ==
    /\ f \in DivideFrames
    /\ f.at \in Vectors /\ f.fake_end \in Vectors /\ f.fake_end <= End(f)
    /\ \/ f.left = Len(f.src) % 64 /\ f.at <= End(f) /\ f.padding = 0
       \/ f.left = 0 /\ f.at >= Len(f.src)
    /\ f.phase = "outer" => f.buf0 = << >> /\ f.buf1 = << >>
    /\ f.phase = "upper" => f.buf0 = << >>
    /\ f.phase = "inner" /\ f.at < f.fake_end =>
         /\ Len(f.buf0) + (f.fake_end - f.at) <= Chunk
         /\ Len(f.buf1) + (f.fake_end - f.at) <= Chunk
    /\ f.base + Size(f.fn) <= 256

\* What the words, and what the buffers hold of symbol t.
Held16(acc, b0, t) == IF t \in 0 .. 15 THEN 2 * acc[t] + Ones16(b0, t) ELSE 0
Held32(acc, b0, b1, t) ==
    IF t \in 0 .. 31 THEN 4 * acc[t] + 2 * Ones32(b1, t) + Ones32(b0, t) ELSE 0
Buffered(half, buf0, buf1, t) == Occ(buf0, Class(half, t)) + Occ(buf1, Class(half, t - half))

Held(f, t) ==
    IF f.fn \in Dividers THEN Buffered(Divider(f.fn).half, f.buf0, f.buf1, t)
    ELSE IF f.fn = "vhist16" THEN Held16(f.acc, f.b0, t)
    ELSE Held32(f.acc, f.b0, f.b1, t)

Work(f, t) == Ahead(f.fn, f.src, f.at, f.padding, t) + Held(f, t)

LEMMA BufferedType ==
    ASSUME NEW half, NEW buf0 \in Seq(Bytes), NEW buf1 \in Seq(Bytes), NEW t
    PROVE  Buffered(half, buf0, buf1, t) \in Nat
<1>1. Occ(buf0, Class(half, t)) \in Nat /\ Occ(buf1, Class(half, t - half)) \in Nat
  BY OccType
<1> QED BY <1>1 DEF Buffered

\* The one bits of a place are finitely many.
LEMMA PlacesFinite ==
    /\ \A s \in 0 .. 15 : IsFiniteSet(Sources16[s])
    /\ \A s \in 0 .. 31 : IsFiniteSet(Sources32[s])
<1>1. \A n \in Nat, c, s \in Int : IsFiniteSet({c * w + s : w \in 0 .. n})
  <2> SUFFICES ASSUME NEW n \in Nat, NEW c \in Int, NEW s \in Int
               PROVE  IsFiniteSet({c * w + s : w \in 0 .. n})
    OBVIOUS
  <2> DEFINE T == {c * w + s : w \in 0 .. n}
             f == [w \in 0 .. n |-> c * w + s]
  <2>1. IsFiniteSet(0 .. n)
    BY FS_Interval
  <2>2. f \in Surjection(0 .. n, T)
    BY DEF Surjection
  <2> HIDE DEF T, f
  <2>3. IsFiniteSet(T)
    BY <2>1, <2>2, FS_Surjection
  <2> QED BY <2>3 DEF T
<1>3. ASSUME NEW s \in 0 .. 15 PROVE IsFiniteSet(Sources16[s])
  <2>1. PICK n, c : n = 64 \div 2 - 1 /\ c = 8 * 2
    BY Zenon
  <2>2. Sources16[s] = {c * w + s : w \in 0 .. n}
    BY Zenon, <2>1, SourcesAssumption
  <2>3. n \in Nat /\ c \in Int /\ s \in Int
    BY <2>1
  <2> QED BY Zenon, <1>1, <2>2, <2>3
<1>4. ASSUME NEW s \in 0 .. 31 PROVE IsFiniteSet(Sources32[s])
  <2>1. PICK n, c : n = 64 \div 4 - 1 /\ c = 8 * 4
    BY Zenon
  <2>2. Sources32[s] = {c * w + s : w \in 0 .. n}
    BY Zenon, <2>1, SourcesAssumption
  <2>3. n \in Nat /\ c \in Int /\ s \in Int
    BY <2>1
  <2> QED BY Zenon, <1>1, <2>2, <2>3
<1> QED BY <1>3, <1>4

LEMMA PopcntType ==
    ASSUME NEW v
    PROVE  /\ \A s \in 0 .. 15 : Ones16(v, s) \in Nat
           /\ \A s \in 0 .. 31 : Ones32(v, s) \in Nat
<1>1. \A S : IsFiniteSet(S) => Cardinality(v \intersect S) \in Nat
  BY FS_Subset, FS_CardinalityType
<1>2. \A s \in 0 .. 15 : Ones16(v, s) = Cardinality(v \intersect Sources16[s])
  BY Zenon DEF Popcnt16, Ones16
<1>3. \A s \in 0 .. 31 : Ones32(v, s) = Cardinality(v \intersect Sources32[s])
  BY Zenon DEF Popcnt32, Ones32
<1> QED BY Zenon, <1>1, <1>2, <1>3, PlacesFinite

LEMMA PopcntArray ==
    ASSUME NEW v
    PROVE  Popcnt32(v) \in [Counter32 -> Nat]
<1>1. \A s \in Counter32 : Popcnt32(v)[s] \in Nat
  BY Zenon, PopcntType DEF Ones32, Counter32
<1> QED BY Zenon, <1>1 DEF Popcnt32, Counter32

LEMMA PopcntEmpty ==
    /\ \A s \in 0 .. 15 : Ones16({}, s) = 0
    /\ \A s \in 0 .. 31 : Ones32({}, s) = 0
<1>1. \A S : Cardinality({} \intersect S) = 0
  <2>1. \A S : {} \intersect S = {}
    OBVIOUS
  <2> QED BY Zenon, <2>1, FS_EmptySet
<1> QED BY Zenon, <1>1 DEF Popcnt16, Popcnt32, Ones16, Ones32

LEMMA ShortNumbers == \A x \in Short : x \in Nat /\ x < 64
BY DEF Short

LEMMA CountFields ==
    ASSUME NEW f, CountOK(f)
    PROVE  /\ f.fn \in Counters /\ f.fn \notin Dividers /\ f.fn \in Counters \union Dividers
           /\ f.src \in Seq(Bytes) /\ Len(f.src) \in Nat /\ f.base \in Nat /\ f.at \in Nat
           /\ f.padding \in Short /\ f.padding \in Nat
           /\ f.b0 \in BitWords /\ f.b1 \in BitWords
           /\ f.acc \in [CounterPlaces(f.fn) -> Nat]
           /\ f.at <= Len(f.src) /\ (f.at < Len(f.src) => f.padding = 0)
           /\ f.base + Size(f.fn) <= 256
<1>1. /\ f.fn \in Counters /\ f.src \in Seq(Bytes) /\ f.base \in Nat /\ f.at \in Nat
      /\ f.padding \in Short /\ f.b0 \in BitWords /\ f.b1 \in BitWords
  BY DEF CountOK, CountFrames
<1>2. f.fn \notin Dividers /\ f.fn \in Counters \union Dividers
  BY <1>1, Ranks
<1>3. Len(f.src) \in Nat
  BY <1>1, LenProperties
<1>4. f.padding \in Nat
  BY <1>1, ShortNumbers
<1> QED BY <1>1, <1>2, <1>3, <1>4 DEF CountOK

LEMMA DivideFields ==
    ASSUME NEW f, DivideOK(f)
    PROVE  /\ f.fn \in Dividers /\ f.fn \notin Counters
           /\ f.src \in Seq(Bytes) /\ Len(f.src) \in Nat /\ f.base \in Nat /\ f.at \in Nat
           /\ f.padding \in Short /\ f.padding \in Nat /\ f.left \in Short /\ f.left \in Nat
           /\ f.left < 64 /\ f.fake_end \in Nat
           /\ f.buf0 \in Seq(Bytes) /\ f.buf1 \in Seq(Bytes)
           /\ Len(f.buf0) \in Nat /\ Len(f.buf1) \in Nat
           /\ f.phase \in {"outer", "inner", "upper"}
<1>1. /\ f.fn \in Dividers /\ f.src \in Seq(Bytes) /\ f.base \in Nat /\ f.at \in Nat
      /\ f.padding \in Short /\ f.left \in Short /\ f.fake_end \in Nat
      /\ f.buf0 \in Seq(Bytes) /\ f.buf1 \in Seq(Bytes)
      /\ f.phase \in {"outer", "inner", "upper"}
  BY DEF DivideOK, DivideFrames
<1>2. f.fn \notin Counters
  BY <1>1 DEF Counters, Dividers
<1>3. Len(f.src) \in Nat /\ Len(f.buf0) \in Nat /\ Len(f.buf1) \in Nat
  BY <1>1, LenProperties
<1>4. f.padding \in Nat /\ f.left \in Nat /\ f.left < 64
  BY <1>1, ShortNumbers
<1> QED BY <1>1, <1>2, <1>3, <1>4

OK(f) == CountOK(f) \/ DivideOK(f)

\* No counter of f will overflow, whatever is padded.
Light(f) == f.fn # "vhist16" => \A t \in Counter32 : Work(f, t) + 63 < CounterLimit

\* g is f after a step of its function, the same work being left.
Follows(f, g) ==
    /\ OK(g) /\ g.fn = f.fn /\ g.base = f.base
    /\ Light(f) => \A t \in Int : Work(g, t) = Work(f, t)

LEMMA HeldType ==
    ASSUME NEW f, OK(f), NEW t \in Int
    PROVE  Held(f, t) \in Nat
<1>1. CASE DivideOK(f)
  <2>1. f.fn \in Dividers /\ f.buf0 \in Seq(Bytes) /\ f.buf1 \in Seq(Bytes)
    BY <1>1, DivideFields
  <2>2. Held(f, t) = Buffered(Divider(f.fn).half, f.buf0, f.buf1, t)
    BY Zenon, <2>1 DEF Held
  <2> QED BY <2>1, <2>2, BufferedType
<1>2. CASE CountOK(f)
  <2>1. f.fn \in Counters /\ f.fn \notin Dividers /\ f.acc \in [CounterPlaces(f.fn) -> Nat]
    BY <1>2, CountFields
  <2>2. CASE f.fn = "vhist16"
    <3>1. f.acc \in [0 .. 15 -> Nat]
      BY <2>1, <2>2 DEF CounterPlaces
    <3>2. Held16(f.acc, f.b0, t) \in Nat
      BY <3>1, PopcntType DEF Held16
    <3> QED BY Zenon, <2>1, <2>2, <3>2 DEF Held
  <2>3. CASE f.fn # "vhist16"
    <3>1. f.acc \in [0 .. 31 -> Nat]
      BY <2>1, <2>3 DEF CounterPlaces
    <3>2. Held32(f.acc, f.b0, f.b1, t) \in Nat
      BY <3>1, PopcntType DEF Held32
    <3> QED BY Zenon, <2>1, <2>3, <3>2 DEF Held
  <2> QED BY <2>2, <2>3
<1> QED BY <1>1, <1>2 DEF OK

LEMMA WorkType ==
    ASSUME NEW f, OK(f), NEW t \in Int
    PROVE  /\ Work(f, t) \in Int
           /\ f.at >= Len(f.src) =>
                Work(f, t) = Held(f, t) - IF t = 0 THEN f.padding ELSE 0
<1>1. f.src \in Seq(Bytes) /\ f.at \in Nat /\ f.padding \in Int
  BY CountFields, DivideFields DEF OK
<1>2. /\ Ahead(f.fn, f.src, f.at, f.padding, t) \in Int
      /\ f.at >= Len(f.src) =>
           Ahead(f.fn, f.src, f.at, f.padding, t) = 0 - IF t = 0 THEN f.padding ELSE 0
  BY <1>1, AheadType
<1>3. Held(f, t) \in Nat
  BY HeldType
<1>4. PICK a, h, p : /\ a = Ahead(f.fn, f.src, f.at, f.padding, t) /\ h = Held(f, t)
                     /\ p = IF t = 0 THEN f.padding ELSE 0
  BY Zenon
<1>5. a \in Int /\ h \in Nat /\ p \in Int /\ (f.at >= Len(f.src) => a = 0 - p)
  BY <1>1, <1>2, <1>3, <1>4
<1>6. a + h \in Int /\ (f.at >= Len(f.src) => a + h = h - p)
  BY <1>5
<1>7. Work(f, t) = a + h
  BY Zenon, <1>4 DEF Work
<1> QED BY Zenon, <1>4, <1>6, <1>7

LEMMA WorkBound ==
    ASSUME NEW f, OK(f), NEW t \in Int
    PROVE  Work(f, t) + 63 >= Held(f, t) /\ Work(f, t) + 63 >= 0
<1>1. f.src \in Seq(Bytes) /\ f.at \in Nat /\ f.padding \in 0 .. 63
  BY CountFields, DivideFields DEF OK, Short
<1>2. PICK a, h : a = Ahead(f.fn, f.src, f.at, f.padding, t) /\ h = Held(f, t)
  BY Zenon
<1>3. a \in Int /\ a + 63 >= 0
  <2>0. \A x \in 0 .. 63 : x \in Int
    OBVIOUS
  <2>1. f.padding \in Int
    BY Zenon, <1>1, <2>0
  <2>2. Ahead(f.fn, f.src, f.at, f.padding, t) \in Int
    BY ONLY <1>1, <2>1, AheadType
  <2>3. Ahead(f.fn, f.src, f.at, f.padding, t) + 63 >= 0
    BY ONLY <1>1, AheadBound
  <2> QED BY Zenon, <1>2, <2>2, <2>3
<1>4. h \in Nat
  BY <1>2, HeldType
<1>5. Work(f, t) = a + h
  BY Zenon, <1>2 DEF Work
<1>6. (a + h) + 63 >= h /\ (a + h) + 63 >= 0
  BY ONLY <1>3, <1>4
<1> QED BY Zenon, <1>2, <1>5, <1>6

\* f has read a vector and stands at to.
Reads(f, raw, to, padding) ==
    /\ to \in Nat /\ padding \in Short /\ raw \in Seq(Bytes) /\ Len(raw) = 64
    /\ \A t \in Int :
         /\ Occ(raw, Class(Size(f.fn), t)) \in Nat
         /\ Ahead(f.fn, f.src, f.at, f.padding, t)
              = Occ(raw, Class(Size(f.fn), t)) + Ahead(f.fn, f.src, to, padding, t)

CountFrame(f, to, padding, acc, b0, b1) ==
    [fn |-> f.fn, src |-> f.src, base |-> f.base, at |-> to, padding |-> padding,
     acc |-> acc, b0 |-> b0, b1 |-> b1]

LEMMA CountFrameFields ==
    ASSUME NEW f, NEW to, NEW padding, NEW acc, NEW b0, NEW b1, NEW g,
           g = CountFrame(f, to, padding, acc, b0, b1)
    PROVE  /\ g.fn = f.fn /\ g.src = f.src /\ g.base = f.base /\ g.at = to
           /\ g.padding = padding /\ g.acc = acc /\ g.b0 = b0 /\ g.b1 = b1
BY DEF CountFrame

LEMMA CountFrameOK ==
    ASSUME NEW f, CountOK(f), NEW to \in Nat, NEW padding \in Short,
           NEW acc \in [CounterPlaces(f.fn) -> Nat], NEW b0 \in BitWords, NEW b1 \in BitWords,
           to <= Len(f.src), to < Len(f.src) => padding = 0
    PROVE  CountOK(CountFrame(f, to, padding, acc, b0, b1))
<1>1. PICK g : g = CountFrame(f, to, padding, acc, b0, b1)
  BY Zenon
<1>2. /\ g.fn = f.fn /\ g.src = f.src /\ g.base = f.base /\ g.at = to
      /\ g.padding = padding /\ g.acc = acc /\ g.b0 = b0 /\ g.b1 = b1
  BY <1>1, CountFrameFields
<1>3. f.fn \in Counters /\ f.src \in Seq(Bytes) /\ f.base \in Nat /\ f.base + Size(f.fn) <= 256
  BY CountFields
<1>4. acc \in Arrays
  BY Zenon, <1>3 DEF Arrays
<1>5. g \in CountFrames
  <2> HIDE DEF Short, Arrays, Counters
  <2> QED BY ONLY <1>1, <1>3, <1>4, to \in Nat, padding \in Short, b0 \in BitWords, b1 \in BitWords
      DEF CountFrame, CountFrames
<1>6. CountOK(g)
  BY <1>2, <1>3, <1>5 DEF CountOK
<1> QED BY Zenon, <1>1, <1>6

LEMMA CountFollows ==
    ASSUME NEW f, CountOK(f), NEW raw, NEW to, NEW padding, Reads(f, raw, to, padding),
           to <= Len(f.src), to < Len(f.src) => padding = 0,
           NEW acc \in [CounterPlaces(f.fn) -> Nat], NEW b0 \in BitWords, NEW b1 \in BitWords,
           NEW g, g = CountFrame(f, to, padding, acc, b0, b1),
           Light(f) => \A t \in Int : Held(g, t) = Held(f, t) + Occ(raw, Class(Size(f.fn), t))
    PROVE  Follows(f, g) /\ CountOK(g)
<1>1. to \in Nat /\ padding \in Short /\ padding \in Int
  BY ShortNumbers DEF Reads
<1>2. CountOK(g)
  BY <1>1, CountFrameOK
<1>3. g.fn = f.fn /\ g.src = f.src /\ g.base = f.base /\ g.at = to /\ g.padding = padding
  BY CountFrameFields
<1>4. ASSUME Light(f), NEW t \in Int PROVE Work(g, t) = Work(f, t)
  <2>1. PICK x, y, o, h, k : /\ x = Ahead(f.fn, f.src, f.at, f.padding, t)
                             /\ y = Ahead(f.fn, f.src, to, padding, t)
                             /\ o = Occ(raw, Class(Size(f.fn), t))
                             /\ h = Held(f, t) /\ k = Held(g, t)
    BY Zenon
  <2>2. x = o + y /\ o \in Nat
    BY Zenon, <2>1 DEF Reads
  <2>3. y \in Int
    BY <1>1, <2>1, AheadType, CountFields
  <2>4. h \in Nat /\ k \in Nat
    BY <1>2, <2>1, HeldType DEF OK
  <2>5. k = h + o
    BY Zenon, <1>4, <2>1
  <2>6. Work(f, t) = x + h /\ Work(g, t) = y + k
    BY Zenon, <1>3, <2>1 DEF Work
  <2>7. y + k = x + h
    BY ONLY <2>2, <2>3, <2>4, <2>5
  <2> QED BY Zenon, <2>6, <2>7
<1> QED BY <1>2, <1>3, <1>4 DEF Follows, OK

\* The words that an addition makes.
LEMMA WordTypes ==
    /\ \A h, l, x \in BitWords : FALow(h, l, x) \in BitWords /\ FAHigh(h, l, x) \in BitWords
    /\ \A raw \in Seq(Bytes), width \in {2, 4}, j \in Int :
         Len(raw) = 64 /\ 0 <= j /\ j < width => OneBits(raw, width, j) \in BitWords
<1>1. ASSUME NEW h \in BitWords, NEW l \in BitWords, NEW x \in BitWords
      PROVE  FALow(h, l, x) \in BitWords /\ FAHigh(h, l, x) \in BitWords
  <2>1. \A u, a, b, c : Ternary(u, a, b, c) \subseteq a \union b \union c
    BY DEF Ternary
  <2>2. l \union h \union x \in BitWords /\ h \union l \union x \in BitWords
    BY Zenon DEF BitWords
  <2>3. /\ FALow(h, l, x) \subseteq l \union h \union x
        /\ FAHigh(h, l, x) \subseteq h \union l \union x
    BY <2>1 DEF FALow, FAHigh
  <2> QED BY Zenon, <2>2, <2>3 DEF BitWords
<1>2. ASSUME NEW raw \in Seq(Bytes), NEW width \in {2, 4}, NEW j \in Int,
             Len(raw) = 64, 0 <= j, j < width
      PROVE  OneBits(raw, width, j) \in BitWords
  <2>1. PICK n, m, c : n = 64 \div width - 1 /\ m = 8 * width /\ c = m
    BY Zenon
  <2>2. n \in Nat /\ m \in Nat /\ m > 0 /\ \A w \in 0 .. n : w \in Int /\ width * w + j + 1 \in 1 .. 64
    BY <1>2, <2>1
  <2>3. \A i \in 1 .. 64 : raw[i] \in Int
    <3>1. \A i \in 1 .. 64 : raw[i] \in Bytes
      BY <1>2, ElementOfSeq
    <3>2. \A b \in Bytes : b \in Int
      BY DEF Bytes
    <3> QED BY Zenon, <3>1, <3>2
  <2>4. \A w \in 0 .. n : m * w + (raw[width * w + j + 1] % m) \in Int
    <3> SUFFICES ASSUME NEW w \in 0 .. n PROVE m * w + (raw[width * w + j + 1] % m) \in Int
      OBVIOUS
    <3>1. PICK r : r = raw[width * w + j + 1]
      BY Zenon
    <3>2. r \in Int /\ w \in Int
      BY Zenon, <2>2, <2>3, <3>1
    <3>3. m * w + (r % m) \in Int
      BY ONLY <2>2, <3>2
    <3> QED BY Zenon, <3>1, <3>3
  <2>5. OneBits(raw, width, j) = {m * w + (raw[width * w + j + 1] % m) : w \in 0 .. n}
    BY Zenon, <2>1 DEF OneBits
  <2> QED BY <2>4, <2>5 DEF BitWords
<1> QED BY <1>1, <1>2

\* Nothing of a vector counts for a symbol that the function does not count.
LEMMA NoSymbol ==
    ASSUME NEW raw, NEW m \in {16, 32, 64, 128, 256}, NEW t \in Int, t \notin 0 .. m - 1
    PROVE  Occ(raw, Class(m, t)) = 0
<1>1. Class(m, t) = {}
  BY ClassZero
<1>2. Hits(raw, 0, Len(raw), {}) = {}
  BY Zenon DEF Hits
<1> QED BY Zenon, <1>1, <1>2, FS_EmptySet DEF Occ, Occurs

LEMMA SumsTypes ==
    /\ \A raw, sum, high : \A b \in BitWords :
         WordSums16(raw, b, sum, high) => sum \in BitWords
    /\ \A raw, sum1, high1, sum2, high2, sum3, high3 : \A b, c \in BitWords :
         WordSums32(raw, b, c, sum1, high1, sum2, high2, sum3, high3) =>
           sum2 \in BitWords /\ sum3 \in BitWords
<1>1. ASSUME NEW raw \in Seq(Bytes), NEW width \in {2, 4}, NEW j \in Int, NEW x,
             Len(raw) = 64, 0 <= j, j < width, x = OneBits(raw, width, j)
      PROVE  x \in BitWords
  <2>1. OneBits(raw, width, j) \in BitWords
    BY <1>1, WordTypes
  <2> QED BY Zenon, <1>1, <2>1
<1>2. ASSUME NEW raw, NEW sum, NEW high, NEW b \in BitWords, WordSums16(raw, b, sum, high)
      PROVE  sum \in BitWords
  <2>1. PICK x0, x1 : /\ x0 = OneBits(raw, 2, 0) /\ x1 = OneBits(raw, 2, 1)
                      /\ raw \in Seq(Bytes) /\ Len(raw) = 64 /\ sum = FALow(x1, b, x0)
    BY Zenon, <1>2 DEF WordSums16
  <2>2. x0 \in BitWords /\ x1 \in BitWords
    BY <1>1, <2>1
  <2> QED BY Zenon, <2>1, <2>2, WordTypes
<1>3. ASSUME NEW raw, NEW sum1, NEW high1, NEW sum2, NEW high2, NEW sum3, NEW high3,
             NEW b \in BitWords, NEW c \in BitWords,
             WordSums32(raw, b, c, sum1, high1, sum2, high2, sum3, high3)
      PROVE  sum2 \in BitWords /\ sum3 \in BitWords
  <2>1. PICK x0, x1, x2, x3 :
          /\ x0 = OneBits(raw, 4, 0) /\ x1 = OneBits(raw, 4, 1)
          /\ x2 = OneBits(raw, 4, 2) /\ x3 = OneBits(raw, 4, 3)
          /\ raw \in Seq(Bytes) /\ Len(raw) = 64
          /\ sum1 = FALow(x1, b, x0) /\ high1 = FAHigh(x1, sum1, x0)
          /\ sum2 = FALow(x3, sum1, x2) /\ high2 = FAHigh(x3, sum2, x2)
          /\ sum3 = FALow(high2, c, high1)
    BY Zenon, <1>3 DEF WordSums32
  <2>2. x0 \in BitWords /\ x1 \in BitWords
    BY <1>1, <2>1
  <2>3. x2 \in BitWords /\ x3 \in BitWords
    BY <1>1, <2>1
  <2>4. sum1 \in BitWords
    BY Zenon, <2>1, <2>2, WordTypes
  <2>5. high1 \in BitWords /\ sum2 \in BitWords
    BY Zenon, <2>1, <2>2, <2>3, <2>4, WordTypes
  <2>6. high2 \in BitWords
    BY Zenon, <2>1, <2>3, <2>5, WordTypes
  <2> QED BY Zenon, <2>1, <2>5, <2>6, WordTypes
<1> QED BY Zenon, <1>2, <1>3

Counts16(f, raw, to, padding, g) ==
    /\ CountOK(f) /\ f.fn = "vhist16" /\ Reads(f, raw, to, padding)
    /\ to <= Len(f.src) /\ (to < Len(f.src) => padding = 0)
    /\ \E sum, high, acc :
         /\ WordSums16(raw, f.b0, sum, high)
         /\ acc = [s \in 0 .. 15 |-> f.acc[s] + Popcnt16(high)[s]]
         /\ g = CountFrame(f, to, padding, acc, sum, f.b1)

LEMMA Step16 ==
    ASSUME NEW f, NEW raw, NEW to, NEW padding, NEW g, Counts16(f, raw, to, padding, g)
    PROVE  Follows(f, g) /\ CountOK(g)
<1>0. PICK sum, high, acc :
        /\ CountOK(f) /\ f.fn = "vhist16" /\ Reads(f, raw, to, padding)
        /\ to <= Len(f.src) /\ (to < Len(f.src) => padding = 0)
        /\ WordSums16(raw, f.b0, sum, high)
        /\ acc = [s \in 0 .. 15 |-> f.acc[s] + Popcnt16(high)[s]]
        /\ g = CountFrame(f, to, padding, acc, sum, f.b1)
  BY Zenon DEF Counts16
<1> USE <1>0
<1>1. raw \in Seq(Bytes) /\ Len(raw) = 64
  BY Zenon DEF Reads
<1>2. f.b0 \in BitWords /\ f.b1 \in BitWords /\ f.fn \notin Dividers
      /\ f.acc \in [0 .. 15 -> Nat] /\ CounterPlaces(f.fn) = 0 .. 15
  <2>1. CounterPlaces(f.fn) = 0 .. 15
    BY DEF CounterPlaces
  <2> QED BY Zenon, <2>1, CountFields
<1>3. sum \in BitWords
  BY Zenon, <1>2, SumsTypes
<1>5. acc \in [0 .. 15 -> Nat] /\ \A s \in 0 .. 15 : acc[s] = f.acc[s] + Ones16(high, s)
  <2>1. \A s \in 0 .. 15 : f.acc[s] \in Nat /\ Ones16(high, s) \in Nat
    BY Zenon, <1>2, PopcntType
  <2>2. PICK n, p : n = 0 .. 15 /\ p = Popcnt16(high)
    BY Zenon
  <2>3. acc = [s \in n |-> f.acc[s] + p[s]] /\ \A s \in n : f.acc[s] \in Nat /\ p[s] \in Nat
    BY Zenon, <2>1, <2>2 DEF Ones16
  <2>4. acc \in [n -> Nat] /\ \A s \in n : acc[s] = f.acc[s] + p[s]
    BY ONLY <2>3
  <2> QED BY Zenon, <2>2, <2>4 DEF Ones16
<1>6. g.fn = f.fn /\ g.acc = acc /\ g.b0 = sum
  BY CountFrameFields
<1>7. Size(f.fn) = 16
  BY Zenon, <1>2 DEF Size
<1>8. ASSUME NEW t \in Int
      PROVE  Held(g, t) = Held(f, t) + Occ(raw, Class(Size(f.fn), t))
  <2>1. Held(f, t) = Held16(f.acc, f.b0, t) /\ Held(g, t) = Held16(acc, sum, t)
    BY Zenon, <1>2, <1>6 DEF Held
  <2>2. CASE t \in 0 .. 15
    <3>1. PICK o, a, p, q, b, c : /\ o = Occ(raw, Class(16, t)) /\ a = f.acc[t]
                                  /\ p = Ones16(f.b0, t) /\ q = Ones16(sum, t)
                                  /\ b = Ones16(high, t) /\ c = acc[t]
      BY Zenon
    <3>2. p \in Nat /\ q \in Nat /\ b \in Nat /\ p + o = q + 2 * b
      <4>1. /\ Ones16(f.b0, t) \in Nat /\ Ones16(sum, t) \in Nat /\ Ones16(high, t) \in Nat
            /\ Ones16(f.b0, t) + Occ(raw, Class(16, t))
                 = Ones16(sum, t) + 2 * Ones16(high, t)
        BY ONLY <2>2, Added16, WordSums16(raw, f.b0, sum, high)
      <4> QED BY Zenon, <3>1, <4>1
    <3>3. a \in Nat /\ c = a + b
      BY Zenon, <1>2, <1>5, <2>2, <3>1
    <3>4. o \in Nat
      BY Zenon, <1>1, <3>1, OccType
    <3>5. 2 * c + q = (2 * a + p) + o
      BY ONLY <3>2, <3>3, <3>4
    <3>6. Held(f, t) = 2 * a + p /\ Held(g, t) = 2 * c + q
      BY Zenon, <2>1, <2>2, <3>1 DEF Held16
    <3> QED BY Zenon, <1>7, <3>1, <3>5, <3>6
  <2>3. CASE t \notin 0 .. 15
    <3>1. Held(f, t) = 0 /\ Held(g, t) = 0
      BY Zenon, <2>1, <2>3 DEF Held16
    <3>2. Occ(raw, Class(16, t)) = 0
      <4>1. 16 \in {16, 32, 64, 128, 256} /\ t \notin 0 .. 16 - 1
        BY <2>3
      <4> QED BY ONLY <4>1, t \in Int, NoSymbol
    <3>3. 0 = 0 + 0
      OBVIOUS
    <3> QED BY Zenon, <1>7, <3>1, <3>2, <3>3
  <2> QED BY <2>2, <2>3
<1> QED BY <1>2, <1>3, <1>5, <1>8, CountFollows

Made32(f, raw, to, padding, g, sum1, high1, sum2, high2, sum3, high3, acc) ==
    /\ WordSums32(raw, f.b0, f.b1, sum1, high1, sum2, high2, sum3, high3)
    /\ acc = LaneAdd(f.acc, Popcnt32(high3))
    /\ g = CountFrame(f, to, padding, acc, sum2, sum3)

Counts32(f, raw, to, padding, g) ==
    /\ CountOK(f) /\ f.fn # "vhist16" /\ Reads(f, raw, to, padding)
    /\ to <= Len(f.src) /\ (to < Len(f.src) => padding = 0)
    /\ \E sum1, high1, sum2, high2, sum3, high3, acc :
         Made32(f, raw, to, padding, g, sum1, high1, sum2, high2, sum3, high3, acc)

LEMMA Step32 ==
    ASSUME NEW f, NEW raw, NEW to, NEW padding, NEW g, Counts32(f, raw, to, padding, g)
    PROVE  Follows(f, g) /\ CountOK(g)
<1>0. PICK sum1, high1, sum2, high2, sum3, high3, acc :
        /\ CountOK(f) /\ f.fn # "vhist16" /\ Reads(f, raw, to, padding)
        /\ to <= Len(f.src) /\ (to < Len(f.src) => padding = 0)
        /\ WordSums32(raw, f.b0, f.b1, sum1, high1, sum2, high2, sum3, high3)
        /\ acc = LaneAdd(f.acc, Popcnt32(high3))
        /\ g = CountFrame(f, to, padding, acc, sum2, sum3)
  BY Zenon DEF Counts32, Made32
<1> USE <1>0
<1>1. raw \in Seq(Bytes) /\ Len(raw) = 64
  BY Zenon DEF Reads
<1>2. f.b0 \in BitWords /\ f.b1 \in BitWords /\ f.fn \notin Dividers
      /\ f.acc \in [0 .. 31 -> Nat] /\ CounterPlaces(f.fn) = 0 .. 31
  <2>1. CounterPlaces(f.fn) = 0 .. 31
    BY DEF CounterPlaces
  <2> QED BY Zenon, <2>1, CountFields
<1>3. sum2 \in BitWords /\ sum3 \in BitWords
  BY Zenon, <1>2, SumsTypes
<1>4. \A s \in 0 .. 31 : f.acc[s] \in Nat /\ Ones32(high3, s) \in Nat
  BY Zenon, <1>2, PopcntType
<1>5. acc \in [0 .. 31 -> Nat]
  <2>1. PICK p : p = Popcnt32(high3)
    BY Zenon
  <2>2. f.acc \in [Counter32 -> Nat] /\ p \in [Counter32 -> Nat]
    BY Zenon, <1>2, <2>1, PopcntArray DEF Counter32
  <2>3. acc = LaneAdd(f.acc, p)
    BY Zenon, <2>1
  <2> QED BY Zenon, <2>2, <2>3, LaneType DEF Counter32
<1>6. g.fn = f.fn /\ g.acc = acc /\ g.b0 = sum2 /\ g.b1 = sum3
  BY ONLY g = CountFrame(f, to, padding, acc, sum2, sum3), CountFrameFields
<1>7. Size(f.fn) = 32
  BY Zenon, <1>2 DEF Size
<1>8. ASSUME NEW t \in Counter32
      PROVE  /\ Held(f, t) \in Nat /\ Ones32(high3, t) \in Nat /\ f.acc[t] \in Nat
             /\ (Held(f, t) + Occ(raw, Class(32, t))) - 4 * (f.acc[t] + Ones32(high3, t))
                  = 2 * Ones32(sum3, t) + Ones32(sum2, t)
             /\ Ones32(sum3, t) \in Nat /\ Ones32(sum2, t) \in Nat
             /\ Occ(raw, Class(32, t)) \in Nat
  <2>0. t \in 0 .. 31
    BY DEF Counter32
  <2>1. PICK o, a, d, e, l2, l3, h :
          /\ o = Occ(raw, Class(32, t)) /\ a = f.acc[t]
          /\ d = Ones32(f.b0, t) /\ e = Ones32(f.b1, t) /\ h = Ones32(high3, t)
          /\ l2 = Ones32(sum2, t) /\ l3 = Ones32(sum3, t)
    BY Zenon
  <2>2. /\ d \in Nat /\ e \in Nat /\ l2 \in Nat /\ l3 \in Nat /\ h \in Nat
        /\ 2 * e + d + o = 4 * h + 2 * l3 + l2
    <3>1. Carried(Ones32(f.b1, t), Ones32(f.b0, t), Occ(raw, Class(32, t)),
                  Ones32(high3, t), Ones32(sum3, t), Ones32(sum2, t))
      BY ONLY <2>0, Added32, WordSums32(raw, f.b0, f.b1, sum1, high1, sum2, high2, sum3, high3)
    <3> QED BY Zenon, <2>1, <3>1 DEF Carried
  <2>3. a \in Nat
    BY Zenon, <1>4, <2>0, <2>1
  <2>4. o \in Nat
    BY Zenon, <1>1, <2>1, OccType
  <2>5. Held(f, t) = 4 * a + 2 * e + d
    BY Zenon, <1>2, <2>0, <2>1 DEF Held, Held32
  <2>6. /\ 4 * a + 2 * e + d \in Nat
        /\ ((4 * a + 2 * e + d) + o) - 4 * (a + h) = 2 * l3 + l2
    BY ONLY <2>2, <2>3, <2>4
  <2> QED BY Zenon, <2>1, <2>2, <2>3, <2>4, <2>5, <2>6
<1>9. ASSUME Light(f), NEW t \in Counter32
      PROVE  f.acc[t] + Ones32(high3, t) < CounterLimit
  <2>1. PICK m, a, b, h, o, x, y, w, u, v :
          /\ m = CounterLimit /\ a = f.acc[t] /\ b = Ones32(high3, t) /\ h = Held(f, t)
          /\ o = Occ(raw, Class(32, t)) /\ x = Ahead(f.fn, f.src, f.at, f.padding, t)
          /\ y = Ahead(f.fn, f.src, to, padding, t) /\ w = Work(f, t)
          /\ u = Ones32(sum3, t) /\ v = Ones32(sum2, t)
    BY Zenon
  <2>2. m \in Nat
    BY <2>1, LimitAssumption
  <2>3. /\ h \in Nat /\ b \in Nat /\ a \in Nat /\ u \in Nat /\ v \in Nat /\ o \in Nat
        /\ (h + o) - 4 * (a + b) = 2 * u + v
    BY Zenon, <1>8, <2>1
  <2>4. t \in Int
    BY DEF Counter32
  <2>5. x = o + y
    <3>1. Ahead(f.fn, f.src, f.at, f.padding, t)
            = Occ(raw, Class(Size(f.fn), t)) + Ahead(f.fn, f.src, to, padding, t)
      BY Zenon, <2>4 DEF Reads
    <3> QED BY Zenon, <1>7, <2>1, <3>1
  <2>6. y \in Int /\ y + 63 >= 0
    <3>1. f.src \in Seq(Bytes) /\ to \in Nat /\ padding \in 0 .. 63 /\ padding \in Int
      BY CountFields DEF Reads, Short
    <3> QED BY ONLY <2>1, <3>1, AheadType, AheadBound
  <2>7. w = x + h
    BY Zenon, <2>1 DEF Work
  <2>8. w + 63 < m
    BY Zenon, <1>9, <2>1 DEF Light
  <2>9. a + b < m
    BY ONLY <2>2, <2>3, <2>5, <2>6, <2>7, <2>8
  <2> QED BY Zenon, <2>1, <2>9
<1>10. ASSUME Light(f), NEW t \in Counter32
       PROVE  acc[t] = f.acc[t] + Ones32(high3, t)
  <2>1. PICK p : p = Popcnt32(high3)
    BY Zenon
  <2>2. f.acc \in [Counter32 -> Nat] /\ p \in [Counter32 -> Nat]
    BY Zenon, <1>2, <2>1, PopcntArray DEF Counter32
  <2>3. \A u \in Counter32 : f.acc[u] + p[u] < CounterLimit
    BY Zenon, <1>9, <1>10, <2>1 DEF Ones32
  <2>4. LaneAdd(f.acc, p)[t] = f.acc[t] + p[t]
    BY ONLY <2>2, <2>3, t \in Counter32, LaneExact
  <2> QED BY Zenon, <2>1, <2>4 DEF Ones32
<1>11. ASSUME Light(f), NEW t \in Int
       PROVE  Held(g, t) = Held(f, t) + Occ(raw, Class(Size(f.fn), t))
  <2>1. Held(f, t) = Held32(f.acc, f.b0, f.b1, t) /\ Held(g, t) = Held32(acc, sum2, sum3, t)
    BY Zenon, <1>2, <1>6 DEF Held
  <2>2. CASE t \in Counter32
    <3>1. PICK a, b, c, h, o, u, v :
            /\ a = f.acc[t] /\ b = Ones32(high3, t) /\ c = acc[t] /\ h = Held(f, t)
            /\ o = Occ(raw, Class(32, t)) /\ u = Ones32(sum3, t) /\ v = Ones32(sum2, t)
      BY Zenon
    <3>2. /\ h \in Nat /\ b \in Nat /\ a \in Nat /\ u \in Nat /\ v \in Nat /\ o \in Nat
          /\ (h + o) - 4 * (a + b) = 2 * u + v
      BY Zenon, <1>8, <2>2, <3>1
    <3>3. c = a + b
      BY Zenon, <1>10, <1>11, <2>2, <3>1
    <3>4. Held(g, t) = 4 * c + 2 * u + v
      BY Zenon, <2>1, <2>2, <3>1 DEF Held32, Counter32
    <3>5. 4 * c + 2 * u + v = h + o
      BY ONLY <3>2, <3>3
    <3> QED BY Zenon, <1>7, <3>1, <3>4, <3>5
  <2>3. CASE t \notin Counter32
    <3>1. Held(f, t) = 0 /\ Held(g, t) = 0
      BY Zenon, <2>1, <2>3 DEF Held32, Counter32
    <3>2. Occ(raw, Class(32, t)) = 0
      <4>1. 32 \in {16, 32, 64, 128, 256} /\ t \notin 0 .. 32 - 1
        BY <2>3 DEF Counter32
      <4> QED BY ONLY <4>1, t \in Int, NoSymbol
    <3>3. 0 = 0 + 0
      OBVIOUS
    <3> QED BY Zenon, <1>7, <3>1, <3>2, <3>3
  <2> QED BY <2>2, <2>3
<1> QED BY <1>2, <1>3, <1>5, <1>11, CountFollows

-----------------------------------------------------------------------------
(* The functions that divide.                                              *)

LEMMA VectorNumbers ==
    /\ 0 \in Vectors /\ Chunk \in Vectors /\ Vectors \in SUBSET Nat
    /\ \A x, y \in Vectors : x + y \in Vectors /\ (x < y => x + 64 <= y)
    /\ \A x \in Vectors : x + 64 \in Vectors
    /\ \A n \in Nat : n - (n % 64) \in Vectors /\ n % 64 \in Nat /\ n % 64 < 64
    /\ Chunk >= 64
<1>1. \A q \in Nat : 64 * q \in Vectors
  BY DEF Vectors
<1>2. ASSUME NEW x \in Vectors PROVE \E q \in Nat : x = 64 * q
  BY DEF Vectors
<1>3. \A n \in Nat : n % 64 \in Nat /\ n % 64 < 64 /\ n \div 64 \in Nat
                     /\ n - (n % 64) = 64 * (n \div 64)
  OBVIOUS
<1>4. \A n \in Nat : n - (n % 64) \in Vectors
  BY Zenon, <1>1, <1>3
<1>5. Chunk \in Nat /\ Chunk > 0 /\ Chunk % 64 = 0
  BY ChunkAssumption
<1>6. Chunk - 0 = Chunk
  BY <1>5
<1>7. Chunk \in Vectors
  BY Zenon, <1>4, <1>5, <1>6
<1>8. Chunk >= 64
  BY <1>2, <1>5, <1>7
<1>9. 0 = 64 * 0 /\ 0 \in Nat
  OBVIOUS
<1>10. 0 \in Vectors
  BY Zenon, <1>1, <1>9
<1>11. Vectors \in SUBSET Nat
  BY DEF Vectors
<1>12. ASSUME NEW x \in Vectors, NEW y \in Vectors
       PROVE  x + y \in Vectors /\ (x < y => x + 64 <= y)
  <2>1. PICK p, q : p \in Nat /\ q \in Nat /\ x = 64 * p /\ y = 64 * q
    BY <1>2
  <2>2. x + y = 64 * (p + q) /\ p + q \in Nat /\ (x < y => x + 64 <= y)
    BY ONLY <2>1
  <2> QED BY Zenon, <1>1, <2>2
<1>13. ASSUME NEW x \in Vectors PROVE x + 64 \in Vectors
  <2>1. PICK p : p \in Nat /\ x = 64 * p
    BY <1>2
  <2>2. x + 64 = 64 * (p + 1) /\ p + 1 \in Nat
    BY ONLY <2>1
  <2> QED BY Zenon, <1>1, <2>2
<1> QED BY <1>3, <1>4, <1>7, <1>8, <1>10, <1>11, <1>12, <1>13

\* Both buffers together get what a vector has.
Divides(fn, half, raw, buf0, buf1, new0, new1) ==
    /\ fn \in Dividers /\ half = Divider(fn).half
    /\ raw \in Seq(Bytes) /\ buf0 \in Seq(Bytes) /\ buf1 \in Seq(Bytes)
    /\ new0 = buf0 \o Compress(raw, Bytes \ Divider(fn).upper)
    /\ new1 = buf1 \o Compress(raw, Divider(fn).upper)

LEMMA Divided ==
    ASSUME NEW fn, NEW half, NEW raw, NEW buf0, NEW buf1, NEW new0, NEW new1, NEW t \in Int,
           Divides(fn, half, raw, buf0, buf1, new0, new1)
    PROVE  /\ new0 \in Seq(Bytes) /\ Len(new0) <= Len(buf0) + Len(raw)
           /\ new1 \in Seq(Bytes) /\ Len(new1) <= Len(buf1) + Len(raw)
           /\ Buffered(half, new0, new1, t)
                = Buffered(half, buf0, buf1, t) + Occ(raw, Class(Size(fn), t))
<1>0. /\ fn \in Dividers /\ half = Divider(fn).half
      /\ raw \in Seq(Bytes) /\ buf0 \in Seq(Bytes) /\ buf1 \in Seq(Bytes)
      /\ new0 = buf0 \o Compress(raw, Bytes \ Divider(fn).upper)
      /\ new1 = buf1 \o Compress(raw, Divider(fn).upper)
  BY Zenon DEF Divides
<1> USE <1>0
<1>1. PICK upper, k0, k1, V, W :
        /\ upper = Divider(fn).upper /\ k0 = Bytes \ upper /\ k1 = upper
        /\ V = Class(half, t) /\ W = Class(half, t - half)
  BY Zenon
<1>2. PICK c0, c1 : c0 = Compress(raw, k0) /\ c1 = Compress(raw, k1)
  BY Zenon
<1>3. new0 = buf0 \o c0 /\ new1 = buf1 \o c1
  BY Zenon, <1>1, <1>2
<1>4. /\ c0 \in Seq(Bytes) /\ Len(c0) <= Len(raw) /\ Occ(c0, V) = Occ(raw, k0 \intersect V)
      /\ c1 \in Seq(Bytes) /\ Len(c1) <= Len(raw) /\ Occ(c1, W) = Occ(raw, k1 \intersect W)
  <2>1. \A k : /\ Compress(raw, k) \in Seq(Bytes) /\ Len(Compress(raw, k)) <= Len(raw)
               /\ \A U : Occ(Compress(raw, k), U) = Occ(raw, k \intersect U)
    BY ONLY <1>0, CompressFacts
  <2> QED BY Zenon, <1>2, <2>1
<1>5. /\ new0 \in Seq(Bytes) /\ Len(new0) = Len(buf0) + Len(c0)
      /\ Occ(new0, V) = Occ(buf0, V) + Occ(c0, V)
  <2>1. /\ buf0 \o c0 \in Seq(Bytes) /\ Len(buf0 \o c0) = Len(buf0) + Len(c0)
        /\ Occ(buf0 \o c0, V) = Occ(buf0, V) + Occ(c0, V)
    BY ONLY <1>4, <1>0, ConcatProperties, OccConcat
  <2> QED BY Zenon, <1>3, <2>1
<1>6. /\ new1 \in Seq(Bytes) /\ Len(new1) = Len(buf1) + Len(c1)
      /\ Occ(new1, W) = Occ(buf1, W) + Occ(c1, W)
  <2>1. /\ buf1 \o c1 \in Seq(Bytes) /\ Len(buf1 \o c1) = Len(buf1) + Len(c1)
        /\ Occ(buf1 \o c1, W) = Occ(buf1, W) + Occ(c1, W)
    BY ONLY <1>4, <1>0, ConcatProperties, OccConcat
  <2> QED BY Zenon, <1>3, <2>1
<1>7. Occ(raw, Class(Size(fn), t)) = Occ(c0, V) + Occ(c1, W)
  <2>1. PICK A, B : A = k0 \intersect V /\ B = k1 \intersect W
    BY Zenon
  <2>2. Class(Size(fn), t) = A \union B /\ A \intersect B = {}
    <3>1. HalfClasses(fn, t, A, B)
      BY Zenon, <1>1, <2>1 DEF HalfClasses
    <3> QED BY <3>1, ClassSplit
  <2>3. Len(raw) \in Int /\ 0 \in Int
    BY LenProperties
  <2>4. Occurs(raw, 0, Len(raw), A \union B) = Occurs(raw, 0, Len(raw), A) + Occurs(raw, 0, Len(raw), B)
    BY ONLY <2>2, <2>3, OccUnion
  <2> QED BY Zenon, <1>4, <2>1, <2>2, <2>4 DEF Occ
<1>8. PICK p0, p1, q0, q1 : /\ p0 = Occ(buf0, V) /\ p1 = Occ(buf1, W)
                            /\ q0 = Occ(c0, V) /\ q1 = Occ(c1, W)
  BY Zenon
<1>9. p0 \in Nat /\ p1 \in Nat /\ q0 \in Nat /\ q1 \in Nat
  BY <1>4, <1>8, OccType
<1>10. (p0 + q0) + (p1 + q1) = (p0 + p1) + (q0 + q1)
  BY ONLY <1>9
<1>11. /\ Buffered(half, new0, new1, t) = (p0 + q0) + (p1 + q1)
       /\ Buffered(half, buf0, buf1, t) = p0 + p1
  BY Zenon, <1>1, <1>5, <1>6, <1>8 DEF Buffered
<1>12. Buffered(half, new0, new1, t)
         = Buffered(half, buf0, buf1, t) + Occ(raw, Class(Size(fn), t))
  BY Zenon, <1>7, <1>8, <1>10, <1>11
<1>13. Len(new0) <= Len(buf0) + Len(raw) /\ Len(new1) <= Len(buf1) + Len(raw)
  <2>1. /\ Len(buf0) \in Nat /\ Len(c0) \in Nat /\ Len(buf1) \in Nat /\ Len(c1) \in Nat
        /\ Len(raw) \in Nat
    BY <1>4, LenProperties
  <2> QED BY ONLY <1>4, <1>5, <1>6, <2>1
<1> QED BY Zenon, <1>5, <1>6, <1>12, <1>13

DivideFrame(f, at, padding, left, fake_end, buf0, buf1, phase) ==
    [fn |-> f.fn, src |-> f.src, base |-> f.base, at |-> at, padding |-> padding,
     left |-> left, fake_end |-> fake_end, buf0 |-> buf0, buf1 |-> buf1, phase |-> phase]

LEMMA DivideFrameFields ==
    ASSUME NEW f, NEW at, NEW padding, NEW left, NEW fake_end, NEW buf0, NEW buf1, NEW phase, NEW g,
           g = DivideFrame(f, at, padding, left, fake_end, buf0, buf1, phase)
    PROVE  /\ g.fn = f.fn /\ g.src = f.src /\ g.base = f.base /\ g.at = at
           /\ g.padding = padding /\ g.left = left /\ g.fake_end = fake_end
           /\ g.buf0 = buf0 /\ g.buf1 = buf1 /\ g.phase = phase
BY DEF DivideFrame

LEMMA DivideFrameType ==
    ASSUME NEW f, DivideOK(f), NEW at \in Nat, NEW padding \in Short, NEW left \in Short,
           NEW fake_end \in Nat, NEW buf0 \in Seq(Bytes), NEW buf1 \in Seq(Bytes),
           NEW phase \in {"outer", "inner", "upper"}
    PROVE  DivideFrame(f, at, padding, left, fake_end, buf0, buf1, phase) \in DivideFrames
<1>1. f.fn \in Dividers /\ f.src \in Seq(Bytes) /\ f.base \in Nat
  BY DivideFields
<1>2. PICK P : P = {"outer", "inner", "upper"}
  BY Zenon
<1>3. phase \in P /\ DivideFrames =
        [fn : Dividers, src : Seq(Bytes), base : Nat, at : Nat, padding : Short,
         left : Short, fake_end : Nat, buf0 : Seq(Bytes), buf1 : Seq(Bytes), phase : P]
  BY Zenon, <1>2 DEF DivideFrames
<1> QED BY <1>1, <1>3 DEF DivideFrame

\* What the buffers and the rest of the message come to.
LEMMA DivideWork ==
    ASSUME NEW f, DivideOK(f), NEW t \in Int
    PROVE  /\ Work(f, t) = Ahead(f.fn, f.src, f.at, f.padding, t)
                             + Buffered(Divider(f.fn).half, f.buf0, f.buf1, t)
           /\ Ahead(f.fn, f.src, f.at, f.padding, t) \in Int
           /\ Buffered(Divider(f.fn).half, f.buf0, f.buf1, t) \in Nat
<1>1. f.fn \in Dividers
  BY DivideFields
<1>2. Ahead(f.fn, f.src, f.at, f.padding, t) \in Int
  <2>1. f.src \in Seq(Bytes) /\ f.at \in Nat /\ f.padding \in Int
    BY DivideFields
  <2> QED BY <2>1, AheadType
<1>3. Buffered(Divider(f.fn).half, f.buf0, f.buf1, t) \in Nat
  BY DivideFields, BufferedType
<1> QED BY Zenon, <1>1, <1>2, <1>3 DEF Work, Held

LEMMA EndFacts ==
    ASSUME NEW f, Len(f.src) \in Nat
    PROVE  /\ End(f) \in Vectors /\ End(f) \in Nat /\ End(f) <= Len(f.src)
           /\ Len(f.src) = End(f) + (Len(f.src) % 64)
           /\ Len(f.src) % 64 \in Nat /\ Len(f.src) % 64 < 64
<1>1. PICK n, r : n = Len(f.src) /\ r = Len(f.src) % 64
  BY Zenon
<1>2. n \in Nat /\ n - r \in Vectors /\ r \in Nat /\ r < 64 /\ r = n % 64
  BY Zenon, <1>1, VectorNumbers
<1>3. n - r \in Nat
  BY <1>2, VectorNumbers
<1>4. n - r <= n /\ n = (n - r) + r
  BY ONLY <1>2
<1>5. End(f) = n - r
  BY Zenon, <1>1 DEF End
<1> QED BY Zenon, <1>1, <1>2, <1>3, <1>4, <1>5

\* Lines 248-251: a chunk begins.
LEMMA BeginStep ==
    ASSUME NEW f, DivideOK(f), f.phase = "outer", f.at < End(f), NEW fake_end, NEW g,
           fake_end = IF f.at + Chunk > End(f) THEN End(f) ELSE f.at + Chunk,
           g = DivideFrame(f, f.at, f.padding, f.left, fake_end, f.buf0, f.buf1, "inner")
    PROVE  Follows(f, g) /\ DivideOK(g)
<1>1. /\ f.fn \in Dividers /\ Len(f.src) \in Nat /\ f.at \in Nat /\ f.padding \in Short
      /\ f.left \in Short /\ f.buf0 \in Seq(Bytes) /\ f.buf1 \in Seq(Bytes)
  BY DivideFields
<1>2. End(f) \in Vectors /\ End(f) \in Nat /\ f.at \in Vectors /\ Chunk \in Vectors /\ Chunk \in Nat
  BY <1>1, EndFacts, VectorNumbers DEF DivideOK
<1>3. fake_end \in Vectors /\ fake_end <= End(f) /\ fake_end - f.at <= Chunk /\ fake_end \in Nat
  <2>1. f.at + Chunk \in Vectors
    BY <1>2, VectorNumbers
  <2> QED BY <1>1, <1>2, <2>1
<1>4. /\ g.fn = f.fn /\ g.src = f.src /\ g.base = f.base /\ g.at = f.at
      /\ g.padding = f.padding /\ g.left = f.left /\ g.fake_end = fake_end
      /\ g.buf0 = f.buf0 /\ g.buf1 = f.buf1 /\ g.phase = "inner"
  BY ONLY DivideFrameFields,
          g = DivideFrame(f, f.at, f.padding, f.left, fake_end, f.buf0, f.buf1, "inner")
<1>5. g \in DivideFrames
  BY <1>1, <1>3, DivideFrameType
<1>6. End(g) = End(f)
  BY Zenon, <1>4 DEF End
<1>7. Len(g.buf0) = 0 /\ Len(g.buf1) = 0
  BY <1>4, EmptySeq DEF DivideOK
<1>8. DivideOK(g)
  <2>1. /\ Len(g.buf0) + (g.fake_end - g.at) <= Chunk
        /\ Len(g.buf1) + (g.fake_end - g.at) <= Chunk
    BY <1>1, <1>2, <1>3, <1>4, <1>7
  <2>2. g.fake_end \in Vectors /\ g.fake_end <= End(g)
    BY Zenon, <1>3, <1>4, <1>6
  <2>3. /\ g.at \in Vectors
        /\ \/ g.left = Len(g.src) % 64 /\ g.at <= End(g) /\ g.padding = 0
           \/ g.left = 0 /\ g.at >= Len(g.src)
        /\ g.base + Size(g.fn) <= 256
    BY Zenon, <1>4, <1>6 DEF DivideOK
  <2>4. g.phase # "outer" /\ g.phase # "upper"
    BY <1>4
  <2> QED BY Zenon, <1>5, <2>1, <2>2, <2>3, <2>4 DEF DivideOK
<1>9. ASSUME NEW t \in Int PROVE Work(g, t) = Work(f, t)
  <2>1. /\ Work(f, t) = Ahead(f.fn, f.src, f.at, f.padding, t)
                         + Buffered(Divider(f.fn).half, f.buf0, f.buf1, t)
        /\ Work(g, t) = Ahead(g.fn, g.src, g.at, g.padding, t)
                         + Buffered(Divider(g.fn).half, g.buf0, g.buf1, t)
    BY <1>8, DivideWork
  <2> QED BY Zenon, <1>4, <2>1
<1> QED BY Zenon, <1>4, <1>8, <1>9 DEF Follows, OK

\* Lines 252-263, and 267-273: a vector is divided.
Room(f, at, padding, left, fake_end) ==
    /\ at \in Vectors /\ fake_end \in Vectors /\ fake_end <= End(f) /\ left \in Short
    /\ \/ left = Len(f.src) % 64 /\ at <= End(f) /\ padding = 0
       \/ left = 0 /\ at >= Len(f.src)
    /\ at < fake_end => /\ Len(f.buf0) + 64 + (fake_end - at) <= Chunk
                        /\ Len(f.buf1) + 64 + (fake_end - at) <= Chunk

Splits(f, raw, at, padding, left, fake_end, buf0, buf1, g) ==
    /\ DivideOK(f) /\ Reads(f, raw, at, padding) /\ Room(f, at, padding, left, fake_end)
    /\ buf0 = f.buf0 \o Compress(raw, Bytes \ Divider(f.fn).upper)
    /\ buf1 = f.buf1 \o Compress(raw, Divider(f.fn).upper)
    /\ g = DivideFrame(f, at, padding, left, fake_end, buf0, buf1, "inner")

LEMMA DivideStep ==
    ASSUME NEW f, NEW raw, NEW at, NEW padding, NEW left, NEW fake_end, NEW buf0, NEW buf1,
           NEW g, Splits(f, raw, at, padding, left, fake_end, buf0, buf1, g)
    PROVE  Follows(f, g) /\ DivideOK(g)
<1>0. /\ DivideOK(f) /\ Reads(f, raw, at, padding)
      /\ at \in Vectors /\ fake_end \in Vectors /\ fake_end <= End(f) /\ left \in Short
      /\ \/ left = Len(f.src) % 64 /\ at <= End(f) /\ padding = 0
         \/ left = 0 /\ at >= Len(f.src)
      /\ at < fake_end => /\ Len(f.buf0) + 64 + (fake_end - at) <= Chunk
                          /\ Len(f.buf1) + 64 + (fake_end - at) <= Chunk
      /\ buf0 = f.buf0 \o Compress(raw, Bytes \ Divider(f.fn).upper)
      /\ buf1 = f.buf1 \o Compress(raw, Divider(f.fn).upper)
      /\ g = DivideFrame(f, at, padding, left, fake_end, buf0, buf1, "inner")
  BY Zenon DEF Splits, Room
<1> USE <1>0
<1>1. /\ f.fn \in Dividers /\ Len(f.src) \in Nat /\ f.buf0 \in Seq(Bytes) /\ f.buf1 \in Seq(Bytes)
      /\ Len(f.buf0) \in Nat /\ Len(f.buf1) \in Nat
  BY DivideFields
<1>2. at \in Nat /\ padding \in Short /\ fake_end \in Nat /\ raw \in Seq(Bytes) /\ Len(raw) = 64
  <2>1. fake_end \in Nat
    BY Zenon, VectorNumbers
  <2> QED BY Zenon, <2>1 DEF Reads
<1>3. ASSUME NEW t \in Int
      PROVE  /\ buf0 \in Seq(Bytes) /\ Len(buf0) <= Len(f.buf0) + 64
             /\ buf1 \in Seq(Bytes) /\ Len(buf1) <= Len(f.buf1) + 64
             /\ Buffered(Divider(f.fn).half, buf0, buf1, t)
                  = Buffered(Divider(f.fn).half, f.buf0, f.buf1, t)
                      + Occ(raw, Class(Size(f.fn), t))
  <2>1. PICK b0, b1, fn, half : b0 = f.buf0 /\ b1 = f.buf1 /\ fn = f.fn /\ half = Divider(fn).half
    BY Zenon
  <2>2. /\ buf0 \in Seq(Bytes) /\ Len(buf0) <= Len(b0) + Len(raw)
        /\ buf1 \in Seq(Bytes) /\ Len(buf1) <= Len(b1) + Len(raw)
        /\ Buffered(half, buf0, buf1, t)
             = Buffered(half, b0, b1, t) + Occ(raw, Class(Size(fn), t))
    <3>1. Divides(fn, half, raw, b0, b1, buf0, buf1)
      BY Zenon, <1>1, <1>2, <2>1 DEF Divides
    <3> QED BY ONLY <3>1, t \in Int, Divided
  <2> QED BY Zenon, <1>2, <2>1, <2>2
<1>4. /\ buf0 \in Seq(Bytes) /\ Len(buf0) <= Len(f.buf0) + 64 /\ Len(buf0) \in Nat
      /\ buf1 \in Seq(Bytes) /\ Len(buf1) <= Len(f.buf1) + 64 /\ Len(buf1) \in Nat
  <2>1. 0 \in Int
    OBVIOUS
  <2>2. /\ buf0 \in Seq(Bytes) /\ Len(buf0) <= Len(f.buf0) + 64
        /\ buf1 \in Seq(Bytes) /\ Len(buf1) <= Len(f.buf1) + 64
    BY Zenon, <1>3, <2>1
  <2> QED BY ONLY <2>2, LenProperties
<1>5. /\ g.fn = f.fn /\ g.src = f.src /\ g.base = f.base /\ g.at = at
      /\ g.padding = padding /\ g.left = left /\ g.fake_end = fake_end
      /\ g.buf0 = buf0 /\ g.buf1 = buf1 /\ g.phase = "inner"
  <2>1. g = DivideFrame(f, at, padding, left, fake_end, buf0, buf1, "inner")
    BY Zenon
  <2> QED BY ONLY <2>1, DivideFrameFields
<1>6. g \in DivideFrames
  <2>1. /\ DivideOK(f) /\ left \in Short
        /\ g = DivideFrame(f, at, padding, left, fake_end, buf0, buf1, "inner")
    BY Zenon
  <2> QED BY ONLY <1>2, <1>4, <2>1, DivideFrameType
<1>7. End(g) = End(f)
  BY Zenon, <1>5 DEF End
<1>8. DivideOK(g)
  <2>1. g.at < g.fake_end =>
          /\ Len(g.buf0) + (g.fake_end - g.at) <= Chunk
          /\ Len(g.buf1) + (g.fake_end - g.at) <= Chunk
    <3>1. PICK m : m = Chunk
      BY Zenon
    <3>2. m \in Nat
      BY <3>1, VectorNumbers
    <3>3. at < fake_end => /\ Len(f.buf0) + 64 + (fake_end - at) <= m
                           /\ Len(f.buf1) + 64 + (fake_end - at) <= m
      BY Zenon, <3>1
    <3>4. at < fake_end => /\ Len(buf0) + (fake_end - at) <= m
                           /\ Len(buf1) + (fake_end - at) <= m
      BY ONLY <1>1, <1>2, <1>4, <3>2, <3>3
    <3> QED BY Zenon, <1>5, <3>1, <3>4
  <2>2. /\ g.at \in Vectors /\ g.fake_end \in Vectors /\ g.fake_end <= End(g)
        /\ \/ g.left = Len(g.src) % 64 /\ g.at <= End(g) /\ g.padding = 0
           \/ g.left = 0 /\ g.at >= Len(g.src)
    BY Zenon, <1>5, <1>7
  <2>3. g.base + Size(g.fn) <= 256
    BY Zenon, <1>5 DEF DivideOK
  <2>4. g.phase # "outer" /\ g.phase # "upper"
    BY <1>5
  <2> QED BY Zenon, <1>6, <2>1, <2>2, <2>3, <2>4 DEF DivideOK
<1>9. ASSUME NEW t \in Int PROVE Work(g, t) = Work(f, t)
  <2>1. PICK x, y, o, b, c :
          /\ x = Ahead(f.fn, f.src, f.at, f.padding, t)
          /\ y = Ahead(f.fn, f.src, at, padding, t)
          /\ o = Occ(raw, Class(Size(f.fn), t))
          /\ b = Buffered(Divider(f.fn).half, f.buf0, f.buf1, t)
          /\ c = Buffered(Divider(f.fn).half, buf0, buf1, t)
    BY Zenon
  <2>2. x = o + y /\ o \in Nat
    BY Zenon, <2>1 DEF Reads
  <2>3. c = b + o
    BY Zenon, <1>3, <2>1
  <2>4. Work(f, t) = x + b /\ b \in Nat
    BY Zenon, <2>1, DivideWork
  <2>5. Work(g, t) = y + c /\ y \in Int
    <3>1. /\ Work(g, t) = Ahead(g.fn, g.src, g.at, g.padding, t)
                            + Buffered(Divider(g.fn).half, g.buf0, g.buf1, t)
          /\ Ahead(g.fn, g.src, g.at, g.padding, t) \in Int
      BY Zenon, <1>8, DivideWork
    <3> QED BY Zenon, <1>5, <2>1, <3>1
  <2>6. y + c = x + b
    BY ONLY <2>2, <2>3, <2>4, <2>5
  <2> QED BY Zenon, <2>4, <2>5, <2>6
<1> QED BY Zenon, <1>5, <1>8, <1>9 DEF Follows, OK

\* Lines 264 and 265: a buffer goes to the function for half the symbols.
LEMMA LowerStep ==
    ASSUME NEW f, DivideOK(f), f.phase = "inner", NEW h,
           h = DivideFrame(f, f.at, f.padding, f.left, f.fake_end, << >>, f.buf1, "upper")
    PROVE  /\ DivideOK(h) /\ h.fn = f.fn /\ h.base = f.base
           /\ \A t \in Int : Work(h, t) + Occ(f.buf0, Class(Divider(f.fn).half, t)) = Work(f, t)
<1>1. /\ f.fn \in Dividers /\ Len(f.src) \in Nat /\ f.at \in Nat /\ f.padding \in Short
      /\ f.left \in Short /\ f.buf0 \in Seq(Bytes) /\ f.buf1 \in Seq(Bytes) /\ f.fake_end \in Nat
  BY DivideFields
<1>2. << >> \in Seq(Bytes)
  BY EmptySeq
<1>3. /\ h.fn = f.fn /\ h.src = f.src /\ h.base = f.base /\ h.at = f.at
      /\ h.padding = f.padding /\ h.left = f.left /\ h.fake_end = f.fake_end
      /\ h.buf0 = << >> /\ h.buf1 = f.buf1 /\ h.phase = "upper"
  BY ONLY DivideFrameFields,
          h = DivideFrame(f, f.at, f.padding, f.left, f.fake_end, << >>, f.buf1, "upper")
<1>4. h \in DivideFrames
  BY ONLY <1>1, <1>2, DivideOK(f), DivideFrameType,
          h = DivideFrame(f, f.at, f.padding, f.left, f.fake_end, << >>, f.buf1, "upper")
<1>5. End(h) = End(f)
  BY Zenon, <1>3 DEF End
<1>6. DivideOK(h)
  <2>1. h.phase # "outer" /\ h.phase # "inner"
    BY <1>3
  <2> QED BY Zenon, <1>3, <1>4, <1>5, <2>1 DEF DivideOK
<1>7. ASSUME NEW t \in Int
      PROVE  Work(h, t) + Occ(f.buf0, Class(Divider(f.fn).half, t)) = Work(f, t)
  <2>1. PICK half, a, p, q : /\ half = Divider(f.fn).half
                             /\ a = Ahead(f.fn, f.src, f.at, f.padding, t)
                             /\ p = Occ(f.buf0, Class(half, t))
                             /\ q = Occ(f.buf1, Class(half, t - half))
    BY Zenon
  <2>2. Work(f, t) = a + (p + q) /\ a \in Int
    BY Zenon, <2>1, DivideWork DEF Buffered
  <2>3. Work(h, t) = a + (0 + q)
    <3>1. Work(h, t) = Ahead(h.fn, h.src, h.at, h.padding, t)
                         + Buffered(Divider(h.fn).half, h.buf0, h.buf1, t)
      BY Zenon, <1>6, DivideWork
    <3> QED BY Zenon, <1>3, <2>1, <3>1, OccEmpty DEF Buffered
  <2>4. p \in Nat /\ q \in Nat
    BY <1>1, <2>1, OccType
  <2>5. (a + (0 + q)) + p = a + (p + q)
    BY ONLY <2>2, <2>4
  <2> QED BY Zenon, <2>1, <2>2, <2>3, <2>5
<1> QED BY Zenon, <1>3, <1>6, <1>7

LEMMA UpperStep ==
    ASSUME NEW f, DivideOK(f), f.phase = "upper", NEW h,
           h = DivideFrame(f, f.at, f.padding, f.left, f.fake_end, f.buf0, << >>, "outer")
    PROVE  /\ DivideOK(h) /\ h.fn = f.fn /\ h.base = f.base
           /\ \A t \in Int :
                Work(h, t) + Occ(f.buf1, Class(Divider(f.fn).half, t - Divider(f.fn).half))
                  = Work(f, t)
<1>1. /\ f.fn \in Dividers /\ Len(f.src) \in Nat /\ f.at \in Nat /\ f.padding \in Short
      /\ f.left \in Short /\ f.buf0 \in Seq(Bytes) /\ f.buf1 \in Seq(Bytes) /\ f.fake_end \in Nat
  BY DivideFields
<1>2. << >> \in Seq(Bytes) /\ f.buf0 = << >>
  BY EmptySeq DEF DivideOK
<1>3. /\ h.fn = f.fn /\ h.src = f.src /\ h.base = f.base /\ h.at = f.at
      /\ h.padding = f.padding /\ h.left = f.left /\ h.fake_end = f.fake_end
      /\ h.buf0 = f.buf0 /\ h.buf1 = << >> /\ h.phase = "outer"
  BY ONLY DivideFrameFields,
          h = DivideFrame(f, f.at, f.padding, f.left, f.fake_end, f.buf0, << >>, "outer")
<1>4. h \in DivideFrames
  BY ONLY <1>1, <1>2, DivideOK(f), DivideFrameType,
          h = DivideFrame(f, f.at, f.padding, f.left, f.fake_end, f.buf0, << >>, "outer")
<1>5. End(h) = End(f)
  BY Zenon, <1>3 DEF End
<1>6. DivideOK(h)
  <2>1. h.phase # "upper" /\ h.phase # "inner"
    BY <1>3
  <2> QED BY Zenon, <1>2, <1>3, <1>4, <1>5, <2>1 DEF DivideOK
<1>7. ASSUME NEW t \in Int
      PROVE  Work(h, t) + Occ(f.buf1, Class(Divider(f.fn).half, t - Divider(f.fn).half))
               = Work(f, t)
  <2>1. PICK half, a, p, q : /\ half = Divider(f.fn).half
                             /\ a = Ahead(f.fn, f.src, f.at, f.padding, t)
                             /\ p = Occ(f.buf0, Class(half, t))
                             /\ q = Occ(f.buf1, Class(half, t - half))
    BY Zenon
  <2>2. Work(f, t) = a + (p + q) /\ a \in Int
    BY Zenon, <2>1, DivideWork DEF Buffered
  <2>3. Work(h, t) = a + (p + 0)
    <3>1. Work(h, t) = Ahead(h.fn, h.src, h.at, h.padding, t)
                         + Buffered(Divider(h.fn).half, h.buf0, h.buf1, t)
      BY Zenon, <1>6, DivideWork
    <3> QED BY Zenon, <1>3, <2>1, <3>1, OccEmpty DEF Buffered
  <2>4. p \in Nat /\ q \in Nat
    BY <1>1, <2>1, OccType
  <2>5. (a + (p + 0)) + q = a + (p + q)
    BY ONLY <2>2, <2>4
  <2> QED BY Zenon, <2>1, <2>2, <2>3, <2>5
<1> QED BY Zenon, <1>3, <1>6, <1>7

\* A function is entered: all of its message is ahead.
IsEntered(g, fn, src, base) ==
    /\ fn \in Counters \union Dividers /\ src \in Seq(Bytes) /\ base \in Nat
    /\ base + Size(fn) <= 256 /\ g = Enters(fn, src, base)

LEMMA Entered ==
    ASSUME NEW fn, NEW src, NEW base, NEW g, IsEntered(g, fn, src, base)
    PROVE  /\ OK(g) /\ g.fn = fn /\ g.base = base
           /\ \A t \in Int : Work(g, t) = Occ(src, Class(Size(fn), t))
<1>0. /\ fn \in Counters \union Dividers /\ src \in Seq(Bytes) /\ base \in Nat
      /\ base + Size(fn) <= 256 /\ g = Enters(fn, src, base)
  BY Zenon DEF IsEntered
<1> USE <1>0
<1>1. Len(src) \in Nat /\ 0 \in Short /\ 0 \in Nat
  BY LenProperties DEF Short
<1>2. \A t \in Int : /\ Occ(src, Class(Size(fn), t)) \in Nat
                     /\ Ahead(fn, src, 0, 0, t) = Occ(src, Class(Size(fn), t))
  <2> SUFFICES ASSUME NEW t \in Int
               PROVE  /\ Occ(src, Class(Size(fn), t)) \in Nat
                      /\ Ahead(fn, src, 0, 0, t) = Occ(src, Class(Size(fn), t))
    OBVIOUS
  <2>1. PICK o, p : o = Occ(src, Class(Size(fn), t)) /\ p = IF t = 0 THEN 0 ELSE 0
    BY Zenon
  <2>2. o \in Nat /\ p = 0
    BY <2>1, OccType
  <2>3. Ahead(fn, src, 0, 0, t) = o - p
    BY Zenon, <2>1 DEF Ahead, Occ
  <2>4. o - 0 = o
    BY ONLY <2>2
  <2> QED BY Zenon, <2>1, <2>2, <2>3, <2>4
<1>3. CASE fn \in Dividers
  <2>1. g = Dividing(fn, src, base)
    BY Zenon, <1>3 DEF Enters
  <2>2. /\ g.fn = fn /\ g.src = src /\ g.base = base /\ g.at = 0 /\ g.padding = 0
        /\ g.left = Len(src) % 64 /\ g.fake_end = 0 /\ g.buf0 = << >> /\ g.buf1 = << >>
        /\ g.phase = "outer"
    BY ONLY <2>1 DEF Dividing
  <2>3. Len(src) % 64 \in Short
    <3>1. \A n \in Nat : n % 64 \in Short
      BY DEF Short
    <3> QED BY Zenon, <1>1, <3>1
  <2>4. << >> \in Seq(Bytes)
    BY EmptySeq
  <2>5. g \in DivideFrames
    <3>1. PICK P : P = {"outer", "inner", "upper"}
      BY Zenon
    <3>2. "outer" \in P /\ DivideFrames =
            [fn : Dividers, src : Seq(Bytes), base : Nat, at : Nat, padding : Short,
             left : Short, fake_end : Nat, buf0 : Seq(Bytes), buf1 : Seq(Bytes), phase : P]
      BY Zenon, <3>1 DEF DivideFrames
    <3>3. PICK r : r = Len(src) % 64
      BY Zenon
    <3>4. /\ g = [fn |-> fn, src |-> src, base |-> base, at |-> 0, padding |-> 0,
                  left |-> r, fake_end |-> 0, buf0 |-> << >>, buf1 |-> << >>,
                  phase |-> "outer"]
          /\ r \in Short
      BY Zenon, <2>1, <2>3, <3>3 DEF Dividing
    <3>5. src \in Seq(Bytes) /\ base \in Nat
      BY Zenon
    <3> QED BY ONLY <1>1, <1>3, <2>4, <3>2, <3>4, <3>5
  <2>6. End(g) \in Nat /\ 0 \in Vectors
    BY <1>1, <2>2, EndFacts, VectorNumbers
  <2>7. DivideOK(g)
    <3>1. g.fake_end <= End(g) /\ g.at <= End(g) /\ g.phase # "upper" /\ g.phase # "inner"
      BY <2>2, <2>6
    <3> QED BY Zenon, <2>2, <2>5, <2>6, <3>1 DEF DivideOK
  <2>8. ASSUME NEW t \in Int PROVE Work(g, t) = Occ(src, Class(Size(fn), t))
    <3>1. Work(g, t) = Ahead(g.fn, g.src, g.at, g.padding, t)
                         + Buffered(Divider(g.fn).half, g.buf0, g.buf1, t)
      BY Zenon, <2>7, DivideWork
    <3>2. PICK o : o = Occ(src, Class(Size(fn), t))
      BY Zenon
    <3>3. Work(g, t) = o + (0 + 0) /\ o \in Nat
      BY Zenon, <1>2, <2>2, <3>1, <3>2, OccEmpty DEF Buffered
    <3> QED BY <3>2, <3>3
  <2> QED BY Zenon, <2>2, <2>7, <2>8 DEF OK
<1>4. CASE fn \notin Dividers
  <2>1. g = Counting(fn, src, base) /\ fn \in Counters
    BY Zenon, <1>4 DEF Enters
  <2>2. PICK acc : acc = [s \in CounterPlaces(fn) |-> 0]
    BY Zenon
  <2>3. g = [fn |-> fn, src |-> src, base |-> base, at |-> 0, padding |-> 0,
             acc |-> acc, b0 |-> {}, b1 |-> {}]
    BY Zenon, <2>1, <2>2 DEF Counting, CounterPlaces
  <2>4. /\ g.fn = fn /\ g.src = src /\ g.base = base /\ g.at = 0 /\ g.padding = 0
        /\ g.acc = acc /\ g.b0 = {} /\ g.b1 = {}
    BY ONLY <2>3
  <2>5. acc \in [CounterPlaces(fn) -> Nat] /\ \A s \in CounterPlaces(fn) : acc[s] = 0
    BY ONLY <2>2
  <2>6. acc \in Arrays /\ {} \in BitWords
    BY Zenon, <2>1, <2>5 DEF Arrays, BitWords
  <2>7. g \in CountFrames
    <3>1. src \in Seq(Bytes) /\ base \in Nat
      BY Zenon
    <3> QED BY ONLY <1>1, <2>1, <2>3, <2>6, <3>1 DEF CountFrames
  <2>8. CountOK(g)
    <3>1. g.at <= Len(g.src)
      BY <1>1, <2>4
    <3> QED BY Zenon, <2>4, <2>5, <2>7, <3>1 DEF CountOK
  <2>9. ASSUME NEW t \in Int PROVE Held(g, t) = 0
    <3>1. CASE fn = "vhist16"
      <4>1. CounterPlaces(fn) = 0 .. 15
        BY <3>1 DEF CounterPlaces
      <4>2. Held(g, t) = Held16(acc, {}, t)
        BY Zenon, <1>4, <2>4, <3>1 DEF Held
      <4>3. t \in 0 .. 15 => acc[t] = 0 /\ Ones16({}, t) = 0
        BY Zenon, <2>5, <4>1, PopcntEmpty
      <4>4. Held16(acc, {}, t) = 0
        BY <4>3 DEF Held16
      <4> QED BY Zenon, <4>2, <4>4
    <3>2. CASE fn # "vhist16"
      <4>1. CounterPlaces(fn) = 0 .. 31
        BY <3>2 DEF CounterPlaces
      <4>2. Held(g, t) = Held32(acc, {}, {}, t)
        BY Zenon, <1>4, <2>4, <3>2 DEF Held
      <4>3. t \in 0 .. 31 => acc[t] = 0 /\ Ones32({}, t) = 0
        BY Zenon, <2>5, <4>1, PopcntEmpty
      <4>4. Held32(acc, {}, {}, t) = 0
        BY <4>3 DEF Held32
      <4> QED BY Zenon, <4>2, <4>4
    <3> QED BY <3>1, <3>2
  <2>10. ASSUME NEW t \in Int PROVE Work(g, t) = Occ(src, Class(Size(fn), t))
    <3>1. PICK o : o = Occ(src, Class(Size(fn), t))
      BY Zenon
    <3>2. Work(g, t) = o + 0 /\ o \in Nat
      BY Zenon, <1>2, <2>4, <2>9, <3>1 DEF Work
    <3> QED BY <3>1, <3>2
  <2> QED BY Zenon, <2>4, <2>8, <2>10 DEF OK
<1> QED BY <1>3, <1>4

-----------------------------------------------------------------------------
(* The functions that run.                                                 *)

Fine == {f \in CountFrames \union DivideFrames : OK(f)}

\* What f will have added to the counter of symbol s, and all of them.
Owed(f, s) == Work(f, s - f.base)
Part(fr, k, s) == IF k <= Len(fr) THEN Owed(fr[k], s) ELSE 0
Total(fr, s) == Part(fr, 1, s) + Part(fr, 2, s) + Part(fr, 3, s) + Part(fr, 4, s)

\* Each function but the outermost, fn, has been called by the next.
Stack(fr, fn) ==
    /\ fr \in Seq(Fine)
    /\ \A k \in 1 .. Len(fr) - 1 :
         fr[k + 1].fn \in Dividers /\ fr[k].fn = Divider(fr[k + 1].fn).callee
    /\ Len(fr) >= 1 => /\ Rank(fr[1].fn) + Len(fr) <= 5
                       /\ fr[Len(fr)].fn = fn /\ fr[Len(fr)].base = 0

LEMMA FineFacts ==
    ASSUME NEW f
    PROVE  /\ f \in Fine <=> OK(f)
           /\ OK(f) => /\ f.fn \in Counters \union Dividers /\ f.base \in Nat
                       /\ f.base + Size(f.fn) <= 256 /\ f.src \in Seq(Bytes)
                       /\ f.padding \in Short
                       /\ \A s \in Int : Owed(f, s) \in Int
<1>1. f \in Fine <=> OK(f)
  BY DEF Fine, OK, CountOK, DivideOK
<1>2. ASSUME OK(f)
      PROVE  /\ f.fn \in Counters \union Dividers /\ f.base \in Nat
             /\ f.base + Size(f.fn) <= 256 /\ f.src \in Seq(Bytes) /\ f.padding \in Short
  <2>1. CASE CountOK(f)
    BY <2>1, CountFields
  <2>2. CASE DivideOK(f)
    BY <2>2, DivideFields DEF DivideOK
  <2> QED BY <1>2, <2>1, <2>2 DEF OK
<1>3. ASSUME OK(f), NEW s \in Int PROVE Owed(f, s) \in Int
  <2>1. s - f.base \in Int
    BY <1>2, <1>3
  <2> QED BY <1>3, <2>1, WorkType DEF Owed
<1> QED BY <1>1, <1>2, <1>3

\* One function more: new is g on top of t.
Tops(new, g, t) == t \in Seq(Fine) /\ Len(t) <= 3 /\ g \in Fine /\ new = <<g>> \o t

LEMMA OneMore ==
    ASSUME NEW t, NEW g, NEW new, Tops(new, g, t)
    PROVE  /\ new \in Seq(Fine) /\ Len(t) \in Nat /\ Len(new) = Len(t) + 1
           /\ new[1] = g /\ new # << >> /\ Head(new) = g /\ Tail(new) = t
           /\ \A k \in 1 .. Len(t) : new[k + 1] = t[k]
           /\ \A s \in Int : /\ Total(new, s) = Owed(g, s) + Total(t, s)
                             /\ Owed(g, s) \in Int /\ Total(t, s) \in Int
<1>0. t \in Seq(Fine) /\ Len(t) <= 3 /\ g \in Fine /\ new = <<g>> \o t
  BY Zenon DEF Tops
<1> USE <1>0
<1>1. <<g>> \in Seq(Fine) /\ Len(<<g>>) = 1 /\ <<g>>[1] = g
  OBVIOUS
<1>2. /\ <<g>> \o t \in Seq(Fine) /\ Len(<<g>> \o t) = 1 + Len(t)
      /\ \A i \in 1 .. 1 + Len(t) : (<<g>> \o t)[i] = IF i <= 1 THEN <<g>>[i] ELSE t[i - 1]
  BY ONLY <1>1, t \in Seq(Fine), ConcatProperties
<1>3. Len(t) \in Nat /\ new \in Seq(Fine) /\ Len(new) = Len(t) + 1
      /\ \A i \in 1 .. Len(t) + 1 : new[i] = IF i <= 1 THEN <<g>>[i] ELSE t[i - 1]
  <2>1. Len(t) \in Nat
    BY LenProperties
  <2>2. 1 + Len(t) = Len(t) + 1
    BY ONLY <2>1
  <2> QED BY Zenon, <1>2, <2>1, <2>2
<1>4. new[1] = g /\ \A k \in 1 .. Len(t) : new[k + 1] = t[k]
  BY ONLY <1>1, <1>3
<1>5. \A k \in 1 .. 4 : k <= Len(t) => t[k] \in Fine
  BY ONLY <1>3, t \in Seq(Fine), ElementOfSeq
<1>6. ASSUME NEW s \in Int
      PROVE  /\ Total(new, s) = Owed(g, s) + Total(t, s)
             /\ Owed(g, s) \in Int /\ Total(t, s) \in Int
  <2>1. Owed(g, s) \in Int
    BY FineFacts
  <2>2. \A k \in 1 .. 4 : Part(t, k, s) \in Int
    <3>1. \A k \in 1 .. 4 : k <= Len(t) => Owed(t[k], s) \in Int
      BY ONLY <1>5, s \in Int, FineFacts
    <3> QED BY <3>1 DEF Part
  <2>3. Part(new, 1, s) = Owed(g, s)
    <3>1. 1 <= Len(new)
      BY <1>3
    <3> QED BY Zenon, <1>4, <3>1 DEF Part
  <2>4. \A k \in 1 .. 3 : Part(new, k + 1, s) = Part(t, k, s)
    BY ONLY <1>3, <1>4 DEF Part
  <2>5. Part(t, 4, s) = 0
    <3>1. ~ (4 <= Len(t))
      BY ONLY <1>3, Len(t) <= 3
    <3> QED BY Zenon, <3>1 DEF Part
  <2>6. PICK a, b, c, d : /\ a = Owed(g, s) /\ b = Part(t, 1, s) /\ c = Part(t, 2, s)
                          /\ d = Part(t, 3, s)
    BY Zenon
  <2>7. a \in Int /\ b \in Int /\ c \in Int /\ d \in Int
    BY <2>1, <2>2, <2>6
  <2>8. Part(new, 2, s) = b /\ Part(new, 3, s) = c /\ Part(new, 4, s) = d
    BY <2>4, <2>6
  <2>9. Total(new, s) = a + b + c + d /\ Total(t, s) = b + c + d + 0
    BY Zenon, <2>3, <2>5, <2>6, <2>8 DEF Total
  <2>10. a + b + c + d = a + (b + c + d + 0) /\ b + c + d + 0 \in Int
    BY ONLY <2>7
  <2> QED BY Zenon, <2>1, <2>6, <2>9, <2>10
<1>7. new # << >>
  BY <1>3, EmptySeq
<1>8. Head(new) = g
  BY ONLY <1>3, <1>4, <1>7
<1>9. Tail(new) = t
  <2>1. /\ Tail(new) \in Seq(Fine) /\ Len(Tail(new)) = Len(new) - 1
        /\ \A i \in 1 .. Len(Tail(new)) : Tail(new)[i] = new[i + 1]
    BY ONLY <1>3, <1>7, HeadTailProperties
  <2>2. Len(Tail(new)) = Len(t) /\ \A i \in 1 .. Len(t) : Tail(new)[i] = t[i]
    BY ONLY <1>3, <1>4, <2>1
  <2>3. PICK u : u = Tail(new)
    BY Zenon
  <2>4. u \in Seq(Fine) /\ Len(u) = Len(t) /\ \A i \in 1 .. Len(u) : u[i] = t[i]
    BY Zenon, <2>1, <2>2, <2>3
  <2>5. u = t
    BY ONLY <2>4, t \in Seq(Fine), SeqEqual
  <2> QED BY Zenon, <2>3, <2>5
<1> QED BY Zenon, <1>3, <1>4, <1>6, <1>7, <1>8, <1>9

\* What a function will have added, less at most its padding.
LEMMA OwedBound ==
    ASSUME NEW f \in Fine, NEW s \in Int
    PROVE  Owed(f, s) \in Int /\ Owed(f, s) + 63 >= 0
<1>1. OK(f) /\ f.base \in Nat
  BY FineFacts
<1>2. PICK t : t = s - f.base
  OBVIOUS
<1>3. t \in Int
  BY <1>1, <1>2
<1>4. Owed(f, s) = Work(f, t)
  BY Zenon, <1>2 DEF Owed
<1> QED BY Zenon, <1>1, <1>3, <1>4, WorkType, WorkBound

LEMMA Parts ==
    ASSUME NEW t, NEW g, NEW new, Tops(new, g, t), NEW s \in Int
    PROVE  /\ Part(new, 1, s) = Owed(g, s) /\ Part(new, 2, s) = Part(t, 1, s)
           /\ Part(new, 3, s) = Part(t, 2, s) /\ Part(new, 4, s) = Part(t, 3, s)
           /\ Part(t, 4, s) = 0
           /\ \A k \in 1 .. 4 : Part(t, k, s) \in Int /\ Part(t, k, s) + 63 >= 0
<1>1. t \in Seq(Fine) /\ Len(t) <= 3
  BY Zenon DEF Tops
<1>2. /\ Len(t) \in Nat /\ Len(new) = Len(t) + 1 /\ new[1] = g
      /\ \A k \in 1 .. Len(t) : new[k + 1] = t[k]
  BY OneMore
<1>3. Part(new, 1, s) = Owed(g, s)
  <2>1. 1 <= Len(new)
    BY ONLY <1>2
  <2> QED BY Zenon, <1>2, <2>1 DEF Part
<1>4. \A k \in 1 .. 3 : Part(new, k + 1, s) = Part(t, k, s)
  BY ONLY <1>2 DEF Part
<1>5. Part(t, 4, s) = 0
  <2>1. ~ (4 <= Len(t))
    BY ONLY <1>1, <1>2
  <2> QED BY Zenon, <2>1 DEF Part
<1>6. ASSUME NEW k \in 1 .. 4 PROVE Part(t, k, s) \in Int /\ Part(t, k, s) + 63 >= 0
  <2>1. CASE k <= Len(t)
    <3>1. t[k] \in Fine
      BY ONLY <1>1, <1>2, <2>1, k \in 1 .. 4, ElementOfSeq
    <3>2. Part(t, k, s) = Owed(t[k], s)
      BY Zenon, <2>1 DEF Part
    <3> QED BY Zenon, <3>1, <3>2, OwedBound
  <2>2. CASE ~ (k <= Len(t))
    <3>1. Part(t, k, s) = 0
      BY Zenon, <2>2 DEF Part
    <3> QED BY <3>1
  <2> QED BY <2>1, <2>2
<1>7. Part(new, 2, s) = Part(t, 1, s) /\ Part(new, 3, s) = Part(t, 2, s)
      /\ Part(new, 4, s) = Part(t, 3, s)
  BY <1>4
<1> QED BY Zenon, <1>3, <1>5, <1>6, <1>7

\* The innermost function and the others.
LEMMA Innermost ==
    ASSUME NEW fr, NEW fn, Stack(fr, fn), fr # << >>
    PROVE  /\ Head(fr) \in Fine /\ OK(Head(fr)) /\ Tail(fr) \in Seq(Fine) /\ Len(Tail(fr)) <= 3
           /\ fr = <<Head(fr)>> \o Tail(fr)
<1>1. fr \in Seq(Fine) /\ Len(fr) \in Nat /\ Len(fr) >= 1
  BY EmptySeq DEF Stack
<1>2. /\ Head(fr) \in Fine /\ Tail(fr) \in Seq(Fine) /\ Len(Tail(fr)) = Len(fr) - 1
      /\ \A i \in 1 .. Len(Tail(fr)) : Tail(fr)[i] = fr[i + 1]
  BY <1>1, HeadTailProperties
<1>3. fr[1] \in Fine
  BY <1>1, ElementOfSeq
<1>4. Rank(fr[1].fn) \in 1 .. 4
  <2>1. fr[1].fn \in Counters \union Dividers
    BY <1>3, FineFacts
  <2> QED BY ONLY <2>1, Ranks
<1>5. Len(fr) <= 4
  BY <1>1, <1>4 DEF Stack
<1>6. Head(fr) = fr[1]
  BY <1>1
<1>7. fr = <<Head(fr)>> \o Tail(fr)
  <2>1. PICK g, t, new : g = Head(fr) /\ t = Tail(fr) /\ new = <<g>> \o t
    BY Zenon
  <2>2. g \in Fine /\ t \in Seq(Fine) /\ Len(t) <= 3 /\ Len(t) = Len(fr) - 1
    BY <1>1, <1>2, <1>5, <2>1
  <2>3. /\ new \in Seq(Fine) /\ Len(t) \in Nat /\ Len(new) = Len(t) + 1 /\ new[1] = g
        /\ \A k \in 1 .. Len(t) : new[k + 1] = t[k]
    <3>1. Tops(new, g, t)
      BY Zenon, <2>1, <2>2 DEF Tops
    <3> QED BY ONLY <3>1, OneMore
  <2>4. Len(new) = Len(fr)
    BY ONLY <1>1, <2>2, <2>3
  <2>5. \A k \in 1 .. Len(t) : t[k] = fr[k + 1]
    BY Zenon, <1>2, <2>1
  <2>6. ASSUME NEW i \in 1 .. Len(fr) PROVE new[i] = fr[i]
    <3>1. CASE i = 1
      BY Zenon, <1>6, <2>1, <2>3, <3>1
    <3>2. CASE i # 1
      <4>1. i - 1 \in 1 .. Len(t) /\ (i - 1) + 1 = i
        BY <1>1, <2>2, <2>3, <3>2
      <4> QED BY Zenon, <2>3, <2>5, <4>1
    <3> QED BY <3>1, <3>2
  <2>7. new = fr
    BY ONLY <1>1, <2>3, <2>4, <2>6, SeqEqual
  <2> QED BY Zenon, <2>1, <2>7
<1>8. Len(Tail(fr)) <= 3
  BY <1>1, <1>2, <1>5
<1> QED BY <1>2, <1>7, <1>8, FineFacts

\* What g on top of t must be.
Fits(g, t, fn) ==
    /\ Rank(g.fn) + Len(t) <= 4
    /\ Len(t) = 0 => g.fn = fn /\ g.base = 0
    /\ Len(t) >= 1 => /\ Stack(t, fn) /\ t[1].fn \in Dividers
                      /\ g.fn = Divider(t[1].fn).callee

LEMMA StackOf ==
    ASSUME NEW t, NEW g, NEW new, NEW fn, Tops(new, g, t)
    PROVE  Stack(new, fn) <=> Fits(g, t, fn)
<1>0. t \in Seq(Fine) /\ Len(t) <= 3 /\ g \in Fine /\ new = <<g>> \o t
  BY Zenon DEF Tops
<1>1. /\ new \in Seq(Fine) /\ Len(t) \in Nat /\ Len(new) = Len(t) + 1 /\ new[1] = g
      /\ \A k \in 1 .. Len(t) : new[k + 1] = t[k]
  BY OneMore
<1>2. PICK n : n = Len(t)
  BY Zenon
<1>3. n \in Nat /\ Len(new) = n + 1 /\ \A k \in 1 .. n : new[k + 1] = t[k]
  BY Zenon, <1>1, <1>2
<1>4. n >= 1 => new[n + 1] = t[n] /\ new[2] = t[1] /\ new[1 + 1] = t[1]
  BY ONLY <1>3
<1>5. Rank(g.fn) \in Int
  <2>1. g.fn \in Counters \union Dividers
    BY <1>0, FineFacts
  <2>2. Rank(g.fn) \in 1 .. 4
    BY ONLY <2>1, Ranks
  <2> QED BY <2>2
<1>6. ASSUME Stack(new, fn)
      PROVE  /\ Rank(g.fn) + n <= 4
             /\ n = 0 => g.fn = fn /\ g.base = 0
             /\ n >= 1 => /\ Stack(t, fn) /\ t[1].fn \in Dividers
                          /\ g.fn = Divider(t[1].fn).callee
  <2>1. /\ \A k \in 1 .. n : new[k + 1].fn \in Dividers
                              /\ new[k].fn = Divider(new[k + 1].fn).callee
        /\ Rank(g.fn) + (n + 1) <= 5 /\ new[n + 1].fn = fn /\ new[n + 1].base = 0
    <3>1. 1 .. Len(new) - 1 = 1 .. n /\ Len(new) >= 1
      BY <1>3
    <3> QED BY Zenon, <1>1, <1>3, <1>6, <3>1 DEF Stack
  <2>2. Rank(g.fn) + n <= 4
    BY ONLY <1>3, <1>5, <2>1
  <2>3. n = 0 => g.fn = fn /\ g.base = 0
    <3>1. n = 0 => n + 1 = 1
      OBVIOUS
    <3> QED BY Zenon, <1>1, <2>1, <3>1
  <2>4. ASSUME n >= 1
        PROVE  Stack(t, fn) /\ t[1].fn \in Dividers /\ g.fn = Divider(t[1].fn).callee
    <3>1. 1 \in 1 .. n
      BY <1>3, <2>4
    <3>2. t[1].fn \in Dividers /\ g.fn = Divider(t[1].fn).callee
      BY Zenon, <1>1, <1>4, <2>1, <2>4, <3>1
    <3>3. ASSUME NEW k \in 1 .. n - 1
          PROVE  t[k + 1].fn \in Dividers /\ t[k].fn = Divider(t[k + 1].fn).callee
      <4>1. k \in 1 .. n /\ k + 1 \in 1 .. n
        BY <1>3
      <4>2. new[k + 1] = t[k] /\ new[(k + 1) + 1] = t[k + 1]
        BY Zenon, <1>3, <4>1
      <4> QED BY Zenon, <2>1, <4>1, <4>2
    <3>4. Rank(t[1].fn) = Rank(g.fn) + 1
      BY Zenon, <3>2, Halves
    <3>5. Rank(t[1].fn) + n <= 5
      BY ONLY <1>3, <1>5, <2>1, <3>4
    <3>6. t[n].fn = fn /\ t[n].base = 0
      BY Zenon, <1>4, <2>1, <2>4
    <3>7. Stack(t, fn)
      BY Zenon, <1>0, <1>2, <3>3, <3>5, <3>6 DEF Stack
    <3> QED BY Zenon, <3>2, <3>7
  <2> QED BY Zenon, <2>2, <2>3, <2>4
<1>7. ASSUME /\ Rank(g.fn) + n <= 4
             /\ n = 0 => g.fn = fn /\ g.base = 0
             /\ n >= 1 => /\ Stack(t, fn) /\ t[1].fn \in Dividers
                          /\ g.fn = Divider(t[1].fn).callee
      PROVE  Stack(new, fn)
  <2>1. ASSUME NEW k \in 1 .. n
        PROVE  new[k + 1].fn \in Dividers /\ new[k].fn = Divider(new[k + 1].fn).callee
    <3>1. n >= 1
      BY <1>3
    <3>2. CASE k = 1
      BY Zenon, <1>1, <1>4, <1>7, <3>1, <3>2
    <3>3. CASE k # 1
      <4>1. k - 1 \in 1 .. n - 1 /\ k - 1 \in 1 .. n /\ (k - 1) + 1 = k
        BY <1>3, <3>3
      <4>2. t[k].fn \in Dividers /\ t[k - 1].fn = Divider(t[k].fn).callee
        BY Zenon, <1>2, <1>7, <3>1, <4>1 DEF Stack
      <4>3. new[k + 1] = t[k] /\ new[k] = t[k - 1]
        BY Zenon, <1>3, <4>1
      <4> QED BY Zenon, <4>2, <4>3
    <3> QED BY <3>2, <3>3
  <2>2. Rank(new[1].fn) + Len(new) <= 5
    <3>1. Rank(g.fn) + (n + 1) <= 5
      BY <1>3, <1>5, <1>7
    <3> QED BY Zenon, <1>1, <1>3, <3>1
  <2>3. new[Len(new)].fn = fn /\ new[Len(new)].base = 0
    <3>1. CASE n = 0
      <4>1. Len(new) = 1
        BY <1>3, <3>1
      <4> QED BY Zenon, <1>1, <1>7, <3>1, <4>1
    <3>2. CASE n # 0
      <4>1. n >= 1
        BY <1>3, <3>2
      <4> QED BY Zenon, <1>2, <1>3, <1>4, <1>7, <4>1 DEF Stack
    <3> QED BY <3>1, <3>2
  <2>4. 1 .. Len(new) - 1 = 1 .. n
    BY <1>3
  <2> QED BY Zenon, <1>1, <2>1, <2>2, <2>3, <2>4 DEF Stack
<1> QED BY Zenon, <1>2, <1>6, <1>7 DEF Fits

\* The innermost function goes on, ...
Advances(fr, fn, g, new) ==
    /\ Stack(fr, fn) /\ fr # << >> /\ g \in Fine
    /\ g.fn = Head(fr).fn /\ g.base = Head(fr).base /\ new = <<g>> \o Tail(fr)

LEMMA Continued ==
    ASSUME NEW fr, NEW fn, NEW g, NEW new, Advances(fr, fn, g, new)
    PROVE  /\ Stack(new, fn) /\ new # << >> /\ Head(new) = g /\ Tail(new) = Tail(fr)
           /\ \A s \in Int : Total(new, s) = Total(fr, s) + (Owed(g, s) - Owed(Head(fr), s))
<1>0. /\ Stack(fr, fn) /\ fr # << >> /\ g \in Fine
      /\ g.fn = Head(fr).fn /\ g.base = Head(fr).base /\ new = <<g>> \o Tail(fr)
  BY Zenon DEF Advances
<1> USE <1>0
<1>1. PICK h, t : h = Head(fr) /\ t = Tail(fr)
  BY Zenon
<1>2. Tops(fr, h, t) /\ Tops(new, g, t)
  BY Zenon, <1>1, Innermost DEF Tops
<1>3. Stack(new, fn)
  <2>1. Fits(h, t, fn)
    BY <1>2, StackOf
  <2>2. Fits(g, t, fn)
    BY Zenon, <1>1, <2>1 DEF Fits
  <2> QED BY <1>2, <2>2, StackOf
<1>4. new # << >> /\ Head(new) = g /\ Tail(new) = t
  BY ONLY <1>2, OneMore
<1>5. ASSUME NEW s \in Int PROVE Total(new, s) = Total(fr, s) + (Owed(g, s) - Owed(h, s))
  <2>1. PICK a, b, c : a = Owed(g, s) /\ b = Owed(h, s) /\ c = Total(t, s)
    BY Zenon
  <2>2. a \in Int /\ c \in Int /\ Total(new, s) = a + c
    BY ONLY <1>2, <2>1, s \in Int, OneMore
  <2>3. b \in Int /\ Total(fr, s) = b + c
    BY ONLY <1>2, <2>1, s \in Int, OneMore
  <2>4. a + c = (b + c) + (a - b)
    BY ONLY <2>2, <2>3
  <2> QED BY Zenon, <2>1, <2>2, <2>3, <2>4
<1> QED BY Zenon, <1>1, <1>3, <1>4, <1>5

\* ... calls another one ...
Descends(fr, fn, c, new) ==
    /\ Stack(fr, fn) /\ fr # << >> /\ c \in Fine
    /\ Head(fr).fn \in Dividers /\ c.fn = Divider(Head(fr).fn).callee /\ new = <<c>> \o fr

LEMMA Called ==
    ASSUME NEW fr, NEW fn, NEW c, NEW new, Descends(fr, fn, c, new)
    PROVE  /\ Stack(new, fn) /\ new # << >> /\ Tops(new, c, fr)
           /\ \A s \in Int : Total(new, s) = Total(fr, s) + Owed(c, s)
<1>0. /\ Stack(fr, fn) /\ fr # << >> /\ c \in Fine
      /\ Head(fr).fn \in Dividers /\ c.fn = Divider(Head(fr).fn).callee /\ new = <<c>> \o fr
  BY Zenon DEF Descends
<1> USE <1>0
<1>1. fr \in Seq(Fine) /\ Len(fr) \in Nat /\ Len(fr) >= 1 /\ fr[1] = Head(fr)
  BY EmptySeq DEF Stack
<1>2. Rank(Head(fr).fn) = Rank(c.fn) + 1 /\ Rank(c.fn) \in 1 .. 4
  <2>1. c.fn \in Counters \union Dividers
    BY FineFacts
  <2> QED BY <2>1, Halves, Ranks
<1>3. Rank(Head(fr).fn) + Len(fr) <= 5
  BY Zenon, <1>1 DEF Stack
<1>4. Len(fr) <= 3 /\ Rank(c.fn) + Len(fr) <= 4 /\ ~ (Len(fr) = 0)
  BY ONLY <1>1, <1>2, <1>3
<1>5. Tops(new, c, fr) /\ Fits(c, fr, fn)
  <2>1. Len(fr) >= 1 => fr[1].fn \in Dividers /\ c.fn = Divider(fr[1].fn).callee
    BY Zenon, <1>1
  <2> QED BY Zenon, <1>1, <1>4, <2>1 DEF Tops, Fits
<1>6. Stack(new, fn) /\ new # << >>
  BY ONLY <1>5, StackOf, OneMore
<1>7. ASSUME NEW s \in Int PROVE Total(new, s) = Total(fr, s) + Owed(c, s)
  <2>1. PICK a, b : a = Owed(c, s) /\ b = Total(fr, s)
    BY Zenon
  <2>2. a \in Int /\ b \in Int /\ Total(new, s) = a + b
    BY ONLY <1>5, <2>1, s \in Int, OneMore
  <2>3. a + b = b + a
    BY ONLY <2>2
  <2> QED BY Zenon, <2>1, <2>2, <2>3
<1> QED BY Zenon, <1>5, <1>6, <1>7

\* ... or returns.
LEMMA Returned ==
    ASSUME NEW fr, NEW fn, Stack(fr, fn), fr # << >>
    PROVE  /\ Stack(Tail(fr), fn)
           /\ \A s \in Int : Total(fr, s) = Owed(Head(fr), s) + Total(Tail(fr), s)
           /\ Tail(fr) = << >> => Head(fr).fn = fn /\ Head(fr).base = 0
           /\ Tail(fr) # << >> => Head(fr).fn \in {"__vhist32"} \union Dividers /\ fn \in Dividers
<1>1. PICK h, t : h = Head(fr) /\ t = Tail(fr)
  BY Zenon
<1>2. h \in Fine /\ t \in Seq(Fine) /\ Len(t) <= 3 /\ Tops(fr, h, t)
  BY Zenon, <1>1, Innermost DEF Tops
<1>3. /\ Len(t) = 0 => h.fn = fn /\ h.base = 0
      /\ Len(t) >= 1 => /\ Stack(t, fn) /\ t[1].fn \in Dividers
                        /\ h.fn = Divider(t[1].fn).callee
  <2>1. Fits(h, t, fn)
    BY ONLY <1>2, Stack(fr, fn), StackOf
  <2> QED BY Zenon, <2>1 DEF Fits
<1>4. \A s \in Int : Total(fr, s) = Owed(h, s) + Total(t, s)
  BY ONLY <1>2, OneMore
<1>5. CASE t = << >>
  <2>1. Len(t) = 0
    BY <1>5, EmptySeq
  <2>2. Stack(t, fn)
    BY <1>2, <2>1 DEF Stack
  <2> QED BY Zenon, <1>1, <1>3, <1>4, <1>5, <2>1, <2>2
<1>6. CASE t # << >>
  <2>1. Len(t) >= 1 /\ Len(t) \in Nat
    BY <1>2, <1>6, EmptySeq
  <2>2. h.fn \in {"__vhist32"} \union Dividers
    BY Zenon, <1>3, <2>1, Halves
  <2>3. fn \in Dividers
    <3>1. PICK n, m : n = Len(fr) /\ m = Len(t)
      BY Zenon
    <3>2. n = m + 1 /\ m \in Nat /\ m >= 1
      BY ONLY <1>2, <2>1, <3>1, OneMore
    <3>3. m \in 1 .. n - 1 /\ m + 1 = n /\ n >= 1
      BY ONLY <3>2
    <3> QED BY Zenon, <3>1, <3>3 DEF Stack
  <2> QED BY Zenon, <1>1, <1>3, <1>4, <1>6, <2>1, <2>2, <2>3
<1> QED BY <1>5, <1>6

-----------------------------------------------------------------------------
(* Every step keeps what is counted and what is owed in balance.           *)

\* These two set the counters of their symbols; the others add to them.
Setters == {"vhist16", "vhist32"}
Kept(fn, k, s) == IF fn \in Setters /\ s \in SymbolsOf(fn) THEN 0 ELSE k[s]

\* The value the counter of s must have in the end, and what it stands for now.
Expected(c, s) == IF s \in SymbolsOf(c.fn) THEN Occ(c.src, {s}) ELSE Unset
Standing(c, k, fr, s) == IF fr = << >> THEN k[s] ELSE Kept(c.fn, k, s)
Balanced(c, k, fr, s) ==
    (Standing(c, k, fr, s) + Total(fr, s)) - Expected(c, s) \in Slack(c.fn)

\* Whatever functions return, the innermost ones first: what they padded has
\* been counted before it is subtracted.
Covered(c, k, fr, s) ==
    /\ Standing(c, k, fr, s) + Part(fr, 1, s) >= 0
    /\ Standing(c, k, fr, s) + Part(fr, 1, s) + Part(fr, 2, s) >= 0
    /\ Standing(c, k, fr, s) + Part(fr, 1, s) + Part(fr, 2, s) + Part(fr, 3, s) >= 0

Settled(c, k, fr) == \A s \in Bytes : Balanced(c, k, fr, s) /\ Covered(c, k, fr, s)

HistHolds(c, k, fr, st) ==
    /\ c \in HistInputs /\ k \in [Bytes -> Residues] /\ st \in {"call", "run", "return"}
    /\ st # "run" => fr = << >>
    /\ st = "call" => k = [s \in Bytes |-> Unset]
    /\ Stack(fr, c.fn)
    /\ st # "call" /\ HasRoom(c) => Settled(c, k, fr)

\* The strengthening of HistTypeOK, StoresFit and Counted.
HistInv == HistHolds(call, counts, frames, calls)

\* A call of the program.
LEMMA InputFacts ==
    ASSUME NEW c \in HistInputs
    PROVE  /\ c.fn \in Counters \union Dividers /\ c.src \in Seq(Bytes)
           /\ c.src \in Seq(SymbolsOf(c.fn))
           /\ SymbolsOf(c.fn) = 0 .. Size(c.fn) - 1 /\ SymbolsOf(c.fn) \in SUBSET Bytes
           /\ c.fn \in Dividers => Zeroed(c.fn) = SymbolsOf(c.fn)
           /\ c.fn \in Counters => c.fn \in Setters /\ Zeroed(c.fn) = {}
<1>1. PICK fn, src : fn = c.fn /\ src = c.src
  BY Zenon
<1>2. fn \in (Counters \union Dividers) \ {"__vhist32"} /\ src \in Seq(SymbolsOf(fn))
  BY Zenon, <1>1, HistInputAssumption
<1>3. fn \in {"vhist16", "vhist32", "vhist64", "vhist64t", "vhist128", "vhist128t", "vhist256"}
  BY ONLY <1>2 DEF Counters, Dividers
<1>4. /\ SymbolsOf("vhist16") = 0 .. 15 /\ SymbolsOf("vhist32") = 0 .. 31
      /\ SymbolsOf("vhist64") = 0 .. 63 /\ SymbolsOf("vhist64t") = 0 .. 63
      /\ SymbolsOf("vhist128") = 0 .. 127 /\ SymbolsOf("vhist128t") = 0 .. 127
      /\ SymbolsOf("vhist256") = 0 .. 255
  BY DEF SymbolsOf, Symbols64, Bytes
<1>5. /\ Size("vhist16") = 16 /\ Size("vhist32") = 32
      /\ Size("vhist64") = 64 /\ Size("vhist64t") = 64
      /\ Size("vhist128") = 128 /\ Size("vhist128t") = 128 /\ Size("vhist256") = 256
  BY DEF Size, Dividers, Divider, Vhist64, Vhist64t, Vhist128, Vhist128t, Vhist256
<1>6. SymbolsOf(fn) = 0 .. Size(fn) - 1
  <2> DEFINE P(f) == SymbolsOf(f) = 0 .. Size(f) - 1
  <2>1. /\ 0 .. 15 = 0 .. 16 - 1 /\ 0 .. 31 = 0 .. 32 - 1 /\ 0 .. 63 = 0 .. 64 - 1
        /\ 0 .. 127 = 0 .. 128 - 1 /\ 0 .. 255 = 0 .. 256 - 1
    OBVIOUS
  <2>2. P("vhist16") /\ P("vhist32")
    BY <1>4, <1>5, <2>1
  <2>3. P("vhist64") /\ P("vhist64t")
    BY <1>4, <1>5, <2>1
  <2>4. P("vhist128") /\ P("vhist128t") /\ P("vhist256")
    BY <1>4, <1>5, <2>1
  <2>5. P(fn)
    <3> HIDE DEF P
    <3> QED BY ONLY <1>3, <2>2, <2>3, <2>4
  <2> QED BY <2>5
<1>7. SymbolsOf(fn) \in SUBSET Bytes
  BY ONLY <1>3, <1>4 DEF Bytes
<1>8. src \in Seq(Bytes)
  BY ONLY <1>2, <1>7, SeqMonotonic
<1>9. fn \in Dividers => Zeroed(fn) = SymbolsOf(fn)
  <2> DEFINE P(f) == Zeroed(f) = SymbolsOf(f)
  <2>2. UNION {k .. k + 31 : k \in {0, 32}} = 0 .. 63
    OBVIOUS
  <2>3. UNION {k .. k + 31 : k \in {0, 32, 64, 96}} = 0 .. 127
    OBVIOUS
  <2>4. UNION {k .. k + 31 : k \in {0, 32, 64, 96, 128, 160, 192, 224}} = 0 .. 255
    OBVIOUS
  <2>5. Zeroed("vhist64") = UNION {k .. k + 31 : k \in {0, 32}}
    BY DEF Zeroed
  <2>6. Zeroed("vhist64t") = UNION {k .. k + 31 : k \in {0, 32}}
    BY DEF Zeroed
  <2>7. Zeroed("vhist128") = UNION {k .. k + 31 : k \in {0, 32, 64, 96}}
    BY DEF Zeroed
  <2>8. Zeroed("vhist128t") = UNION {k .. k + 31 : k \in {0, 32, 64, 96}}
    BY DEF Zeroed
  <2>9. Zeroed("vhist256") = UNION {k .. k + 31 : k \in {0, 32, 64, 96, 128, 160, 192, 224}}
    BY DEF Zeroed
  <2>10. fn \in Dividers => fn \in {"vhist64", "vhist64t", "vhist128", "vhist128t", "vhist256"}
    BY DEF Dividers
  <2>11. P("vhist64") /\ P("vhist64t")
    BY ONLY <1>4, <2>2, <2>5, <2>6
  <2>12. P("vhist128") /\ P("vhist128t")
    BY ONLY <1>4, <2>3, <2>7, <2>8
  <2>13. P("vhist256")
    BY ONLY <1>4, <2>4, <2>9
  <2>14. fn \in Dividers => P(fn)
    <3> HIDE DEF P
    <3> QED BY ONLY <2>10, <2>11, <2>12, <2>13
  <2> QED BY <2>14
<1>10. fn \in Counters => fn \in Setters
  BY ONLY <1>2 DEF Counters, Setters
<1>11. fn \in Setters => Zeroed(fn) = {}
  BY DEF Setters, Zeroed
<1> QED BY Zenon, <1>1, <1>2, <1>6, <1>7, <1>8, <1>9, <1>10, <1>11

LEMMA TotalType ==
    /\ \A s : Total(<< >>, s) = 0
    /\ \A fr, fn : Stack(fr, fn) => \A s \in Int : Total(fr, s) \in Int
<1>1. \A s : Total(<< >>, s) = 0
  <2>1. Len(<< >>) = 0 /\ \A k \in 1 .. 4 : ~ (k <= 0)
    BY EmptySeq
  <2>2. \A k \in 1 .. 4 : \A s : Part(<< >>, k, s) = 0
    BY Zenon, <2>1 DEF Part
  <2>3. 1 \in 1 .. 4 /\ 2 \in 1 .. 4 /\ 3 \in 1 .. 4 /\ 4 \in 1 .. 4 /\ 0 + 0 + 0 + 0 = 0
    OBVIOUS
  <2> QED BY Zenon, <2>2, <2>3 DEF Total
<1>2. ASSUME NEW fr, NEW fn, Stack(fr, fn), NEW s \in Int PROVE Total(fr, s) \in Int
  <2>1. CASE fr = << >>
    <3>1. Total(fr, s) = 0
      BY Zenon, <1>1, <2>1
    <3> QED BY <3>1
  <2>2. CASE fr # << >>
    <3>1. PICK h, t : Tops(fr, h, t)
      BY Zenon, <1>2, <2>2, Innermost DEF Tops
    <3>2. PICK a, b : a = Owed(h, s) /\ b = Total(t, s)
      BY Zenon
    <3>3. Total(fr, s) = a + b /\ a \in Int /\ b \in Int
      BY ONLY <3>1, <3>2, s \in Int, OneMore
    <3> QED BY <3>3
  <2> QED BY <2>1, <2>2
<1> QED BY Zenon, <1>1, <1>2

\* What is counted and owed are numbers.
LEMMA BalanceTypes ==
    ASSUME NEW c, NEW k, NEW fr, NEW st, HistHolds(c, k, fr, st), NEW s \in Bytes
    PROVE  /\ s \in Int /\ k[s] \in Residues /\ k[s] \in Int
           /\ Expected(c, s) \in Int /\ Total(fr, s) \in Int
           /\ \A fn : Kept(fn, k, s) \in Int
           /\ Standing(c, k, fr, s) \in Int
<1>1. c \in HistInputs /\ k \in [Bytes -> Residues] /\ Stack(fr, c.fn)
  BY Zenon DEF HistHolds
<1>2. s \in Int
  BY DEF Bytes
<1>3. \A r \in Residues : r \in Int
  BY DEF Residues
<1>4. k[s] \in Residues
  BY Zenon, <1>1
<1>5. k[s] \in Int /\ 0 \in Int
  BY <1>3, <1>4
<1>6. Expected(c, s) \in Int
  <2>1. c.src \in Seq(Bytes)
    BY <1>1, InputFacts
  <2>2. Occ(c.src, {s}) \in Int
    BY <2>1, OccType
  <2>3. Unset \in Int
    BY Reduced DEF Unset
  <2> QED BY Zenon, <2>2, <2>3 DEF Expected
<1>7. Total(fr, s) \in Int
  BY <1>1, <1>2, TotalType
<1>8. \A fn : Kept(fn, k, s) \in Int
  BY Zenon, <1>5 DEF Kept
<1>9. Standing(c, k, fr, s) \in Int
  BY Zenon, <1>5, <1>8 DEF Standing
<1> QED BY <1>2, <1>4, <1>5, <1>6, <1>7, <1>8, <1>9

\* The innermost function goes on: lines 100-131, 148-180, 190-222, 248-263
\* and 267-273.
Moves(c, k, fr, g, new) ==
    /\ HistHolds(c, k, fr, "run") /\ fr # << >>
    /\ Follows(Head(fr), g) /\ new = <<g>> \o Tail(fr)

\* The bounds of the value a counter must have in the end.
LEMMA ExpectedBound ==
    ASSUME NEW c \in HistInputs, NEW s \in Bytes
    PROVE  /\ Expected(c, s) \in Nat
           /\ HasRoom(c) /\ c.fn # "vhist16" => Expected(c, s) + 253 <= CounterLimit
<1>1. c.src \in Seq(Bytes)
  BY InputFacts
<1>2. PICK n, o, m, u : n = Len(c.src) /\ o = Occ(c.src, {s}) /\ m = CounterLimit /\ u = Unset
  BY Zenon
<1>3. n \in Nat /\ o \in Nat /\ o <= n
  BY ONLY <1>1, <1>2, LenProperties, OccType, OccBound
<1>4. m \in Nat /\ m > 0
  BY <1>2, LimitAssumption
<1>5. u = 3 % m
  BY Zenon, <1>2 DEF Unset
<1>6. u \in Nat /\ (m > 256 => u = 3)
  BY ONLY <1>4, <1>5
<1>7. HasRoom(c) /\ c.fn # "vhist16" => n + 4 * 64 < m
  BY Zenon, <1>2 DEF HasRoom
<1>8. Expected(c, s) = o \/ Expected(c, s) = u
  BY Zenon, <1>2 DEF Expected
<1>9. n + 4 * 64 < m => o + 253 <= m /\ u + 253 <= m
  BY ONLY <1>3, <1>4, <1>6
<1> QED BY Zenon, <1>2, <1>3, <1>6, <1>7, <1>8, <1>9

\* What is kept of a counter while functions run is what it stands for.
LEMMA Keeps ==
    ASSUME NEW c, NEW k, NEW fr, HistHolds(c, k, fr, "run"), fr # << >>,
           NEW f, f = Head(fr), NEW s \in Bytes
    PROVE  /\ Kept(f.fn, k, s) = Standing(c, k, fr, s)
           /\ Kept(f.fn, k, s) \in Int /\ Kept(f.fn, k, s) >= 0
           /\ f.fn = "vhist16" <=> c.fn = "vhist16"
<1>1. Stack(fr, c.fn) /\ k \in [Bytes -> Residues]
  BY Zenon DEF HistHolds
<1>2. /\ Tail(fr) = << >> => f.fn = c.fn
      /\ Tail(fr) # << >> => f.fn \in {"__vhist32"} \union Dividers /\ c.fn \in Dividers
  BY Zenon, <1>1, Returned
<1>3. \A d \in {"__vhist32"} \union Dividers : d \notin Setters /\ d # "vhist16"
  BY DEF Dividers, Setters
<1>4. Kept(c.fn, k, s) = Kept(f.fn, k, s) /\ (f.fn = "vhist16" <=> c.fn = "vhist16")
  BY Zenon, <1>2, <1>3 DEF Kept
<1>5. k[s] \in Int /\ k[s] >= 0 /\ 0 \in Int /\ 0 >= 0
  <2>1. \A r \in Residues : r \in Int /\ r >= 0
    BY DEF Residues
  <2>2. k[s] \in Residues
    BY Zenon, <1>1
  <2> QED BY <2>1, <2>2
<1>6. Kept(f.fn, k, s) \in Int /\ Kept(f.fn, k, s) >= 0
  BY Zenon, <1>5 DEF Kept
<1> QED BY Zenon, <1>4, <1>6 DEF Standing

\* With room no counter overflows, and no padding is subtracted too early.
Calm(k, f) ==
    f.fn # "vhist16" =>
        \A s \in Bytes : /\ Kept(f.fn, k, s) + Owed(f, s) >= 0
                          /\ Kept(f.fn, k, s) + Owed(f, s) + 63 < CounterLimit

LEMMA CalmIsLight ==
    ASSUME NEW k \in [Bytes -> Residues], NEW f \in Fine, Calm(k, f)
    PROVE  Light(f)
<1> SUFFICES ASSUME f.fn # "vhist16", NEW t \in Counter32
             PROVE  Work(f, t) + 63 < CounterLimit
  BY Zenon DEF Light
<1>1. PICK b, s, n : b = f.base /\ s = b + t /\ n = Size(f.fn)
  BY Zenon
<1>2. f.fn \in Counters \union Dividers /\ b \in Nat /\ b + n <= 256
  BY Zenon, <1>1, FineFacts
<1>3. n \in Int /\ n >= 32
  <2>1. n \in {16, 32, 64, 128, 256}
    BY ONLY <1>1, <1>2, Ranks
  <2>2. n # 16
    BY ONLY f.fn # "vhist16", <1>1, <1>2 DEF Size, Counters, Dividers, Divider, Vhist64, Vhist64t,
                                             Vhist128, Vhist128t, Vhist256
  <2> QED BY ONLY <2>1, <2>2
<1>4. t \in 0 .. 31
  BY DEF Counter32
<1>5. s \in 0 .. 255 /\ s - b = t
  <2>1. s = b + t /\ b \in Nat /\ b + n <= 256
    BY Zenon, <1>1, <1>2
  <2> QED BY ONLY <1>3, <1>4, <2>1
<1>6. s \in Bytes
  BY Zenon, <1>5 DEF Bytes
<1>7. PICK a, w, m : a = Kept(f.fn, k, s) /\ w = Owed(f, s) /\ m = CounterLimit
  BY Zenon
<1>8. a \in Int /\ a >= 0
  <2>1. \A r \in Residues : r \in Int /\ r >= 0
    BY DEF Residues
  <2>2. k[s] \in Int /\ k[s] >= 0 /\ 0 \in Int /\ 0 >= 0
    BY <1>6, <2>1
  <2> QED BY Zenon, <1>7, <2>2 DEF Kept
<1>9. a + w + 63 < m
  BY Zenon, <1>6, <1>7 DEF Calm
<1>10. w \in Int
  BY <1>5, <1>7, OwedBound
<1>11. m \in Nat
  BY <1>7, LimitAssumption
<1>12. w + 63 < m
  BY ONLY <1>8, <1>9, <1>10, <1>11
<1> QED BY Zenon, <1>1, <1>5, <1>7, <1>12 DEF Owed

LEMMA Ample ==
    ASSUME NEW c, NEW k, NEW fr, HistHolds(c, k, fr, "run"), fr # << >>, HasRoom(c),
           NEW f, f = Head(fr)
    PROVE  Calm(k, f) /\ Light(f)
<1>1. c \in HistInputs /\ Stack(fr, c.fn) /\ Settled(c, k, fr)
  BY Zenon DEF HistHolds
<1>2. PICK t : Tops(fr, f, t)
  BY Zenon, <1>1, Innermost DEF Tops
<1>3. f \in Fine
  BY Zenon, <1>1, Innermost
<1>4. ASSUME f.fn # "vhist16", NEW s \in Bytes
      PROVE  /\ Kept(f.fn, k, s) + Owed(f, s) >= 0
             /\ Kept(f.fn, k, s) + Owed(f, s) + 63 < CounterLimit
             /\ Kept(f.fn, k, s) \in Int /\ Kept(f.fn, k, s) >= 0 /\ Owed(f, s) \in Int
  <2>1. PICK a, e, m, p, q, r, u : /\ a = Kept(f.fn, k, s) /\ e = Expected(c, s) /\ m = CounterLimit
                                   /\ p = Part(fr, 1, s) /\ q = Part(fr, 2, s)
                                   /\ r = Part(fr, 3, s) /\ u = Part(fr, 4, s)
    BY Zenon
  <2>2. c.fn # "vhist16" /\ a = Standing(c, k, fr, s) /\ a \in Int /\ a >= 0
    <3>1. /\ Kept(f.fn, k, s) = Standing(c, k, fr, s)
          /\ Kept(f.fn, k, s) \in Int /\ Kept(f.fn, k, s) >= 0
          /\ f.fn = "vhist16" <=> c.fn = "vhist16"
      BY Zenon, Keeps
    <3> QED BY Zenon, <1>4, <2>1, <3>1
  <2>3. s \in Int
    BY DEF Bytes
  <2>4. /\ p = Owed(f, s) /\ q \in Int /\ r \in Int /\ u \in Int
        /\ q + 63 >= 0 /\ r + 63 >= 0 /\ u + 63 >= 0
    <3>1. /\ Part(fr, 1, s) = Owed(f, s) /\ Part(fr, 2, s) = Part(t, 1, s)
          /\ Part(fr, 3, s) = Part(t, 2, s) /\ Part(fr, 4, s) = Part(t, 3, s)
          /\ \A i \in 1 .. 4 : Part(t, i, s) \in Int /\ Part(t, i, s) + 63 >= 0
      BY ONLY <1>2, <2>3, Parts
    <3>2. 1 \in 1 .. 4 /\ 2 \in 1 .. 4 /\ 3 \in 1 .. 4
      OBVIOUS
    <3> QED BY Zenon, <2>1, <3>1, <3>2
  <2>5. p \in Int
    BY Zenon, <1>3, <2>3, <2>4, OwedBound
  <2>6. e \in Nat /\ e + 253 <= m
    BY Zenon, <1>1, <2>1, <2>2, ExpectedBound
  <2>7. (a + (p + q + r + u)) - e = 0
    <3>1. (Standing(c, k, fr, s) + Total(fr, s)) - Expected(c, s) \in Slack(c.fn)
      BY Zenon, <1>1 DEF Settled, Balanced
    <3>2. (Standing(c, k, fr, s) + Total(fr, s)) - Expected(c, s) = 0
      BY Zenon, <2>2, <3>1, Slacks
    <3> QED BY Zenon, <2>1, <2>2, <3>2 DEF Total
  <2>8. a + p >= 0
    BY Zenon, <1>1, <2>1, <2>2 DEF Settled, Covered
  <2>9. m \in Nat
    BY <2>1, LimitAssumption
  <2>10. a + p + 63 < m
    BY ONLY <2>2, <2>4, <2>5, <2>6, <2>7, <2>9
  <2> QED BY Zenon, <2>1, <2>2, <2>4, <2>5, <2>8, <2>10
<1>5. Calm(k, f)
  BY Zenon, <1>4 DEF Calm
<1>6. Light(f)
  BY Zenon, <1>1, <1>3, <1>5, CalmIsLight DEF HistHolds
<1> QED BY Zenon, <1>5, <1>6

LEMMA GoesOn ==
    ASSUME NEW c, NEW k, NEW fr, NEW g, NEW new, Moves(c, k, fr, g, new)
    PROVE  HistHolds(c, k, new, "run")
<1>0. /\ HistHolds(c, k, fr, "run") /\ fr # << >>
      /\ Follows(Head(fr), g) /\ new = <<g>> \o Tail(fr)
  BY Zenon DEF Moves
<1> USE <1>0
<1>1. PICK h, t, fn : h = Head(fr) /\ t = Tail(fr) /\ fn = c.fn
  BY Zenon
<1>2. Stack(fr, fn) /\ Follows(h, g)
  BY Zenon, <1>1 DEF HistHolds
<1>3. h \in Fine /\ OK(h) /\ Tops(fr, h, t)
  BY Zenon, <1>1, <1>2, Innermost DEF Tops
<1>4. g \in Fine /\ g.fn = h.fn /\ g.base = h.base /\ Tops(new, g, t)
  <2>1. OK(g) /\ g.fn = h.fn /\ g.base = h.base
    BY Zenon, <1>2 DEF Follows
  <2>2. g \in Fine
    BY <2>1, FineFacts
  <2> QED BY Zenon, <1>1, <1>3, <2>1, <2>2 DEF Tops
<1>5. /\ Stack(new, fn) /\ new # << >>
      /\ \A s \in Int : Total(new, s) = Total(fr, s) + (Owed(g, s) - Owed(h, s))
  <2>1. Advances(fr, fn, g, new)
    BY Zenon, <1>1, <1>2, <1>4 DEF Advances
  <2>2. /\ Stack(new, fn) /\ new # << >>
        /\ \A s \in Int : Total(new, s) = Total(fr, s) + (Owed(g, s) - Owed(Head(fr), s))
    BY ONLY <2>1, Continued
  <2> QED BY Zenon, <1>1, <2>2
<1>6. ASSUME HasRoom(c), NEW s \in Bytes PROVE Balanced(c, k, new, s) /\ Covered(c, k, new, s)
  <2>1. s \in Int
    BY DEF Bytes
  <2>2. Light(h)
    BY Zenon, <1>1, <1>6, Ample
  <2>3. Owed(g, s) = Owed(h, s)
    <3>1. h.base \in Nat
      BY <1>3, FineFacts
    <3>2. s - h.base \in Int
      BY <2>1, <3>1
    <3> QED BY Zenon, <1>2, <1>4, <2>2, <3>2 DEF Owed, Follows
  <2>4. Part(new, 1, s) = Part(fr, 1, s) /\ Part(new, 2, s) = Part(fr, 2, s)
        /\ Part(new, 3, s) = Part(fr, 3, s) /\ Part(new, 4, s) = Part(fr, 4, s)
    <3>1. /\ Part(fr, 1, s) = Owed(h, s) /\ Part(fr, 2, s) = Part(t, 1, s)
          /\ Part(fr, 3, s) = Part(t, 2, s) /\ Part(fr, 4, s) = Part(t, 3, s)
      BY ONLY <1>3, <2>1, Parts
    <3>2. /\ Part(new, 1, s) = Owed(g, s) /\ Part(new, 2, s) = Part(t, 1, s)
          /\ Part(new, 3, s) = Part(t, 2, s) /\ Part(new, 4, s) = Part(t, 3, s)
      BY ONLY <1>4, <2>1, Parts
    <3> QED BY Zenon, <2>3, <3>1, <3>2
  <2>5. Standing(c, k, new, s) = Standing(c, k, fr, s)
    BY Zenon, <1>5 DEF Standing
  <2>6. Balanced(c, k, fr, s) /\ Covered(c, k, fr, s)
    BY Zenon, <1>6 DEF HistHolds, Settled
  <2> QED BY Zenon, <2>4, <2>5, <2>6 DEF Balanced, Covered, Total
<1> QED BY Zenon, <1>1, <1>5, <1>6 DEF HistHolds, Settled

\* The innermost function calls another one: lines 264 and 265.
Hands(fr, h, e, new) ==
    /\ fr # << >> /\ h \in Fine /\ h.fn = Head(fr).fn /\ h.base = Head(fr).base
    /\ Head(fr).fn \in Dividers /\ e \in Fine /\ e.fn = Divider(Head(fr).fn).callee
    /\ new = <<e>> \o (<<h>> \o Tail(fr))
    /\ \A s \in Int : Owed(h, s) + Owed(e, s) = Owed(Head(fr), s) /\ Owed(e, s) >= 0

LEMMA Descended ==
    ASSUME NEW c, NEW k, NEW fr, HistHolds(c, k, fr, "run"), NEW h, NEW e, NEW new,
           Hands(fr, h, e, new)
    PROVE  HistHolds(c, k, new, "run")
<1>1. PICK fn, mid, f : fn = c.fn /\ mid = <<h>> \o Tail(fr) /\ f = Head(fr)
  BY Zenon
<1>2. Stack(fr, fn) /\ fr # << >>
  BY Zenon, <1>1 DEF HistHolds, Hands
<1>3. f \in Fine
  BY Zenon, <1>1, <1>2, Innermost
<1>4. /\ Stack(mid, fn) /\ mid # << >> /\ Head(mid) = h
      /\ \A s \in Int : Total(mid, s) = Total(fr, s) + (Owed(h, s) - Owed(f, s))
  <2>1. Advances(fr, fn, h, mid)
    BY Zenon, <1>1, <1>2 DEF Advances, Hands
  <2>2. /\ Stack(mid, fn) /\ mid # << >> /\ Head(mid) = h
        /\ \A s \in Int : Total(mid, s) = Total(fr, s) + (Owed(h, s) - Owed(Head(fr), s))
    BY ONLY <2>1, Continued
  <2> QED BY Zenon, <1>1, <2>2
<1>5. /\ Stack(new, fn) /\ new # << >>
      /\ \A s \in Int : Total(new, s) = Total(mid, s) + Owed(e, s)
  <2>1. Descends(mid, fn, e, new)
    BY Zenon, <1>1, <1>4 DEF Descends, Hands
  <2> QED BY ONLY <2>1, Called
<1>6. ASSUME HasRoom(c), NEW s \in Bytes PROVE Balanced(c, k, new, s) /\ Covered(c, k, new, s)
  <2>1. s \in Int /\ Total(fr, s) \in Int
    BY BalanceTypes
  <2>2. PICK a, b, d, x, z, q, r, u :
          /\ a = Owed(h, s) /\ b = Owed(e, s) /\ d = Owed(f, s) /\ x = Total(fr, s)
          /\ z = Standing(c, k, fr, s)
          /\ q = Part(fr, 2, s) /\ r = Part(fr, 3, s) /\ u = Part(fr, 4, s)
    BY Zenon
  <2>3. h \in Fine /\ e \in Fine /\ a + b = d /\ b >= 0
    BY Zenon, <1>1, <2>1, <2>2 DEF Hands
  <2>4. a \in Int /\ b \in Int /\ d \in Int /\ x \in Int
    BY <1>3, <2>1, <2>2, <2>3, FineFacts
  <2>5. Total(new, s) = (x + (a - d)) + b
    BY Zenon, <1>4, <1>5, <2>1, <2>2
  <2>6. (x + (a - d)) + b = x
    BY ONLY <2>3, <2>4
  <2>7. Standing(c, k, new, s) = z
    BY Zenon, <1>2, <1>5, <2>2 DEF Standing
  <2>8. Balanced(c, k, fr, s) /\ Covered(c, k, fr, s)
    BY Zenon, <1>6 DEF HistHolds, Settled
  <2>9. Balanced(c, k, new, s)
    BY Zenon, <2>2, <2>5, <2>6, <2>7, <2>8 DEF Balanced
  <2>10. PICK t : t = Tail(fr)
    BY Zenon
  <2>11. Tops(fr, f, t)
    BY Zenon, <1>1, <1>2, <2>10, Innermost DEF Tops
  <2>12. Tops(mid, h, t)
    BY Zenon, <1>1, <2>3, <2>10, <2>11 DEF Tops
  <2>13. Tops(new, e, mid)
    <3>1. Descends(mid, fn, e, new)
      BY Zenon, <1>1, <1>4 DEF Descends, Hands
    <3> QED BY ONLY <3>1, Called
  <2>14. /\ Part(fr, 1, s) = d /\ q = Part(t, 1, s) /\ q \in Int
    BY ONLY <2>1, <2>2, <2>11, Parts
  <2>15. Part(mid, 1, s) = a /\ Part(mid, 2, s) = q
    BY ONLY <2>1, <2>2, <2>12, <2>14, Parts
  <2>16. Part(new, 1, s) = b /\ Part(new, 2, s) = a /\ Part(new, 3, s) = q
    BY ONLY <2>1, <2>2, <2>13, <2>15, Parts
  <2>17. z \in Int /\ z >= 0
    BY Zenon, <1>2, <2>2, Keeps
  <2>18. z + d >= 0 /\ z + d + q >= 0
    BY Zenon, <2>2, <2>8, <2>14 DEF Covered
  <2>19. z + b >= 0 /\ z + b + a >= 0 /\ z + b + a + q >= 0
    BY ONLY <2>3, <2>4, <2>14, <2>17, <2>18
  <2>20. Covered(c, k, new, s)
    BY Zenon, <2>7, <2>16, <2>19 DEF Covered
  <2> QED BY <2>9, <2>20
<1> QED BY Zenon, <1>1, <1>5, <1>6 DEF HistHolds, Settled

\* The program calls a function: the counters of its symbols are set to zero
\* or will be set, and all of the message is owed.
Begins(c, k, k2, new) ==
    /\ HistHolds(c, k, << >>, "call")
    /\ k2 = [s \in Bytes |-> IF s \in Zeroed(c.fn) THEN 0 ELSE k[s]]
    /\ new = <<Enters(c.fn, c.src, 0)>>

LEMMA Begun ==
    ASSUME NEW c, NEW k, NEW k2, NEW new, Begins(c, k, k2, new)
    PROVE  HistHolds(c, k2, new, "run")
<1>0. PICK g : /\ HistHolds(c, k, << >>, "call")
               /\ k2 = [s \in Bytes |-> IF s \in Zeroed(c.fn) THEN 0 ELSE k[s]]
               /\ g = Enters(c.fn, c.src, 0) /\ new = <<g>>
  BY Zenon DEF Begins
<1> USE <1>0
<1>1. PICK fn, src, m : fn = c.fn /\ src = c.src /\ m = Size(fn)
  BY Zenon
<1>2. /\ c \in HistInputs /\ k = [s \in Bytes |-> Unset] /\ k \in [Bytes -> Residues]
  BY Zenon DEF HistHolds
<1>3. /\ fn \in Counters \union Dividers /\ src \in Seq(Bytes) /\ src \in Seq(SymbolsOf(fn))
      /\ SymbolsOf(fn) = 0 .. m - 1 /\ SymbolsOf(fn) \in SUBSET Bytes
      /\ fn \in Dividers => Zeroed(fn) = SymbolsOf(fn)
      /\ fn \in Counters => fn \in Setters /\ Zeroed(fn) = {}
  <2>1. /\ c.fn \in Counters \union Dividers /\ c.src \in Seq(Bytes)
        /\ c.src \in Seq(SymbolsOf(c.fn))
        /\ SymbolsOf(c.fn) = 0 .. Size(c.fn) - 1 /\ SymbolsOf(c.fn) \in SUBSET Bytes
        /\ c.fn \in Dividers => Zeroed(c.fn) = SymbolsOf(c.fn)
        /\ c.fn \in Counters => c.fn \in Setters /\ Zeroed(c.fn) = {}
    BY ONLY <1>2, InputFacts
  <2> QED BY Zenon, <1>1, <2>1
<1>4. m \in {16, 32, 64, 128, 256} /\ Rank(fn) \in 1 .. 4 /\ 0 + m <= 256 /\ 0 \in Nat
  BY <1>1, <1>3, Ranks
<1>5. OK(g) /\ g.fn = fn /\ g.base = 0 /\ \A t \in Int : Work(g, t) = Occ(src, Class(m, t))
  <2>1. g = Enters(fn, src, 0) /\ 0 + Size(fn) <= 256
    BY Zenon, <1>1, <1>4
  <2>2. OK(g) /\ g.fn = fn /\ g.base = 0 /\ \A t \in Int : Work(g, t) = Occ(src, Class(Size(fn), t))
    <3>1. IsEntered(g, fn, src, 0)
      BY ONLY Zenon, <1>3, <1>4, <2>1 DEF IsEntered
    <3> QED BY ONLY <3>1, Entered
  <2> QED BY Zenon, <1>1, <2>2
<1>6. g \in Fine
  BY <1>5, FineFacts
<1>7. PICK t : t = << >>
  BY Zenon
<1>8. Tops(new, g, t) /\ Fits(g, t, fn)
  <2>1. t \in Seq(Fine) /\ Len(t) = 0
    BY <1>7, EmptySeq
  <2>2. new = <<g>> \o t
    <3>1. <<g>> \in Seq(Fine)
      BY <1>6
    <3>2. <<g>> \o << >> = <<g>>
      BY ONLY <3>1, ConcatEmptySeq
    <3> QED BY Zenon, <1>7, <3>2
  <2>3. Len(t) <= 3 /\ Rank(g.fn) + Len(t) <= 4 /\ ~ (Len(t) >= 1)
    BY <1>4, <1>5, <2>1
  <2> QED BY Zenon, <1>5, <1>6, <2>1, <2>2, <2>3 DEF Tops, Fits
<1>9. /\ Stack(new, fn) /\ new # << >>
      /\ \A s \in Int : /\ Total(new, s) = Owed(g, s) + Total(t, s)
                        /\ Owed(g, s) \in Int
  <2>1. Stack(new, fn)
    BY ONLY <1>8, StackOf
  <2>2. Tops(new, g, t)
    BY <1>8
  <2>3. new # << >>
    BY ONLY <2>2, OneMore
  <2>4. \A s \in Int : Total(new, s) = Owed(g, s) + Total(t, s) /\ Owed(g, s) \in Int
    <3> SUFFICES ASSUME NEW s \in Int
                 PROVE  Total(new, s) = Owed(g, s) + Total(t, s) /\ Owed(g, s) \in Int
      OBVIOUS
    <3>1. PICK a, b : a = Owed(g, s) /\ b = Total(t, s)
      BY Zenon
    <3>2. Total(new, s) = a + b /\ a \in Int
      BY ONLY <2>2, <3>1, s \in Int, OneMore
    <3> QED BY Zenon, <3>1, <3>2
  <2> QED BY Zenon, <2>1, <2>3, <2>4
<1>10. k2 \in [Bytes -> Residues]
  <2>1. 0 \in Residues
    BY LimitAssumption DEF Residues
  <2> QED BY Zenon, <1>2, <2>1
<1>11. 0 \in Slack(c.fn)
  BY Zenon, Slacks
<1>12. ASSUME NEW s \in Bytes PROVE Balanced(c, k2, new, s)
  <2>1. s \in Int /\ s >= 0 /\ k[s] = Unset /\ Unset \in Int
    <3>1. s \in Int /\ s >= 0
      BY DEF Bytes
    <3>2. Unset \in Int
      BY Reduced DEF Unset
    <3> QED BY Zenon, <1>2, <3>1, <3>2
  <2>2. Total(new, s) = Occ(src, Class(m, s))
    <3>1. PICK o : o = Occ(src, Class(m, s))
      BY Zenon
    <3>2. s - 0 = s
      BY <2>1
    <3>3. Owed(g, s) = o /\ Total(t, s) = 0
      BY Zenon, <1>5, <1>7, <2>1, <3>1, <3>2, TotalType DEF Owed
    <3>4. o \in Int /\ o + 0 = o
      BY <1>9, <2>1, <3>3
    <3> QED BY Zenon, <1>9, <2>1, <3>1, <3>3, <3>4
  <2>3. CASE s \in SymbolsOf(fn)
    <3>1. Occ(src, Class(m, s)) = Occ(src, {s})
      <4>1. ASSUME NEW i \in 0 + 1 .. Len(src) PROVE src[i] \in Class(m, s) <=> src[i] \in {s}
        <5>1. PICK b : b = src[i]
          BY Zenon
        <5>2. b \in 0 .. m - 1 /\ b \in Bytes
          <6>1. i \in 1 .. Len(src)
            OBVIOUS
          <6>2. src[i] \in SymbolsOf(fn) /\ src[i] \in Bytes
            BY ONLY <1>3, <6>1, ElementOfSeq
          <6> QED BY Zenon, <1>3, <5>1, <6>2
        <5>3. b % m = b
          BY ONLY <1>4, <5>2
        <5> QED BY Zenon, <5>1, <5>2, <5>3 DEF Class
      <4>2. Hits(src, 0, Len(src), Class(m, s)) = Hits(src, 0, Len(src), {s})
        BY Zenon, <4>1 DEF Hits
      <4> QED BY Zenon, <4>2 DEF Occ, Occurs
    <3>2. Occ(src, {s}) \in Int
      BY <1>3, OccType
    <3>3. Kept(fn, k2, s) = 0
      BY Zenon, <1>1, <1>3, <2>3 DEF Kept
    <3>4. Expected(c, s) = Occ(src, {s}) /\ Standing(c, k2, new, s) = 0
      BY Zenon, <1>1, <1>9, <2>3, <3>3 DEF Expected, Standing
    <3>5. \A o \in Int : (0 + o) - o = 0
      OBVIOUS
    <3> QED BY Zenon, <2>2, <3>1, <3>2, <3>4, <3>5, <1>11 DEF Balanced
  <2>4. CASE s \notin SymbolsOf(fn)
    <3>1. Occ(src, Class(m, s)) = 0
      <4>1. s \notin 0 .. m - 1
        BY Zenon, <1>3, <2>4
      <4> QED BY ONLY <1>4, <2>1, <4>1, NoSymbol
    <3>2. Expected(c, s) = Unset
      BY Zenon, <1>1, <2>4 DEF Expected
    <3>3. Standing(c, k2, new, s) = Unset
      <4>1. s \notin Zeroed(fn)
        BY Zenon, <1>3, <2>4
      <4>2. k2[s] = Unset
        BY Zenon, <1>1, <2>1, <4>1
      <4> QED BY Zenon, <1>1, <1>9, <2>4, <4>2 DEF Standing, Kept
    <3>4. \A o \in Int : (o + 0) - o = 0
      OBVIOUS
    <3> QED BY Zenon, <2>1, <2>2, <3>1, <3>2, <3>3, <3>4, <1>11 DEF Balanced
  <2> QED BY Zenon, <2>3, <2>4
<1>13. ASSUME NEW s \in Bytes PROVE Covered(c, k2, new, s)
  <2>1. s \in Int /\ s - 0 = s
    BY DEF Bytes
  <2>2. PICK a, o : a = Standing(c, k2, new, s) /\ o = Owed(g, s)
    BY Zenon
  <2>3. o \in Nat
    <3>1. o = Occ(src, Class(m, s))
      BY Zenon, <1>5, <2>1, <2>2 DEF Owed
    <3> QED BY ONLY <1>3, <3>1, OccType
  <2>4. a \in Int /\ a >= 0
    <3>1. \A r \in Residues : r \in Int /\ r >= 0
      BY DEF Residues
    <3>2. k2[s] \in Int /\ k2[s] >= 0
      BY Zenon, <1>10, <3>1
    <3>3. 0 \in Int /\ 0 >= 0
      OBVIOUS
    <3>4. Kept(c.fn, k2, s) \in Int /\ Kept(c.fn, k2, s) >= 0
      BY Zenon, <3>2, <3>3 DEF Kept
    <3> QED BY Zenon, <1>9, <2>2, <3>4 DEF Standing
  <2>5. \A i \in 1 .. 4 : Part(t, i, s) = 0
    <3>1. Len(t) = 0
      BY <1>7, EmptySeq
    <3>2. \A i \in 1 .. 4 : ~ (i <= Len(t))
      BY ONLY <3>1
    <3> QED BY Zenon, <3>2 DEF Part
  <2>6. Part(new, 1, s) = o /\ Part(new, 2, s) = 0 /\ Part(new, 3, s) = 0
    <3>1. /\ Part(new, 1, s) = Owed(g, s) /\ Part(new, 2, s) = Part(t, 1, s)
          /\ Part(new, 3, s) = Part(t, 2, s)
      BY ONLY <1>8, <2>1, Parts
    <3>2. 1 \in 1 .. 4 /\ 2 \in 1 .. 4
      OBVIOUS
    <3> QED BY Zenon, <2>2, <2>5, <3>1, <3>2
  <2>7. a + o >= 0 /\ a + o + 0 >= 0 /\ a + o + 0 + 0 >= 0
    BY ONLY <2>3, <2>4
  <2> QED BY Zenon, <2>2, <2>6, <2>7 DEF Covered
<1> QED BY Zenon, <1>1, <1>2, <1>9, <1>10, <1>12, <1>13 DEF HistHolds, Settled

\* A function returns, what it held being added to the counters and its
\* padding subtracted from the first of them.
Gives(k, f, new, k2) ==
    /\ f.at >= Len(f.src) /\ new \in [Bytes -> Residues]
    /\ Calm(k, f) => \A s \in Bytes :
                        (new[s] - Kept(f.fn, k, s)) - Held(f, s - f.base) \in Slack(f.fn)
    /\ k2 = [new EXCEPT ![f.base] = (new[f.base] - f.padding) % CounterLimit]

LEMMA Given ==
    ASSUME NEW c, NEW k, NEW fr, HistHolds(c, k, fr, "run"), fr # << >>,
           NEW f, f = Head(fr), NEW new, NEW k2, Gives(k, f, new, k2)
    PROVE  /\ k2 \in [Bytes -> Residues]
           /\ HasRoom(c) => \A s \in Bytes :
                               k2[s] - (Kept(f.fn, k, s) + Owed(f, s)) \in Slack(f.fn)
<1>1. Stack(fr, c.fn)
  BY Zenon DEF HistHolds
<1>2. f \in Fine /\ OK(f)
  BY Zenon, <1>1, Innermost
<1>3. PICK b, p : b = f.base /\ p = f.padding
  BY Zenon
<1>4. b \in Bytes /\ b \in Nat /\ p \in Int
  <2>1. f.fn \in Counters \union Dividers /\ f.base \in Nat /\ f.base + Size(f.fn) <= 256
        /\ f.padding \in Short
    BY ONLY <1>2, FineFacts
  <2>2. PICK m : m = Size(f.fn)
    BY Zenon
  <2>3. m \in {16, 32, 64, 128, 256}
    BY ONLY <2>1, <2>2, Ranks
  <2>4. b \in Nat /\ b + m <= 256 /\ p \in Short
    BY Zenon, <1>3, <2>1, <2>2
  <2>5. p \in Int
    BY ONLY <2>4, ShortNumbers
  <2>6. b \in 0 .. 255
    BY ONLY <2>3, <2>4
  <2> QED BY <2>4, <2>5, <2>6 DEF Bytes
<1>5. new \in [Bytes -> Residues] /\ k2 = [new EXCEPT ![b] = (new[b] - p) % CounterLimit]
  BY Zenon, <1>3 DEF Gives
<1>6. \A s \in Bytes : new[s] \in Residues /\ new[s] \in Int
  <2>1. \A r \in Residues : r \in Int
    BY DEF Residues
  <2> QED BY Zenon, <1>5, <2>1
<1>7. PICK r : r = (new[b] - p) % CounterLimit
  BY Zenon
<1>8. r \in Residues /\ r \in Int
  <2>1. PICK x : x = new[b] - p
    BY Zenon
  <2>2. x \in Int
    BY <1>4, <1>6, <2>1
  <2> QED BY Zenon, <1>7, <2>1, <2>2, Reduced
<1>9. k2 \in [Bytes -> Residues] /\ \A s \in Bytes : k2[s] = IF s = b THEN r ELSE new[s]
  BY Zenon, <1>5, <1>7, <1>8
<1>10. ASSUME HasRoom(c)
       PROVE  /\ Calm(k, f)
              /\ \A s \in Bytes : (new[s] - Kept(f.fn, k, s)) - Held(f, s - b) \in Slack(f.fn)
  <2>1. Calm(k, f)
    BY Zenon, <1>10, Ample
  <2> QED BY Zenon, <1>3, <2>1 DEF Gives
<1>11. ASSUME NEW s \in Bytes
       PROVE  /\ Owed(f, s) = Held(f, s - b) - IF s = b THEN p ELSE 0
              /\ Held(f, s - b) \in Nat /\ s \in Int
  <2>1. s \in Int
    BY DEF Bytes
  <2>2. PICK t : t = s - b
    BY Zenon
  <2>3. t \in Int /\ (t = 0 <=> s = b)
    BY ONLY <1>4, <2>1, <2>2
  <2>4. Work(f, t) = Held(f, t) - IF t = 0 THEN f.padding ELSE 0
    <3>1. f.at >= Len(f.src)
      BY Zenon DEF Gives
    <3> QED BY Zenon, <1>2, <2>3, <3>1, WorkType
  <2>5. Held(f, t) \in Nat
    BY ONLY <1>2, <2>3, HeldType
  <2> QED BY Zenon, <1>3, <2>1, <2>2, <2>3, <2>4, <2>5 DEF Owed
<1>12. ASSUME HasRoom(c) PROVE r - (new[b] - p) \in Slack(f.fn)
  <2>1. PICK x, a, h, n, o, m : /\ x = new[b] - p /\ a = Kept(f.fn, k, b) /\ h = Held(f, b - b)
                                /\ n = new[b] /\ o = Owed(f, b) /\ m = CounterLimit
    BY Zenon
  <2>2. x \in Int /\ n \in Int /\ x = n - p
    BY <1>4, <1>6, <2>1
  <2>3. ASSUME f.fn # "vhist16" PROVE x \in Residues
    <3>1. (n - a) - h = 0
      <4>1. (new[b] - Kept(f.fn, k, b)) - Held(f, b - b) \in Slack(f.fn)
        BY Zenon, <1>4, <1>10, <1>12
      <4>2. (new[b] - Kept(f.fn, k, b)) - Held(f, b - b) = 0
        BY Zenon, <2>3, <4>1, Slacks
      <4> QED BY Zenon, <2>1, <4>2
    <3>2. o = h - p /\ h \in Nat
      BY Zenon, <1>4, <1>11, <2>1
    <3>3. a \in Int
      BY Zenon, <1>4, <2>1, Keeps
    <3>4. a + o >= 0
      BY Zenon, <1>4, <1>10, <1>12, <2>1, <2>3 DEF Calm
    <3>5. m \in Nat /\ n \in 0 .. m - 1
      <4>1. n \in Residues
        BY Zenon, <1>4, <1>6, <2>1
      <4> QED BY <2>1, <4>1, LimitAssumption DEF Residues
    <3>6. p \in Int /\ p >= 0
      <4>1. f.padding \in Short
        BY ONLY <1>2, FineFacts
      <4>2. \A y \in Short : y \in Int /\ y >= 0
        BY DEF Short
      <4> QED BY Zenon, <1>3, <4>1, <4>2
    <3>7. x \in 0 .. m - 1
      BY ONLY <2>2, <3>1, <3>2, <3>3, <3>4, <3>5, <3>6
    <3> QED BY Zenon, <2>1, <3>7 DEF Residues
  <2>4. (x % CounterLimit) - x \in Slack(f.fn)
    BY Zenon, <2>2, <2>3, Stored
  <2> QED BY Zenon, <1>7, <2>1, <2>4
<1>13. ASSUME HasRoom(c), NEW s \in Bytes
       PROVE  k2[s] - (Kept(f.fn, k, s) + Owed(f, s)) \in Slack(f.fn)
  <2>1. PICK d, n, a, x, w, S : /\ d = (IF s = b THEN p ELSE 0) /\ n = new[s]
                                /\ a = Kept(f.fn, k, s) /\ x = Held(f, s - b) /\ w = k2[s]
                                /\ S = Slack(f.fn)
    BY Zenon
  <2>2. a \in Int
    BY BalanceTypes, <2>1
  <2>3. Owed(f, s) = x - d /\ x \in Nat
    BY Zenon, <1>11, <2>1
  <2>4. d \in Int /\ n \in Int /\ x \in Int
    <3>1. d \in Int
      BY <1>4, <2>1
    <3>2. n \in Int
      BY Zenon, <1>6, <2>1
    <3>3. x \in Int
      BY <2>3
    <3> QED BY <3>1, <3>2, <3>3
  <2>5. w - (n - d) \in S /\ w \in Int
    <3>1. CASE s = b
      <4>1. w = r /\ d = p /\ n = new[b]
        BY Zenon, <1>9, <2>1, <3>1
      <4> QED BY Zenon, <1>8, <1>12, <1>13, <2>1, <4>1
    <3>2. CASE s # b
      <4>1. w = n /\ d = 0
        BY Zenon, <1>9, <2>1, <3>2
      <4>2. n - (n - 0) = 0
        BY ONLY <2>4
      <4> QED BY Zenon, <2>1, <2>4, <4>1, <4>2, Slacks
    <3> QED BY Zenon, <3>1, <3>2
  <2>6. (n - a) - x \in S
    BY Zenon, <1>10, <1>13, <2>1
  <2>7. (w - (n - d)) + ((n - a) - x) = w - (a + (x - d))
    BY ONLY <2>2, <2>4, <2>5
  <2>8. (w - (n - d)) + ((n - a) - x) \in S
    BY Zenon, <2>1, <2>5, <2>6, Slacks
  <2> QED BY Zenon, <2>1, <2>3, <2>7, <2>8
<1> QED BY Zenon, <1>9, <1>13

Leaves(c, k, fr, new, k2) ==
    HistHolds(c, k, fr, "run") /\ fr # << >> /\ Gives(k, Head(fr), new, k2)

LEMMA Left ==
    ASSUME NEW c, NEW k, NEW fr, NEW new, NEW k2, Leaves(c, k, fr, new, k2)
    PROVE  HistHolds(c, k2, Tail(fr), "run")
<1>0. PICK f : /\ HistHolds(c, k, fr, "run") /\ fr # << >>
               /\ f = Head(fr) /\ Gives(k, f, new, k2)
  BY Zenon DEF Leaves
<1> USE <1>0
<1>1. PICK t, fn : t = Tail(fr) /\ fn = c.fn
  BY Zenon
<1>2. Stack(fr, fn) /\ fr # << >>
  BY Zenon, <1>1 DEF HistHolds
<1>3. f \in Fine
  BY Zenon, <1>2, Innermost
<1>4. /\ Stack(t, fn)
      /\ \A s \in Int : Total(fr, s) = Owed(f, s) + Total(t, s)
      /\ t = << >> => f.fn = fn
      /\ t # << >> => f.fn \in {"__vhist32"} \union Dividers /\ fn \in Dividers
  <2>1. /\ Stack(Tail(fr), fn)
        /\ \A s \in Int : Total(fr, s) = Owed(Head(fr), s) + Total(Tail(fr), s)
        /\ Tail(fr) = << >> => Head(fr).fn = fn /\ Head(fr).base = 0
        /\ Tail(fr) # << >> => Head(fr).fn \in {"__vhist32"} \union Dividers /\ fn \in Dividers
    BY ONLY <1>2, Returned
  <2> QED BY Zenon, <1>1, <2>1
<1>5. /\ k2 \in [Bytes -> Residues]
      /\ HasRoom(c) => \A s \in Bytes : k2[s] - (Kept(f.fn, k, s) + Owed(f, s)) \in Slack(f.fn)
  BY Zenon, <1>2, Given
<1>6. \A d \in {"__vhist32"} \union Dividers : d \notin Setters
  BY DEF Dividers, Setters
<1>7. Tops(fr, f, t)
  BY Zenon, <1>1, <1>2, Innermost DEF Tops
<1>8. ASSUME HasRoom(c), NEW s \in Bytes PROVE Balanced(c, k2, t, s) /\ Covered(c, k2, t, s)
  <2>1. /\ s \in Int /\ Expected(c, s) \in Int /\ Kept(f.fn, k, s) \in Int
    BY BalanceTypes
  <2>2. PICK w, a, o, x, e : /\ w = k2[s] /\ a = Kept(f.fn, k, s) /\ o = Owed(f, s)
                             /\ x = Total(t, s) /\ e = Expected(c, s)
    BY Zenon
  <2>3. w \in Int /\ a \in Int /\ o \in Int /\ x \in Int /\ e \in Int
    <3>1. o \in Int
      BY <1>3, <2>1, <2>2, FineFacts
    <3>2. x \in Int
      BY <1>4, <2>1, <2>2, TotalType
    <3>3. w \in Residues
      BY Zenon, <1>5, <2>2
    <3>4. w \in Int
      BY <3>3 DEF Residues
    <3> QED BY Zenon, <2>1, <2>2, <3>1, <3>2, <3>4
  <2>4. Standing(c, k, fr, s) = a
    <3>1. Kept(fn, k, s) = Kept(f.fn, k, s)
      BY Zenon, <1>4, <1>6 DEF Kept
    <3> QED BY Zenon, <1>1, <1>2, <2>2, <3>1 DEF Standing
  <2>5. Standing(c, k2, t, s) = w
    <3>1. CASE t = << >>
      BY Zenon, <2>2, <3>1 DEF Standing
    <3>2. CASE t # << >>
      <4>1. fn \notin Setters
        BY Zenon, <1>4, <1>6, <3>2
      <4> QED BY Zenon, <1>1, <2>2, <3>2, <4>1 DEF Standing, Kept
    <3> QED BY Zenon, <3>1, <3>2
  <2>6. (a + (o + x)) - e \in Slack(fn)
    <3>1. Balanced(c, k, fr, s)
      BY Zenon, <1>8 DEF HistHolds, Settled
    <3>2. Total(fr, s) = o + x
      BY Zenon, <1>4, <2>1, <2>2
    <3> QED BY Zenon, <1>1, <2>2, <2>4, <3>1, <3>2 DEF Balanced
  <2>7. w - (a + o) \in Slack(fn)
    <3>1. w - (a + o) \in Slack(f.fn)
      BY Zenon, <1>5, <1>8, <2>2
    <3>2. f.fn = "vhist16" <=> fn = "vhist16"
      BY Zenon, <1>1, Keeps
    <3>3. Slack(f.fn) = Slack(fn)
      BY Zenon, <3>2 DEF Slack
    <3> QED BY Zenon, <3>1, <3>3
  <2>8. (w - (a + o)) + ((a + (o + x)) - e) = (w + x) - e
    BY ONLY <2>3
  <2>9. (w + x) - e \in Slack(fn)
    <3>1. (w - (a + o)) + ((a + (o + x)) - e) \in Slack(fn)
      BY Zenon, <2>6, <2>7, Slacks
    <3> QED BY Zenon, <2>8, <3>1
  <2>10. Balanced(c, k2, t, s)
    BY Zenon, <1>1, <2>2, <2>5, <2>9 DEF Balanced
  <2>11. PICK q, r, u : q = Part(t, 1, s) /\ r = Part(t, 2, s) /\ u = Part(t, 3, s)
    BY Zenon
  <2>12. /\ Part(fr, 1, s) = o /\ Part(fr, 2, s) = q /\ Part(fr, 3, s) = r
         /\ Part(fr, 4, s) = u /\ Part(t, 4, s) = 0
         /\ q \in Int /\ r \in Int /\ u \in Int
    <3>1. /\ Part(fr, 1, s) = Owed(f, s) /\ Part(fr, 2, s) = Part(t, 1, s)
          /\ Part(fr, 3, s) = Part(t, 2, s) /\ Part(fr, 4, s) = Part(t, 3, s)
          /\ Part(t, 4, s) = 0 /\ \A i \in 1 .. 4 : Part(t, i, s) \in Int
      BY ONLY <1>7, <2>1, Parts
    <3>2. 1 \in 1 .. 4 /\ 2 \in 1 .. 4 /\ 3 \in 1 .. 4
      OBVIOUS
    <3> QED BY Zenon, <2>2, <2>11, <3>1, <3>2
  <2>13. w + q >= 0 /\ w + q + r >= 0 /\ w + q + r + u >= 0
    <3>1. CASE t = << >>
      <4>1. q = 0 /\ r = 0 /\ u = 0
        <5>1. \A i \in 1 .. 4 : ~ (i <= Len(t))
          BY ONLY <3>1, EmptySeq
        <5>2. 1 \in 1 .. 4 /\ 2 \in 1 .. 4 /\ 3 \in 1 .. 4
          OBVIOUS
        <5> QED BY Zenon, <2>11, <5>1, <5>2 DEF Part
      <4>2. w >= 0
        <5>1. w \in Residues
          BY Zenon, <1>5, <2>2
        <5> QED BY <5>1 DEF Residues
      <4> QED BY ONLY <2>3, <4>1, <4>2
    <3>2. CASE t # << >>
      <4>1. fn # "vhist16"
        <5>1. \A d \in Dividers : d # "vhist16"
          BY DEF Dividers
        <5> QED BY Zenon, <1>4, <3>2, <5>1
      <4>2. w - (a + o) = 0 /\ (a + (o + x)) - e = 0
        BY Zenon, <2>6, <2>7, <4>1, Slacks
      <4>3. x = q + r + u + 0
        BY Zenon, <2>2, <2>11, <2>12 DEF Total
      <4>4. a + o + q >= 0 /\ a + o + q + r >= 0
        <5>1. Covered(c, k, fr, s)
          BY Zenon, <1>8 DEF HistHolds, Settled
        <5> QED BY Zenon, <2>4, <2>12, <5>1 DEF Covered
      <4>5. e >= 0
        <5>1. c \in HistInputs
          BY Zenon DEF HistHolds
        <5>2. e \in Nat
          BY Zenon, <2>2, <5>1, ExpectedBound
        <5> QED BY <5>2
      <4> QED BY ONLY <2>3, <2>12, <4>2, <4>3, <4>4, <4>5
    <3> QED BY <3>1, <3>2
  <2>14. Covered(c, k2, t, s)
    BY Zenon, <2>2, <2>5, <2>11, <2>13 DEF Covered
  <2> QED BY <2>10, <2>14
<1> QED BY Zenon, <1>1, <1>4, <1>5, <1>8 DEF HistHolds, Settled

LEMMA SymbolNumbers ==
    /\ \A s \in Bytes : /\ s \in Int /\ s >= 0 /\ s - 0 = s
                        /\ (s < 16 <=> s \in 0 .. 15) /\ (s < 32 <=> s \in 0 .. 31)
    /\ SymbolsOf("vhist16") = 0 .. 15 /\ "vhist16" \in Setters /\ "vhist16" \notin Dividers
    /\ SymbolsOf("vhist32") = 0 .. 31 /\ "vhist32" \in Setters
    /\ "__vhist32" \notin Setters /\ "__vhist32" # "vhist16" /\ "vhist32" # "vhist16"
<1>1. \A s \in Bytes : /\ s \in Int /\ s >= 0 /\ s - 0 = s
                      /\ (s < 16 <=> s \in 0 .. 15) /\ (s < 32 <=> s \in 0 .. 31)
  BY DEF Bytes
<1>2. SymbolsOf("vhist16") = 0 .. 15 /\ "vhist16" \in Setters /\ "vhist16" \notin Dividers
  BY DEF SymbolsOf, Symbols64, Setters, Dividers
<1>3. SymbolsOf("vhist32") = 0 .. 31 /\ "vhist32" \in Setters
  BY DEF SymbolsOf, Symbols64, Setters, Dividers
<1>4. "__vhist32" \notin Setters /\ "__vhist32" # "vhist16" /\ "vhist32" # "vhist16"
  BY DEF Setters
<1> QED BY Zenon, <1>1, <1>2, <1>3, <1>4

\* Lines 132-145: what the words of vhist16() hold.
LEMMA Gives16 ==
    ASSUME NEW k \in [Bytes -> Residues], NEW f, CountOK(f), f.fn = "vhist16", f.base = 0,
           f.at = Len(f.src), NEW new, NEW k2,
           new = [s \in Bytes |-> IF s < 16 THEN (2 * f.acc[s] + Ones16(f.b0, s)) % CounterLimit
                                  ELSE k[s]],
           k2 = [new EXCEPT ![f.base] = (new[f.base] - f.padding) % CounterLimit]
    PROVE  Gives(k, f, new, k2)
<1>1. f.at >= Len(f.src)
  BY CountFields
<1>2. \A r \in Residues : r \in Int /\ (r - r) - 0 = 0
  BY DEF Residues
<1>3. SymbolsOf("vhist16") = 0 .. 15 /\ "vhist16" \in Setters /\ "vhist16" \notin Dividers
  BY Zenon, SymbolNumbers
<1>4. ASSUME NEW s \in Bytes
      PROVE  new[s] \in Residues /\ (new[s] - Kept(f.fn, k, s)) - Held(f, s - f.base) \in Slack(f.fn)
  <2>1. s \in Int /\ s - 0 = s /\ (s < 16 <=> s \in 0 .. 15)
    BY Zenon, SymbolNumbers
  <2>2. Held(f, s - f.base) = Held16(f.acc, f.b0, s)
    BY Zenon, <1>3, <2>1 DEF Held
  <2>3. CASE s < 16
    <3>1. PICK x : x = 2 * f.acc[s] + Ones16(f.b0, s)
      BY Zenon
    <3>2. x \in Int
      <4>1. f.acc \in [CounterPlaces(f.fn) -> Nat]
        BY Zenon, CountFields
      <4>2. CounterPlaces(f.fn) = 0 .. 15
        BY Zenon DEF CounterPlaces
      <4>3. f.acc[s] \in Nat /\ Ones16(f.b0, s) \in Nat
        BY Zenon, <2>1, <2>3, <4>1, <4>2, PopcntType
      <4>4. PICK a, b : a = f.acc[s] /\ b = Ones16(f.b0, s)
        BY Zenon
      <4>5. x = 2 * a + b
        BY Zenon, <3>1, <4>4
      <4> QED BY <4>3, <4>4, <4>5
    <3>3. new[s] = x % CounterLimit /\ Kept(f.fn, k, s) = 0 /\ Held16(f.acc, f.b0, s) = x
      BY Zenon, <1>3, <2>1, <2>3, <3>1 DEF Kept, Held16
    <3>4. PICK r : r = x % CounterLimit
      BY Zenon
    <3>5. r \in Residues /\ r \in Int /\ r - x \in Slack(f.fn)
      BY Zenon, <3>2, <3>4, Stored
    <3>6. (r - 0) - x = r - x
      BY ONLY <3>2, <3>5
    <3> QED BY Zenon, <2>2, <3>3, <3>4, <3>5, <3>6
  <2>4. CASE ~ (s < 16)
    <3>1. new[s] = k[s] /\ Kept(f.fn, k, s) = k[s] /\ Held16(f.acc, f.b0, s) = 0
      BY Zenon, <1>3, <2>1, <2>4 DEF Kept, Held16
    <3>2. k[s] \in Residues
      BY Zenon
    <3>3. 0 \in Slack(f.fn)
      BY Zenon, Slacks
    <3> QED BY Zenon, <1>2, <2>2, <3>1, <3>2, <3>3
  <2> QED BY Zenon, <2>3, <2>4
<1>5. new \in [Bytes -> Residues]
  BY Zenon, <1>4
<1> QED BY Zenon, <1>1, <1>4, <1>5 DEF Gives

\* Lines 181-187 and 223-229: what the words of the others hold.
LEMMA Sums ==
    ASSUME NEW f, CountOK(f), f.fn # "vhist16", NEW sums, sums = Sums32(f)
    PROVE  /\ sums \in [Counter32 -> Residues] /\ sums \in [Counter32 -> Nat]
           /\ Light(f) => \A t \in Counter32 : sums[t] = Held(f, t)
           /\ \A t : t \notin Counter32 => Held(f, t) = 0
<1>1. PICK acc, twos, ones, a2, pairs, a4 :
        /\ acc = f.acc /\ twos = Popcnt32(f.b1) /\ ones = Popcnt32(f.b0)
        /\ a2 = LaneAdd(acc, acc) /\ pairs = LaneAdd(a2, twos) /\ a4 = LaneAdd(pairs, pairs)
  BY Zenon
<1>2. sums = LaneAdd(a4, ones)
  BY Zenon, <1>1 DEF Sums32
<1>3. f.fn \notin Dividers /\ acc \in [Counter32 -> Nat]
  <2>1. CounterPlaces(f.fn) = Counter32
    BY Zenon DEF CounterPlaces, Counter32
  <2> QED BY Zenon, <1>1, <2>1, CountFields
<1>4. twos \in [Counter32 -> Nat] /\ ones \in [Counter32 -> Nat]
  BY Zenon, <1>1, PopcntArray
<1>5. a2 \in [Counter32 -> Nat]
  BY Zenon, <1>1, <1>3, LaneType
<1>6. pairs \in [Counter32 -> Nat]
  BY Zenon, <1>1, <1>4, <1>5, LaneType
<1>7. a4 \in [Counter32 -> Nat]
  BY Zenon, <1>1, <1>6, LaneType
<1>8. sums \in [Counter32 -> Residues] /\ sums \in [Counter32 -> Nat]
  BY Zenon, <1>2, <1>4, <1>7, LaneType
<1>9. ASSUME NEW t
      PROVE  /\ t \in Counter32 => Held(f, t) = 4 * acc[t] + 2 * twos[t] + ones[t]
             /\ t \notin Counter32 => Held(f, t) = 0
  BY Zenon, <1>1, <1>3 DEF Held, Held32, Ones32, Counter32
<1>10. ASSUME Light(f) PROVE \A t \in Counter32 : sums[t] = Held(f, t)
  <2>1. PICK m : m = CounterLimit
    BY Zenon
  <2>2. m \in Nat
    BY <2>1, LimitAssumption
  <2>3. \A t \in Counter32 : 4 * acc[t] + 2 * twos[t] + ones[t] < m
    <3> SUFFICES ASSUME NEW t \in Counter32 PROVE 4 * acc[t] + 2 * twos[t] + ones[t] < m
      OBVIOUS
    <3>1. PICK h, w : h = Held(f, t) /\ w = Work(f, t)
      BY Zenon
    <3>2. t \in Int
      BY DEF Counter32
    <3>3. h \in Nat /\ w \in Int /\ w + 63 >= h
      BY ONLY <3>1, <3>2, CountOK(f), HeldType, WorkType, WorkBound DEF OK
    <3>4. w + 63 < m
      BY Zenon, <1>10, <2>1, <3>1 DEF Light
    <3>5. h < m
      BY ONLY <2>2, <3>3, <3>4
    <3> QED BY Zenon, <1>9, <3>1, <3>5
  <2>4. \A t \in Counter32 : a2[t] = acc[t] + acc[t]
    <3>1. \A t \in Counter32 : acc[t] + acc[t] < m
      BY ONLY <1>3, <1>4, <2>2, <2>3
    <3> QED BY Zenon, <1>1, <1>3, <2>1, <3>1, LaneExact
  <2>5. \A t \in Counter32 : pairs[t] = a2[t] + twos[t]
    <3>1. \A t \in Counter32 : a2[t] + twos[t] < m
      BY ONLY <1>3, <1>4, <2>2, <2>3, <2>4
    <3> QED BY Zenon, <1>1, <1>4, <1>5, <2>1, <3>1, LaneExact
  <2>6. \A t \in Counter32 : a4[t] = pairs[t] + pairs[t]
    <3>1. \A t \in Counter32 : pairs[t] + pairs[t] < m
      BY ONLY <1>3, <1>4, <2>2, <2>3, <2>4, <2>5
    <3> QED BY Zenon, <1>1, <1>6, <2>1, <3>1, LaneExact
  <2>7. \A t \in Counter32 : sums[t] = a4[t] + ones[t]
    <3>1. \A t \in Counter32 : a4[t] + ones[t] < m
      BY ONLY <1>3, <1>4, <2>2, <2>3, <2>4, <2>5, <2>6
    <3>2. \A t \in Counter32 : LaneAdd(a4, ones)[t] = a4[t] + ones[t]
      BY Zenon, <1>4, <1>7, <2>1, <3>1, LaneExact
    <3> QED BY Zenon, <1>2, <3>2
  <2>8. \A t \in Counter32 : sums[t] = 4 * acc[t] + 2 * twos[t] + ones[t]
    BY ONLY <1>3, <1>4, <2>4, <2>5, <2>6, <2>7
  <2> QED BY Zenon, <1>9, <2>8
<1> QED BY Zenon, <1>8, <1>9, <1>10

Sets32(k, f, sums, new, k2) ==
    /\ k \in [Bytes -> Residues] /\ CountOK(f) /\ f.fn = "vhist32" /\ f.base = 0
    /\ f.at = Len(f.src) /\ sums = Sums32(f)
    /\ new = [s \in Bytes |-> IF s < 32 THEN sums[s] ELSE k[s]]
    /\ k2 = [new EXCEPT ![f.base] = (new[f.base] - f.padding) % CounterLimit]

LEMMA Gives32 ==
    ASSUME NEW k, NEW f, NEW sums, NEW new, NEW k2, Sets32(k, f, sums, new, k2)
    PROVE  Gives(k, f, new, k2)
<1>0. /\ k \in [Bytes -> Residues] /\ CountOK(f) /\ f.fn = "vhist32" /\ f.base = 0
      /\ f.at = Len(f.src) /\ sums = Sums32(f)
      /\ new = [s \in Bytes |-> IF s < 32 THEN sums[s] ELSE k[s]]
      /\ k2 = [new EXCEPT ![f.base] = (new[f.base] - f.padding) % CounterLimit]
  BY Zenon DEF Sets32
<1> USE <1>0
<1>1. f.at >= Len(f.src)
  BY CountFields
<1>2. \A r \in Residues : r \in Int /\ (r - r) - 0 = 0 /\ (r - 0) - r = 0
  BY DEF Residues
<1>3. SymbolsOf("vhist32") = 0 .. 31 /\ "vhist32" \in Setters /\ f.fn # "vhist16"
  BY Zenon, SymbolNumbers
<1>4. /\ sums \in [Counter32 -> Residues]
      /\ Light(f) => \A t \in Counter32 : sums[t] = Held(f, t)
      /\ \A t : t \notin Counter32 => Held(f, t) = 0
  BY Zenon, <1>3, Sums
<1>5. 0 \in Slack(f.fn)
  BY Zenon, Slacks
<1>6. ASSUME NEW s \in Bytes
      PROVE  /\ new[s] \in Residues
             /\ Light(f) => (new[s] - Kept(f.fn, k, s)) - Held(f, s - f.base) \in Slack(f.fn)
  <2>1. s - 0 = s /\ (s < 32 <=> s \in Counter32)
    BY Zenon, SymbolNumbers DEF Counter32
  <2>2. Held(f, s - f.base) = Held(f, s)
    BY Zenon, <2>1
  <2>3. CASE s < 32
    <3>1. new[s] = sums[s] /\ Kept(f.fn, k, s) = 0 /\ sums[s] \in Residues
      BY Zenon, <1>3, <1>4, <2>1, <2>3 DEF Kept, Counter32
    <3> QED BY Zenon, <1>2, <1>4, <1>5, <2>1, <2>2, <2>3, <3>1
  <2>4. CASE ~ (s < 32)
    <3>1. new[s] = k[s] /\ Kept(f.fn, k, s) = k[s] /\ k[s] \in Residues /\ Held(f, s) = 0
      BY Zenon, <1>3, <1>4, <2>1, <2>4 DEF Kept, Counter32
    <3> QED BY Zenon, <1>2, <1>5, <2>2, <3>1
  <2> QED BY Zenon, <2>3, <2>4
<1>7. new \in [Bytes -> Residues]
  BY Zenon, <1>6
<1>8. Calm(k, f) => Light(f)
  <2>1. f \in Fine
    BY FineFacts DEF OK
  <2> QED BY Zenon, <2>1, CalmIsLight
<1> QED BY Zenon, <1>1, <1>6, <1>7, <1>8 DEF Gives

\* The vector of counters at base.
VectorAt(k, base) == [s \in Counter32 |-> k[base + s]]

Adds32(k, f, added, new, k2) ==
    /\ k \in [Bytes -> Residues] /\ CountOK(f) /\ f.fn = "__vhist32"
    /\ f.at = Len(f.src) /\ added = LaneAdd(VectorAt(k, f.base), Sums32(f))
    /\ new = [s \in Bytes |-> IF s - f.base \in Counter32 THEN added[s - f.base] ELSE k[s]]
    /\ k2 = [new EXCEPT ![f.base] = (new[f.base] - f.padding) % CounterLimit]

LEMMA Gives32Add ==
    ASSUME NEW k, NEW f, NEW added, NEW new, NEW k2, Adds32(k, f, added, new, k2)
    PROVE  Gives(k, f, new, k2)
<1>0. PICK v, sums :
        /\ k \in [Bytes -> Residues] /\ CountOK(f) /\ f.fn = "__vhist32"
        /\ f.at = Len(f.src) /\ sums = Sums32(f) /\ v = VectorAt(k, f.base)
        /\ added = LaneAdd(v, sums)
        /\ new = [s \in Bytes |-> IF s - f.base \in Counter32 THEN added[s - f.base] ELSE k[s]]
        /\ k2 = [new EXCEPT ![f.base] = (new[f.base] - f.padding) % CounterLimit]
  BY Zenon DEF Adds32
<1> USE <1>0
<1>1. f.at >= Len(f.src)
  BY CountFields
<1>2. \A r \in Residues : r \in Nat /\ r \in Int /\ (r - r) - 0 = 0
  BY ONLY LimitAssumption DEF Residues
<1>3. "__vhist32" \notin Setters /\ f.fn # "vhist16"
  BY Zenon, SymbolNumbers
<1>4. PICK b : b = f.base
  BY Zenon
<1>5. b \in Nat /\ b + 32 <= 256
  <2>1. Size(f.fn) = 32
    BY ONLY f.fn = "__vhist32" DEF Size, Dividers
  <2>2. f.base \in Nat /\ f.base + Size(f.fn) <= 256
    BY ONLY CountOK(f), CountFields
  <2> QED BY Zenon, <1>4, <2>1, <2>2
<1>6. /\ sums \in [Counter32 -> Nat]
      /\ Light(f) => \A t \in Counter32 : sums[t] = Held(f, t)
      /\ \A t : t \notin Counter32 => Held(f, t) = 0
  BY Zenon, <1>3, Sums
<1>7. \A t \in Counter32 : b + t \in Bytes /\ (b + t) - b = t /\ t \in Int
  BY ONLY <1>5 DEF Bytes, Counter32
<1>8. v \in [Counter32 -> Nat] /\ \A t \in Counter32 : v[t] = k[b + t]
  <2>1. \A s \in Bytes : k[s] \in Nat
    BY Zenon, <1>2
  <2> QED BY Zenon, <1>4, <1>7, <2>1 DEF VectorAt
<1>9. added \in [Counter32 -> Residues]
  BY Zenon, <1>6, <1>8, LaneType
<1>10. f \in Fine /\ (Calm(k, f) => Light(f))
  <2>1. f \in Fine
    BY FineFacts DEF OK
  <2> QED BY Zenon, <2>1, CalmIsLight
<1>11. ASSUME Calm(k, f) PROVE \A t \in Counter32 : added[t] = v[t] + sums[t]
  <2>1. ASSUME NEW t \in Counter32 PROVE v[t] + sums[t] < CounterLimit
    <3>1. PICK s, a, h, w, m : /\ s = b + t /\ a = k[s] /\ h = Held(f, t) /\ w = Work(f, t)
                               /\ m = CounterLimit
      BY Zenon
    <3>2. s \in Bytes /\ s - b = t /\ t \in Int
      BY Zenon, <1>7, <3>1
    <3>3. Kept(f.fn, k, s) = a /\ Owed(f, s) = w
      BY Zenon, <1>3, <1>4, <3>1, <3>2 DEF Kept, Owed
    <3>4. a + w + 63 < m
      BY Zenon, <1>3, <1>11, <3>1, <3>2, <3>3 DEF Calm
    <3>5. h \in Nat /\ w \in Int /\ w + 63 >= h
      BY ONLY <3>1, <3>2, CountOK(f), HeldType, WorkType, WorkBound DEF OK
    <3>6. a \in Nat /\ m \in Nat
      <4>1. a \in Nat
        BY Zenon, <1>2, <3>1, <3>2
      <4> QED BY <3>1, <4>1, LimitAssumption
    <3>7. a + h < m
      BY ONLY <3>4, <3>5, <3>6
    <3>8. v[t] = a /\ sums[t] = h
      BY Zenon, <1>6, <1>8, <1>10, <1>11, <3>1
    <3> QED BY Zenon, <3>1, <3>7, <3>8
  <2> QED BY Zenon, <1>6, <1>8, <2>1, LaneExact
<1>12. ASSUME NEW s \in Bytes
       PROVE  /\ new[s] \in Residues
              /\ Calm(k, f) => (new[s] - Kept(f.fn, k, s)) - Held(f, s - f.base) \in Slack(f.fn)
  <2>1. PICK t, y : t = s - f.base /\ y = k[s]
    BY Zenon
  <2>2. Kept(f.fn, k, s) = y /\ y \in Residues /\ y \in Int
    BY Zenon, <1>2, <1>3, <2>1 DEF Kept
  <2>3. 0 \in Slack(f.fn)
    BY Zenon, Slacks
  <2>4. CASE t \in Counter32
    <3>1. new[s] = added[t] /\ added[t] \in Residues
      BY Zenon, <1>9, <2>1, <2>4
    <3>2. ASSUME Calm(k, f) PROVE (new[s] - y) - Held(f, t) = 0
      <4>1. PICK h : h = Held(f, t)
        BY Zenon
      <4>2. b + t = s
        <5>1. s \in Int
          BY Zenon, SymbolNumbers
        <5>2. t = s - b
          BY Zenon, <1>4, <2>1
        <5> QED BY ONLY <1>5, <5>1, <5>2
      <4>3. v[t] = y /\ sums[t] = h /\ h \in Nat
        <5>1. v[t] = y
          BY Zenon, <1>8, <2>1, <2>4, <4>2
        <5>2. sums[t] = h
          BY Zenon, <1>6, <1>10, <2>4, <3>2, <4>1
        <5> QED BY Zenon, <1>6, <2>4, <5>1, <5>2
      <4>4. new[s] = y + h
        BY Zenon, <1>11, <2>4, <3>1, <3>2, <4>3
      <4>5. ((y + h) - y) - h = 0
        BY ONLY <2>2, <4>3
      <4> QED BY Zenon, <4>1, <4>4, <4>5
    <3> QED BY Zenon, <2>1, <2>2, <2>3, <3>1, <3>2
  <2>5. CASE t \notin Counter32
    <3>1. new[s] = y /\ Held(f, t) = 0
      BY Zenon, <1>6, <2>1, <2>5
    <3> QED BY Zenon, <1>2, <2>1, <2>2, <2>3, <3>1
  <2> QED BY Zenon, <2>4, <2>5
<1>13. new \in [Bytes -> Residues]
  BY Zenon, <1>12
<1> QED BY Zenon, <1>1, <1>12, <1>13 DEF Gives

\* The end of a function that divides: both buffers have been given away.
LEMMA GivesDivided ==
    ASSUME NEW k \in [Bytes -> Residues], NEW f, DivideOK(f), f.phase = "outer", f.at >= End(f),
           f.left = 0, NEW k2,
           k2 = [k EXCEPT ![f.base] = (k[f.base] - f.padding) % CounterLimit]
    PROVE  Gives(k, f, k, k2)
<1>1. f.at >= Len(f.src)
  <2>1. Len(f.src) \in Nat /\ f.at \in Nat
    BY DivideFields
  <2>2. End(f) \in Nat /\ Len(f.src) = End(f) + (Len(f.src) % 64) /\ Len(f.src) % 64 \in Nat
    BY <2>1, EndFacts
  <2>3. f.left = Len(f.src) % 64 \/ f.at >= Len(f.src)
    BY Zenon DEF DivideOK
  <2>4. PICK n, e, r, a : n = Len(f.src) /\ e = End(f) /\ r = Len(f.src) % 64 /\ a = f.at
    BY Zenon
  <2>5. /\ n \in Nat /\ e \in Nat /\ r \in Nat /\ a \in Nat
        /\ n = e + r /\ (r = 0 \/ a >= n) /\ a >= e
    BY Zenon, <2>1, <2>2, <2>3, <2>4
  <2>6. a >= n
    BY ONLY <2>5
  <2> QED BY Zenon, <2>4, <2>6
<1>2. f.fn \in Dividers
  BY Zenon, DivideFields
<1>3. f.fn \notin Setters
  BY ONLY <1>2 DEF Dividers, Setters
<1>4. \A t : Held(f, t) = 0
  <2>1. f.buf0 = << >> /\ f.buf1 = << >>
    BY Zenon DEF DivideOK
  <2>2. 0 + 0 = 0
    OBVIOUS
  <2> QED BY Zenon, <1>2, <2>1, <2>2, OccEmpty DEF Held, Buffered
<1>5. \A r \in Residues : (r - r) - 0 = 0
  BY DEF Residues
<1>6. ASSUME NEW s \in Bytes PROVE (k[s] - Kept(f.fn, k, s)) - Held(f, s - f.base) \in Slack(f.fn)
  <2>1. k[s] \in Residues /\ Kept(f.fn, k, s) = k[s]
    BY Zenon, <1>3 DEF Kept
  <2>2. 0 \in Slack(f.fn)
    BY Zenon, Slacks
  <2> QED BY Zenon, <1>4, <1>5, <2>1, <2>2
<1> QED BY Zenon, <1>1, <1>6 DEF Gives

\* The frame after a step, as the code changes it field by field.
IsCount(r, f, at, padding, acc, b0, b1) == r = CountFrame(f, at, padding, acc, b0, b1)

LEMMA CountUpdates ==
    ASSUME NEW f, NEW at, NEW padding, NEW acc, NEW b0, NEW b1, NEW r, NEW x,
           IsCount(r, f, at, padding, acc, b0, b1)
    PROVE  /\ IsCount([r EXCEPT !.padding = x], f, at, x, acc, b0, b1)
           /\ IsCount([r EXCEPT !.acc = x], f, at, padding, x, b0, b1)
           /\ IsCount([r EXCEPT !.b0 = x], f, at, padding, acc, x, b1)
           /\ IsCount([r EXCEPT !.b1 = x], f, at, padding, acc, b0, x)
<1>0. r = CountFrame(f, at, padding, acc, b0, b1)
  BY Zenon DEF IsCount
<1>1. [CountFrame(f, at, padding, acc, b0, b1) EXCEPT !.padding = x]
        = CountFrame(f, at, x, acc, b0, b1)
  BY DEF CountFrame
<1>2. [CountFrame(f, at, padding, acc, b0, b1) EXCEPT !.acc = x]
        = CountFrame(f, at, padding, x, b0, b1)
  BY DEF CountFrame
<1>3. [CountFrame(f, at, padding, acc, b0, b1) EXCEPT !.b0 = x]
        = CountFrame(f, at, padding, acc, x, b1)
  BY DEF CountFrame
<1>4. [CountFrame(f, at, padding, acc, b0, b1) EXCEPT !.b1 = x]
        = CountFrame(f, at, padding, acc, b0, x)
  BY DEF CountFrame
<1> QED BY Zenon, <1>0, <1>1, <1>2, <1>3, <1>4 DEF IsCount

LEMMA CountMoves ==
    ASSUME NEW f, CountOK(f), NEW to, NEW padding
    PROVE  /\ IsCount([f EXCEPT !.at = to], f, to, f.padding, f.acc, f.b0, f.b1)
           /\ IsCount([f EXCEPT !.at = to, !.padding = padding], f, to, padding, f.acc, f.b0, f.b1)
<1>1. f \in CountFrames
  BY Zenon DEF CountOK
<1>2. PICK S, N, P, A, W : f \in [fn : Counters, src : S, base : N, at : N, padding : P,
                                  acc : A, b0 : W, b1 : W]
  BY Zenon, <1>1 DEF CountFrames
<1>3. [f EXCEPT !.at = to] = CountFrame(f, to, f.padding, f.acc, f.b0, f.b1)
  BY ONLY <1>2 DEF CountFrame
<1>4. IsCount([f EXCEPT !.at = to], f, to, f.padding, f.acc, f.b0, f.b1)
  BY Zenon, <1>3 DEF IsCount
<1>5. IsCount([[f EXCEPT !.at = to] EXCEPT !.padding = padding], f, to, padding, f.acc, f.b0, f.b1)
  BY Zenon, <1>4, CountUpdates
<1> QED BY Zenon, <1>4, <1>5

LEMMA CountAdds ==
    ASSUME NEW f, NEW at, NEW padding, NEW g, NEW acc, NEW b0, NEW b1,
           IsCount(g, f, at, padding, f.acc, f.b0, f.b1)
    PROVE  /\ IsCount([g EXCEPT !.b0 = b0, !.acc = acc], f, at, padding, acc, b0, f.b1)
           /\ IsCount([g EXCEPT !.b0 = b0, !.b1 = b1, !.acc = acc], f, at, padding, acc, b0, b1)
<1>1. IsCount([g EXCEPT !.b0 = b0], f, at, padding, f.acc, b0, f.b1)
  BY Zenon, CountUpdates
<1>2. IsCount([[g EXCEPT !.b0 = b0] EXCEPT !.b1 = b1], f, at, padding, f.acc, b0, b1)
  BY Zenon, <1>1, CountUpdates
<1>3. IsCount([g EXCEPT !.b0 = b0, !.acc = acc], f, at, padding, acc, b0, f.b1)
  BY Zenon, <1>1, CountUpdates
<1>4. IsCount([g EXCEPT !.b0 = b0, !.b1 = b1, !.acc = acc], f, at, padding, acc, b0, b1)
  <2>1. PICK h : h = [[g EXCEPT !.b0 = b0] EXCEPT !.b1 = b1]
    BY Zenon
  <2>2. IsCount(h, f, at, padding, f.acc, b0, b1)
    BY Zenon, <1>2, <2>1
  <2>3. IsCount([h EXCEPT !.acc = acc], f, at, padding, acc, b0, b1)
    BY ONLY <2>2, CountUpdates, Zenon
  <2> QED BY Zenon, <2>1, <2>3
<1> QED BY Zenon, <1>3, <1>4

IsDivide(r, f, at, padding, left, fake_end, buf0, buf1, phase) ==
    r = DivideFrame(f, at, padding, left, fake_end, buf0, buf1, phase)

LEMMA DivideUpdates ==
    ASSUME NEW f, NEW at, NEW padding, NEW left, NEW fake_end, NEW buf0, NEW buf1, NEW phase,
           NEW r, NEW x, IsDivide(r, f, at, padding, left, fake_end, buf0, buf1, phase)
    PROVE  /\ IsDivide([r EXCEPT !.at = x], f, x, padding, left, fake_end, buf0, buf1, phase)
           /\ IsDivide([r EXCEPT !.padding = x], f, at, x, left, fake_end, buf0, buf1, phase)
           /\ IsDivide([r EXCEPT !.left = x], f, at, padding, x, fake_end, buf0, buf1, phase)
           /\ IsDivide([r EXCEPT !.fake_end = x], f, at, padding, left, x, buf0, buf1, phase)
           /\ IsDivide([r EXCEPT !.buf0 = x], f, at, padding, left, fake_end, x, buf1, phase)
           /\ IsDivide([r EXCEPT !.buf1 = x], f, at, padding, left, fake_end, buf0, x, phase)
           /\ IsDivide([r EXCEPT !.phase = x], f, at, padding, left, fake_end, buf0, buf1, x)
<1>0. r = DivideFrame(f, at, padding, left, fake_end, buf0, buf1, phase)
  BY Zenon DEF IsDivide
<1>1. [DivideFrame(f, at, padding, left, fake_end, buf0, buf1, phase) EXCEPT !.at = x]
        = DivideFrame(f, x, padding, left, fake_end, buf0, buf1, phase)
  BY DEF DivideFrame
<1>2. [DivideFrame(f, at, padding, left, fake_end, buf0, buf1, phase) EXCEPT !.padding = x]
        = DivideFrame(f, at, x, left, fake_end, buf0, buf1, phase)
  BY DEF DivideFrame
<1>3. [DivideFrame(f, at, padding, left, fake_end, buf0, buf1, phase) EXCEPT !.left = x]
        = DivideFrame(f, at, padding, x, fake_end, buf0, buf1, phase)
  BY DEF DivideFrame
<1>4. [DivideFrame(f, at, padding, left, fake_end, buf0, buf1, phase) EXCEPT !.fake_end = x]
        = DivideFrame(f, at, padding, left, x, buf0, buf1, phase)
  BY DEF DivideFrame
<1>5. [DivideFrame(f, at, padding, left, fake_end, buf0, buf1, phase) EXCEPT !.buf0 = x]
        = DivideFrame(f, at, padding, left, fake_end, x, buf1, phase)
  BY DEF DivideFrame
<1>6. [DivideFrame(f, at, padding, left, fake_end, buf0, buf1, phase) EXCEPT !.buf1 = x]
        = DivideFrame(f, at, padding, left, fake_end, buf0, x, phase)
  BY DEF DivideFrame
<1>7. [DivideFrame(f, at, padding, left, fake_end, buf0, buf1, phase) EXCEPT !.phase = x]
        = DivideFrame(f, at, padding, left, fake_end, buf0, buf1, x)
  BY DEF DivideFrame
<1> QED BY Zenon, <1>0, <1>1, <1>2, <1>3, <1>4, <1>5, <1>6, <1>7 DEF IsDivide

LEMMA DivideExcept ==
    ASSUME NEW f, DivideOK(f), NEW at, NEW padding, NEW left, NEW fake_end, NEW buf0, NEW buf1,
           NEW phase
    PROVE  /\ IsDivide([f EXCEPT !.phase = phase, !.fake_end = fake_end],
                       f, f.at, f.padding, f.left, fake_end, f.buf0, f.buf1, phase)
           /\ IsDivide([f EXCEPT !.buf0 = buf0, !.buf1 = buf1, !.at = at],
                       f, at, f.padding, f.left, f.fake_end, buf0, buf1, f.phase)
           /\ IsDivide([[f EXCEPT !.phase = phase, !.left = left, !.padding = padding,
                                  !.fake_end = fake_end]
                         EXCEPT !.buf0 = buf0, !.buf1 = buf1, !.at = at],
                       f, at, padding, left, fake_end, buf0, buf1, phase)
           /\ IsDivide([f EXCEPT !.buf0 = buf0, !.phase = phase],
                       f, f.at, f.padding, f.left, f.fake_end, buf0, f.buf1, phase)
           /\ IsDivide([f EXCEPT !.buf1 = buf1, !.phase = phase],
                       f, f.at, f.padding, f.left, f.fake_end, f.buf0, buf1, phase)
<1>1. f \in DivideFrames
  BY Zenon DEF DivideOK
<1>2. PICK S, N, P, D, A : f \in [fn : D, src : S, base : N, at : N, padding : P, left : P,
                                  fake_end : N, buf0 : S, buf1 : S, phase : A]
  BY Zenon, <1>1 DEF DivideFrames
<1>3. f = DivideFrame(f, f.at, f.padding, f.left, f.fake_end, f.buf0, f.buf1, f.phase)
  BY ONLY <1>2 DEF DivideFrame
<1>4. IsDivide(f, f, f.at, f.padding, f.left, f.fake_end, f.buf0, f.buf1, f.phase)
  BY Zenon, <1>3 DEF IsDivide
<1>5. PICK g, h, k, m :
        /\ g = [f EXCEPT !.phase = phase] /\ h = [g EXCEPT !.left = left]
        /\ k = [h EXCEPT !.padding = padding] /\ m = [k EXCEPT !.fake_end = fake_end]
  BY Zenon
<1>6. IsDivide(g, f, f.at, f.padding, f.left, f.fake_end, f.buf0, f.buf1, phase)
  <2>1. IsDivide([f EXCEPT !.phase = phase],
                 f, f.at, f.padding, f.left, f.fake_end, f.buf0, f.buf1, phase)
    BY ONLY <1>4, DivideUpdates, Zenon
  <2> QED BY Zenon, <1>5, <2>1
<1>7. IsDivide([f EXCEPT !.phase = phase, !.fake_end = fake_end],
               f, f.at, f.padding, f.left, fake_end, f.buf0, f.buf1, phase)
  <2>1. IsDivide([g EXCEPT !.fake_end = fake_end],
                 f, f.at, f.padding, f.left, fake_end, f.buf0, f.buf1, phase)
    BY ONLY <1>6, DivideUpdates, Zenon
  <2> QED BY Zenon, <1>5, <2>1
<1>8. IsDivide(h, f, f.at, f.padding, left, f.fake_end, f.buf0, f.buf1, phase)
  <2>1. IsDivide([g EXCEPT !.left = left],
                 f, f.at, f.padding, left, f.fake_end, f.buf0, f.buf1, phase)
    BY ONLY <1>6, DivideUpdates, Zenon
  <2> QED BY Zenon, <1>5, <2>1
<1>9. IsDivide(k, f, f.at, padding, left, f.fake_end, f.buf0, f.buf1, phase)
  <2>1. IsDivide([h EXCEPT !.padding = padding],
                 f, f.at, padding, left, f.fake_end, f.buf0, f.buf1, phase)
    BY ONLY <1>8, DivideUpdates, Zenon
  <2> QED BY Zenon, <1>5, <2>1
<1>10. IsDivide(m, f, f.at, padding, left, fake_end, f.buf0, f.buf1, phase)
  <2>1. IsDivide([k EXCEPT !.fake_end = fake_end],
                 f, f.at, padding, left, fake_end, f.buf0, f.buf1, phase)
    BY ONLY <1>9, DivideUpdates, Zenon
  <2> QED BY Zenon, <1>5, <2>1
<1>11. ASSUME NEW r, NEW a, NEW p, NEW l, NEW e, NEW q,
              IsDivide(r, f, a, p, l, e, f.buf0, f.buf1, q)
       PROVE  IsDivide([r EXCEPT !.buf0 = buf0, !.buf1 = buf1, !.at = at],
                       f, at, p, l, e, buf0, buf1, q)
  <2>1. PICK u, v : u = [r EXCEPT !.buf0 = buf0] /\ v = [u EXCEPT !.buf1 = buf1]
    BY Zenon
  <2>2. IsDivide(u, f, a, p, l, e, buf0, f.buf1, q)
    <3>1. IsDivide([r EXCEPT !.buf0 = buf0], f, a, p, l, e, buf0, f.buf1, q)
      BY ONLY <1>11, DivideUpdates, Zenon
    <3> QED BY Zenon, <2>1, <3>1
  <2>3. IsDivide(v, f, a, p, l, e, buf0, buf1, q)
    <3>1. IsDivide([u EXCEPT !.buf1 = buf1], f, a, p, l, e, buf0, buf1, q)
      BY ONLY <2>2, DivideUpdates, Zenon
    <3> QED BY Zenon, <2>1, <3>1
  <2>4. IsDivide([v EXCEPT !.at = at], f, at, p, l, e, buf0, buf1, q)
    BY ONLY <2>3, DivideUpdates, Zenon
  <2> QED BY Zenon, <2>1, <2>4
<1>12. IsDivide([f EXCEPT !.buf0 = buf0, !.buf1 = buf1, !.at = at],
                f, at, f.padding, f.left, f.fake_end, buf0, buf1, f.phase)
  BY ONLY <1>4, <1>11, Zenon
<1>13. IsDivide([m EXCEPT !.buf0 = buf0, !.buf1 = buf1, !.at = at],
                f, at, padding, left, fake_end, buf0, buf1, phase)
  BY ONLY <1>10, <1>11, Zenon
<1>14. IsDivide([[f EXCEPT !.phase = phase, !.left = left, !.padding = padding,
                           !.fake_end = fake_end]
                  EXCEPT !.buf0 = buf0, !.buf1 = buf1, !.at = at],
                f, at, padding, left, fake_end, buf0, buf1, phase)
  BY Zenon, <1>5, <1>13
<1>15. IsDivide([f EXCEPT !.buf0 = buf0, !.phase = phase],
                f, f.at, f.padding, f.left, f.fake_end, buf0, f.buf1, phase)
  <2>1. PICK u : u = [f EXCEPT !.buf0 = buf0]
    BY Zenon
  <2>2. IsDivide([f EXCEPT !.buf0 = buf0],
                 f, f.at, f.padding, f.left, f.fake_end, buf0, f.buf1, f.phase)
    BY ONLY <1>4, DivideUpdates, Zenon
  <2>3. IsDivide(u, f, f.at, f.padding, f.left, f.fake_end, buf0, f.buf1, f.phase)
    BY Zenon, <2>1, <2>2
  <2>4. IsDivide([u EXCEPT !.phase = phase],
                 f, f.at, f.padding, f.left, f.fake_end, buf0, f.buf1, phase)
    BY ONLY <2>3, DivideUpdates, Zenon
  <2> QED BY Zenon, <2>1, <2>4
<1>16. IsDivide([f EXCEPT !.buf1 = buf1, !.phase = phase],
                f, f.at, f.padding, f.left, f.fake_end, f.buf0, buf1, phase)
  <2>1. PICK u : u = [f EXCEPT !.buf1 = buf1]
    BY Zenon
  <2>2. IsDivide([f EXCEPT !.buf1 = buf1],
                 f, f.at, f.padding, f.left, f.fake_end, f.buf0, buf1, f.phase)
    BY ONLY <1>4, DivideUpdates, Zenon
  <2>3. IsDivide(u, f, f.at, f.padding, f.left, f.fake_end, f.buf0, buf1, f.phase)
    BY Zenon, <2>1, <2>2
  <2>4. IsDivide([u EXCEPT !.phase = phase],
                 f, f.at, f.padding, f.left, f.fake_end, f.buf0, buf1, phase)
    BY ONLY <2>3, DivideUpdates, Zenon
  <2> QED BY Zenon, <2>1, <2>4
<1> QED BY Zenon, <1>7, <1>12, <1>14, <1>15, <1>16

\* The next vector, ...
LEMMA ReadsWhole ==
    ASSUME NEW f, OK(f), f.at + 64 <= Len(f.src), NEW raw, raw = NextVector(f)
    PROVE  Reads(f, raw, f.at + 64, f.padding)
<1>1. PICK a, p, src, fn, to : a = f.at /\ p = f.padding /\ src = f.src /\ fn = f.fn /\ to = a + 64
  BY Zenon
<1>2. a \in Nat /\ p \in Short /\ p \in Int /\ src \in Seq(Bytes)
  <2>1. f.at \in Nat /\ f.padding \in Short /\ f.padding \in Nat /\ f.src \in Seq(Bytes)
    BY CountFields, DivideFields DEF OK
  <2> QED BY <1>1, <2>1
<1>3. to \in Nat /\ a + 64 <= Len(src)
  BY <1>1, <1>2
<1>4. raw = SubSeq(src, a + 1, a + 64)
  BY Zenon, <1>1 DEF NextVector
<1>5. /\ raw \in Seq(Bytes) /\ Len(raw) = 64
      /\ \A t : /\ Occ(raw, Class(Size(fn), t)) \in Nat
                /\ Ahead(fn, src, a, p, t) = Occ(raw, Class(Size(fn), t)) + Ahead(fn, src, a + 64, p, t)
  <2>1. Whole(src, a, p, raw)
    BY Zenon, <1>2, <1>3, <1>4 DEF Whole
  <2> QED BY ONLY <2>1, WholeVector
<1> QED BY Zenon, <1>1, <1>2, <1>3, <1>5 DEF Reads

\* ... and what there is with zeros behind it.
LEMMA ReadsTail ==
    ASSUME NEW f, OK(f), f.padding = 0, Len(f.src) - f.at \in 1 .. 63, NEW raw,
           raw = MaskedVector(f), NEW more, more = 64 - (Len(f.src) - f.at),
           NEW to \in Nat, to >= Len(f.src)
    PROVE  Reads(f, raw, to, more)
<1>1. PICK a, src, fn, n : a = f.at /\ src = f.src /\ fn = f.fn /\ n = Len(f.src)
  BY Zenon
<1>2. a \in Nat /\ src \in Seq(Bytes) /\ fn \in Counters \union Dividers /\ n \in Nat
  <2>1. f.at \in Nat /\ f.src \in Seq(Bytes) /\ f.fn \in Counters \union Dividers /\ Len(f.src) \in Nat
    BY CountFields, DivideFields DEF OK
  <2> QED BY <1>1, <2>1
<1>3. more = 64 - (n - a) /\ n - a \in 1 .. 63 /\ to >= n
  BY Zenon, <1>1
<1>4. more \in 0 .. 63 /\ more \in Nat /\ a <= n
  BY ONLY <1>2, <1>3
<1>5. raw = SubSeq(src, a + 1, Len(src)) \o Zeros(more)
  BY Zenon, <1>1 DEF MaskedVector
<1>6. a <= Len(src) /\ more = 64 - (Len(src) - a) /\ to >= Len(src)
  BY Zenon, <1>1, <1>3, <1>4
<1>7. /\ raw \in Seq(Bytes) /\ Len(raw) = 64
      /\ \A t \in Int :
           /\ Occ(raw, Class(Size(fn), t)) \in Nat
           /\ Ahead(fn, src, a, 0, t) = Occ(raw, Class(Size(fn), t)) + Ahead(fn, src, to, more, t)
  <2>1. Padded(fn, src, a, raw, more, to)
    BY Zenon, <1>2, <1>4, <1>5, <1>6 DEF Padded
  <2> QED BY ONLY <2>1, PaddedVector
<1> QED BY Zenon, <1>1, <1>4, <1>7 DEF Reads, Short

-----------------------------------------------------------------------------
(* The actions.                                                            *)

\* A frame after a vector has been added to its words.
Next16(f, raw, next, g, sum, high, count) ==
    /\ WordSums16(raw, f.b0, sum, high) /\ count = Popcnt16(high)
    /\ g = [next EXCEPT !.b0 = sum, !.acc = [s \in 0 .. 15 |-> f.acc[s] + count[s]]]

Next32(f, raw, next, g, sum1, high1, sum2, high2, sum3, high3, count) ==
    /\ WordSums32(raw, f.b0, f.b1, sum1, high1, sum2, high2, sum3, high3)
    /\ count = Popcnt32(high3)
    /\ g = [next EXCEPT !.b0 = sum2, !.b1 = sum3,
                        !.acc = LaneAdd(f.acc, count)]

NextCount(f, raw, next, g) ==
    \/ /\ f.fn = "vhist16"
       /\ \E sum, high, count : Next16(f, raw, next, g, sum, high, count)
    \/ /\ f.fn # "vhist16"
       /\ \E sum1, high1, sum2, high2, sum3, high3, count :
            Next32(f, raw, next, g, sum1, high1, sum2, high2, sum3, high3, count)

LEMMA AddMeans ==
    ASSUME NEW f, NEW raw \in Seq(Bytes), Len(raw) = 64, NEW next, Add(f, raw, next)
    PROVE  \E g : Becomes(g) /\ NextCount(f, raw, next, g)
<1>1. CASE f.fn = "vhist16" /\ Add16(f, raw, next)
  <2>1. PICK x0 \in {OneBits(raw, 2, 0)}, x1 \in {OneBits(raw, 2, 1)} :
          \E sum \in {FALow(x1, f.b0, x0)} :
          \E count \in {Popcnt16(FAHigh(x1, sum, x0))} :
            Becomes([next EXCEPT !.b0 = sum, !.acc = [s \in 0 .. 15 |-> f.acc[s] + count[s]]])
    BY Zenon, <1>1 DEF Add16
  <2>2. PICK sum \in {FALow(x1, f.b0, x0)} :
          \E count \in {Popcnt16(FAHigh(x1, sum, x0))} :
            Becomes([next EXCEPT !.b0 = sum, !.acc = [s \in 0 .. 15 |-> f.acc[s] + count[s]]])
    BY Zenon, <2>1
  <2>3. PICK count \in {Popcnt16(FAHigh(x1, sum, x0))} :
          Becomes([next EXCEPT !.b0 = sum, !.acc = [s \in 0 .. 15 |-> f.acc[s] + count[s]]])
    BY Zenon, <2>2
  <2>4. PICK high, g :
          /\ high = FAHigh(x1, sum, x0)
          /\ g = [next EXCEPT !.b0 = sum, !.acc = [s \in 0 .. 15 |-> f.acc[s] + count[s]]]
    BY Zenon
  <2>5. WordSums16(raw, f.b0, sum, high)
    BY Zenon, <2>1, <2>2, <2>4 DEF WordSums16
  <2>6. count = Popcnt16(high)
    BY Zenon, <2>4
  <2>7. Becomes(g)
    BY Zenon, <2>3, <2>4
  <2>8. Next16(f, raw, next, g, sum, high, count)
    BY ONLY Zenon, <2>4, <2>5, <2>6 DEF Next16
  <2>9. NextCount(f, raw, next, g)
    BY ONLY Zenon, <1>1, <2>8 DEF NextCount
  <2> QED BY ONLY Zenon, <2>7, <2>9
<1>2. CASE f.fn # "vhist16" /\ Add32(f, raw, next)
  <2> DEFINE New(sum2, sum3, count) ==
               [next EXCEPT !.b0 = sum2, !.b1 = sum3,
                            !.acc = LaneAdd(f.acc, count)]
  <2>1. PICK x0 \in {OneBits(raw, 4, 0)}, x1 \in {OneBits(raw, 4, 1)},
             x2 \in {OneBits(raw, 4, 2)}, x3 \in {OneBits(raw, 4, 3)} :
          \E sum1 \in {FALow(x1, f.b0, x0)} : \E carry1 \in {FAHigh(x1, sum1, x0)} :
          \E sum2 \in {FALow(x3, sum1, x2)} : \E carry2 \in {FAHigh(x3, sum2, x2)} :
          \E sum3 \in {FALow(carry2, f.b1, carry1)} :
          \E count \in {Popcnt32(FAHigh(carry2, sum3, carry1))} :
            Becomes(New(sum2, sum3, count))
    BY Zenon, <1>2 DEF Add32
  <2>2. PICK sum1 \in {FALow(x1, f.b0, x0)} : \E carry1 \in {FAHigh(x1, sum1, x0)} :
          \E sum2 \in {FALow(x3, sum1, x2)} : \E carry2 \in {FAHigh(x3, sum2, x2)} :
          \E sum3 \in {FALow(carry2, f.b1, carry1)} :
          \E count \in {Popcnt32(FAHigh(carry2, sum3, carry1))} :
            Becomes(New(sum2, sum3, count))
    BY Zenon, <2>1
  <2>3. PICK carry1 \in {FAHigh(x1, sum1, x0)} :
          \E sum2 \in {FALow(x3, sum1, x2)} : \E carry2 \in {FAHigh(x3, sum2, x2)} :
          \E sum3 \in {FALow(carry2, f.b1, carry1)} :
          \E count \in {Popcnt32(FAHigh(carry2, sum3, carry1))} :
            Becomes(New(sum2, sum3, count))
    BY Zenon, <2>2
  <2>4. PICK sum2 \in {FALow(x3, sum1, x2)} : \E carry2 \in {FAHigh(x3, sum2, x2)} :
          \E sum3 \in {FALow(carry2, f.b1, carry1)} :
          \E count \in {Popcnt32(FAHigh(carry2, sum3, carry1))} :
            Becomes(New(sum2, sum3, count))
    BY Zenon, <2>3
  <2>5. PICK carry2 \in {FAHigh(x3, sum2, x2)} : \E sum3 \in {FALow(carry2, f.b1, carry1)} :
          \E count \in {Popcnt32(FAHigh(carry2, sum3, carry1))} :
            Becomes(New(sum2, sum3, count))
    BY Zenon, <2>4
  <2>6. PICK sum3 \in {FALow(carry2, f.b1, carry1)} :
          \E count \in {Popcnt32(FAHigh(carry2, sum3, carry1))} :
            Becomes(New(sum2, sum3, count))
    BY Zenon, <2>5
  <2>7. PICK count \in {Popcnt32(FAHigh(carry2, sum3, carry1))} : Becomes(New(sum2, sum3, count))
    BY Zenon, <2>6
  <2>8. PICK high, g : high = FAHigh(carry2, sum3, carry1) /\ g = New(sum2, sum3, count)
    BY Zenon
  <2>9. WordSums32(raw, f.b0, f.b1, sum1, carry1, sum2, carry2, sum3, high)
    BY Zenon, <2>1, <2>2, <2>3, <2>4, <2>5, <2>6, <2>8 DEF WordSums32
  <2>10. count = Popcnt32(high)
    BY Zenon, <2>8
  <2>11. Becomes(g)
    BY Zenon, <2>7, <2>8
  <2>12. Next32(f, raw, next, g, sum1, carry1, sum2, carry2, sum3, high, count)
    BY ONLY Zenon, <2>8, <2>9, <2>10 DEF Next32, New
  <2>13. NextCount(f, raw, next, g)
    BY ONLY Zenon, <1>2, <2>12 DEF NextCount
  <2> QED BY ONLY Zenon, <2>11, <2>13
<1> QED BY Zenon, <1>1, <1>2 DEF Add

LEMMA NextCounted ==
    ASSUME NEW f, CountOK(f), NEW raw, NEW to, NEW padding, Reads(f, raw, to, padding),
           to <= Len(f.src), to < Len(f.src) => padding = 0, NEW next,
           IsCount(next, f, to, padding, f.acc, f.b0, f.b1), NEW g, NextCount(f, raw, next, g)
    PROVE  Follows(f, g)
<1>1. CASE f.fn = "vhist16"
  <2>0. PICK sum, high, count : Next16(f, raw, next, g, sum, high, count)
    BY Zenon, <1>1 DEF NextCount
  <2>1. /\ WordSums16(raw, f.b0, sum, high) /\ count = Popcnt16(high)
        /\ g = [next EXCEPT !.b0 = sum, !.acc = [s \in 0 .. 15 |-> f.acc[s] + count[s]]]
    BY Zenon, <2>0 DEF Next16
  <2>2. PICK acc : acc = [s \in 0 .. 15 |-> f.acc[s] + count[s]]
    BY Zenon
  <2>3. IsCount([next EXCEPT !.b0 = sum, !.acc = acc], f, to, padding, acc, sum, f.b1)
    BY Zenon, CountAdds
  <2>4. g = CountFrame(f, to, padding, acc, sum, f.b1)
    BY Zenon, <2>1, <2>2, <2>3 DEF IsCount
  <2>5. acc = [s \in 0 .. 15 |-> f.acc[s] + Popcnt16(high)[s]]
    BY Zenon, <2>1, <2>2
  <2>6. Counts16(f, raw, to, padding, g)
    BY Zenon, <1>1, <2>1, <2>4, <2>5 DEF Counts16
  <2> QED BY ONLY <2>6, Step16
<1>2. CASE f.fn # "vhist16"
  <2>0. PICK sum1, high1, sum2, high2, sum3, high3, count :
          Next32(f, raw, next, g, sum1, high1, sum2, high2, sum3, high3, count)
    BY Zenon, <1>2 DEF NextCount
  <2>1. /\ WordSums32(raw, f.b0, f.b1, sum1, high1, sum2, high2, sum3, high3)
        /\ count = Popcnt32(high3)
        /\ g = [next EXCEPT !.b0 = sum2, !.b1 = sum3,
                            !.acc = LaneAdd(f.acc, count)]
    BY Zenon, <2>0 DEF Next32
  <2>2. PICK acc : acc = LaneAdd(f.acc, count)
    BY Zenon
  <2>3. IsCount([next EXCEPT !.b0 = sum2, !.b1 = sum3, !.acc = acc],
                f, to, padding, acc, sum2, sum3)
    BY Zenon, CountAdds
  <2>4. g = CountFrame(f, to, padding, acc, sum2, sum3)
    BY Zenon, <2>1, <2>2, <2>3 DEF IsCount
  <2>5. acc = LaneAdd(f.acc, Popcnt32(high3))
    BY Zenon, <2>1, <2>2
  <2>6. Made32(f, raw, to, padding, g, sum1, high1, sum2, high2, sum3, high3, acc)
    BY ONLY Zenon, <2>1, <2>4, <2>5 DEF Made32
  <2>7. CountOK(f) /\ Reads(f, raw, to, padding) /\ to <= Len(f.src)
        /\ (to < Len(f.src) => padding = 0)
    BY Zenon
  <2>8. Counts32(f, raw, to, padding, g)
    BY ONLY Zenon, <1>2, <2>6, <2>7 DEF Counts32
  <2> QED BY ONLY <2>8, Step32
<1> QED BY Zenon, <1>1, <1>2

\* Who is on top, and what it means that it goes on or returns.
LEMMA OnTop ==
    ASSUME HistInv, NEW fns, Running(fns)
    PROVE  /\ calls = "run" /\ frames # << >> /\ Head(frames).fn \in fns
           /\ HistHolds(call, counts, frames, "run") /\ OK(Head(frames))
           /\ counts \in [Bytes -> Residues]
           /\ Head(frames).fn \in Counters => CountOK(Head(frames))
           /\ Head(frames).fn \in Dividers => DivideOK(Head(frames))
<1>1. calls = "run" /\ frames # << >> /\ Head(frames).fn \in fns
  BY Zenon DEF Running
<1>2. HistHolds(call, counts, frames, "run")
  BY Zenon, <1>1 DEF HistInv
<1>3. PICK c, k, fr : c = call /\ k = counts /\ fr = frames
  BY Zenon
<1>4. HistHolds(c, k, fr, "run") /\ fr # << >>
  BY Zenon, <1>1, <1>2, <1>3
<1>5. Stack(fr, c.fn) /\ k \in [Bytes -> Residues]
  BY Zenon, <1>4 DEF HistHolds
<1>6. OK(Head(fr))
  BY ONLY <1>4, <1>5, Innermost
<1>7. PICK f : f = Head(fr)
  BY Zenon
<1>8. CountOK(f) \/ DivideOK(f)
  BY Zenon, <1>6, <1>7 DEF OK
<1>9. /\ f.fn \in Counters => CountOK(f)
      /\ f.fn \in Dividers => DivideOK(f)
  <2>1. CountOK(f) => f.fn \notin Dividers
    BY Zenon, CountFields
  <2>2. DivideOK(f) => f.fn \notin Counters
    BY Zenon, DivideFields
  <2> QED BY Zenon, <1>8, <2>1, <2>2
<1> QED BY Zenon, <1>1, <1>2, <1>3, <1>5, <1>6, <1>7, <1>9

LEMMA HeadMoves ==
    ASSUME HistInv, NEW fns, Running(fns), UNCHANGED <<call, counts, calls>>,
           NEW g, Becomes(g), Follows(Head(frames), g)
    PROVE  HistInv'
<1>1. HistHolds(call, counts, frames, "run") /\ frames # << >> /\ calls = "run"
  BY Zenon, OnTop
<1>2. PICK c, k, fr, new : c = call /\ k = counts /\ fr = frames /\ new = frames'
  BY Zenon
<1>3. Moves(c, k, fr, g, new)
  BY Zenon, <1>1, <1>2 DEF Moves, Becomes
<1>4. HistHolds(c, k, new, "run")
  BY ONLY <1>3, GoesOn
<1>5. call' = c /\ counts' = k /\ calls' = "run" /\ frames' = new
  BY Zenon, <1>1, <1>2
<1> QED BY Zenon, <1>4, <1>5 DEF HistInv

LEMMA HeadLeaves ==
    ASSUME HistInv, NEW fns, Running(fns), UNCHANGED <<call, calls>>,
           frames' = Tail(frames), NEW new, NEW k2, k2 = counts',
           Gives(counts, Head(frames), new, k2)
    PROVE  HistInv'
<1>1. HistHolds(call, counts, frames, "run") /\ frames # << >> /\ calls = "run"
  BY Zenon, OnTop
<1>2. PICK c, k, fr : c = call /\ k = counts /\ fr = frames
  BY Zenon
<1>3. Leaves(c, k, fr, new, k2)
  BY Zenon, <1>1, <1>2 DEF Leaves
<1>4. HistHolds(c, k2, Tail(fr), "run")
  BY ONLY <1>3, Left
<1>5. call' = c /\ counts' = k2 /\ calls' = "run" /\ frames' = Tail(fr)
  BY Zenon, <1>1, <1>2
<1> QED BY Zenon, <1>4, <1>5 DEF HistInv

LEMMA WholeCounted ==
    ASSUME HistInv, CountVector
    PROVE  HistInv'
<1>1. PICK f : /\ f = Head(frames) /\ Len(f.src) - f.at >= 64
               /\ \E raw \in {NextVector(f)} : Add(f, raw, [f EXCEPT !.at = f.at + 64])
  BY Zenon DEF CountVector
<1>2. PICK raw : raw = NextVector(f) /\ Add(f, raw, [f EXCEPT !.at = f.at + 64])
  BY Zenon, <1>1
<1>3. CountOK(f) /\ Running(Counters) /\ UNCHANGED <<call, counts, calls>>
  <2>1. Running(Counters) /\ UNCHANGED <<call, counts, calls>>
    BY Zenon DEF CountVector
  <2> QED BY Zenon, <1>1, <2>1, OnTop
<1>4. f.at \in Nat /\ Len(f.src) \in Nat
      /\ f.at <= Len(f.src) /\ (f.at < Len(f.src) => f.padding = 0)
  BY Zenon, <1>3, CountFields
<1>5. PICK n, a, to : n = Len(f.src) /\ a = f.at /\ to = f.at + 64
  BY Zenon
<1>6. n \in Nat /\ a \in Nat /\ n - a >= 64 /\ to = a + 64
  BY Zenon, <1>1, <1>4, <1>5
<1>7. a + 64 <= n /\ to <= n /\ a < n
  BY ONLY <1>6
<1>8. Reads(f, raw, to, f.padding)
  <2>1. OK(f) /\ f.at + 64 <= Len(f.src)
    BY Zenon, <1>3, <1>5, <1>7 DEF OK
  <2> QED BY Zenon, <1>2, <1>5, <2>1, ReadsWhole
<1>9. raw \in Seq(Bytes) /\ Len(raw) = 64
  BY Zenon, <1>8 DEF Reads
<1>10. PICK next : next = [f EXCEPT !.at = f.at + 64]
  BY Zenon
<1>11. PICK g : Becomes(g) /\ NextCount(f, raw, next, g)
  BY Zenon, <1>2, <1>9, <1>10, AddMeans
<1>12. IsCount(next, f, to, f.padding, f.acc, f.b0, f.b1)
  BY Zenon, <1>3, <1>5, <1>10, CountMoves
<1>13. f.padding = 0 /\ to <= Len(f.src)
  BY Zenon, <1>4, <1>5, <1>7
<1>14. Follows(f, g)
  BY Zenon, <1>3, <1>8, <1>11, <1>12, <1>13, NextCounted
<1> QED BY Zenon, <1>1, <1>3, <1>11, <1>14, HeadMoves

LEMMA RestCounted ==
    ASSUME HistInv, CountTail
    PROVE  HistInv'
<1>1. PICK f : /\ f = Head(frames) /\ Len(f.src) - f.at \in 1 .. 63
               /\ \E raw \in {MaskedVector(f)} :
                    Add(f, raw, [f EXCEPT !.at = Len(f.src),
                                          !.padding = 64 - (Len(f.src) - f.at)])
  BY Zenon DEF CountTail
<1>2. PICK raw : /\ raw = MaskedVector(f)
                 /\ Add(f, raw, [f EXCEPT !.at = Len(f.src),
                                          !.padding = 64 - (Len(f.src) - f.at)])
  BY Zenon, <1>1
<1>3. CountOK(f) /\ Running(Counters) /\ UNCHANGED <<call, counts, calls>>
  <2>1. Running(Counters) /\ UNCHANGED <<call, counts, calls>>
    BY Zenon DEF CountTail
  <2> QED BY Zenon, <1>1, <2>1, OnTop
<1>4. f.at \in Nat /\ Len(f.src) \in Nat
      /\ f.at <= Len(f.src) /\ (f.at < Len(f.src) => f.padding = 0)
  BY Zenon, <1>3, CountFields
<1>5. PICK n, a, more : n = Len(f.src) /\ a = f.at /\ more = 64 - (Len(f.src) - f.at)
  BY Zenon
<1>6. n \in Nat /\ a \in Nat /\ n - a \in 1 .. 63
  BY Zenon, <1>1, <1>4, <1>5
<1>7. a < n /\ n <= n /\ n >= n /\ ~ (n < n)
  BY ONLY <1>6
<1>8. f.padding = 0
  BY Zenon, <1>4, <1>5, <1>7
<1>9. Reads(f, raw, n, more)
  <2>1. OK(f) /\ n \in Nat /\ n >= Len(f.src)
    BY Zenon, <1>3, <1>5, <1>6, <1>7 DEF OK
  <2> QED BY Zenon, <1>1, <1>2, <1>5, <1>8, <2>1, ReadsTail
<1>10. raw \in Seq(Bytes) /\ Len(raw) = 64
  BY Zenon, <1>9 DEF Reads
<1>11. PICK next : next = [f EXCEPT !.at = Len(f.src), !.padding = 64 - (Len(f.src) - f.at)]
  BY Zenon
<1>12. PICK g : Becomes(g) /\ NextCount(f, raw, next, g)
  BY Zenon, <1>2, <1>10, <1>11, AddMeans
<1>13. IsCount(next, f, n, more, f.acc, f.b0, f.b1)
  BY Zenon, <1>3, <1>5, <1>11, CountMoves
<1>14. n <= Len(f.src) /\ (n < Len(f.src) => more = 0)
  BY Zenon, <1>5, <1>7
<1>15. Follows(f, g)
  BY Zenon, <1>3, <1>9, <1>12, <1>13, <1>14, NextCounted
<1> QED BY Zenon, <1>1, <1>3, <1>12, <1>15, HeadMoves

\* What Leave does to the counters.
LEMMA LeaveMeans ==
    ASSUME NEW f, NEW new, Leave(f, new)
    PROVE  /\ counts' = [new EXCEPT ![f.base] = (new[f.base] - f.padding) % CounterLimit]
           /\ frames' = Tail(frames) /\ UNCHANGED <<call, calls>>
BY Zenon DEF Leave

\* Only the function the program called sets its counters.
LEMMA Outermost ==
    ASSUME HistInv, NEW fn \in Setters, Running({fn})
    PROVE  Head(frames).base = 0 /\ CountOK(Head(frames)) /\ Head(frames).fn = fn
<1>1. PICK c, fr : c = call /\ fr = frames
  BY Zenon
<1>2. Stack(fr, c.fn) /\ fr # << >> /\ Head(fr).fn = fn
  <2>1. HistHolds(call, counts, frames, "run") /\ frames # << >> /\ Head(frames).fn \in {fn}
    BY Zenon, OnTop
  <2>2. Stack(frames, call.fn)
    BY ONLY Zenon, <2>1 DEF HistHolds
  <2> QED BY Zenon, <1>1, <2>1, <2>2
<1>3. /\ Tail(fr) = << >> => Head(fr).base = 0
      /\ Tail(fr) # << >> => Head(fr).fn \in {"__vhist32"} \union Dividers
  BY ONLY <1>2, Returned
<1>4. \A d \in {"__vhist32"} \union Dividers : d \notin Setters
  BY DEF Dividers, Setters
<1>5. Head(fr).base = 0
  BY Zenon, <1>2, <1>3, <1>4
<1>6. fn \in Counters
  BY DEF Setters, Counters
<1> QED BY Zenon, <1>1, <1>2, <1>5, <1>6, OnTop

LEMMA Sixteen ==
    ASSUME HistInv, Return16
    PROVE  HistInv'
<1>1. PICK f, ones :
        /\ f = Head(frames) /\ ones = Popcnt16(f.b0) /\ f.at = Len(f.src)
        /\ Leave(f, [s \in Bytes |-> IF s < 16 THEN (2 * f.acc[s] + ones[s]) % CounterLimit
                                     ELSE counts[s]])
  <2>1. PICK f \in {Head(frames)} : \E ones \in {Popcnt16(f.b0)} :
          /\ f.at = Len(f.src)
          /\ Leave(f, [s \in Bytes |-> IF s < 16 THEN (2 * f.acc[s] + ones[s]) % CounterLimit
                                       ELSE counts[s]])
    BY Zenon DEF Return16
  <2> QED BY Zenon, <2>1
<1>2. PICK k, new, k2 :
        /\ k = counts /\ k2 = counts'
        /\ new = [s \in Bytes |-> IF s < 16 THEN (2 * f.acc[s] + ones[s]) % CounterLimit
                                  ELSE k[s]]
  BY Zenon
<1>3. Leave(f, new)
  BY Zenon, <1>1, <1>2
<1>4. /\ k2 = [new EXCEPT ![f.base] = (new[f.base] - f.padding) % CounterLimit]
      /\ frames' = Tail(frames) /\ UNCHANGED <<call, calls>>
  BY Zenon, <1>2, <1>3, LeaveMeans
<1>5. Running({"vhist16"}) /\ "vhist16" \in Setters
  BY Zenon, SymbolNumbers DEF Return16
<1>6. f.base = 0 /\ CountOK(f) /\ f.fn = "vhist16"
  BY Zenon, <1>1, <1>5, Outermost
<1>7. k \in [Bytes -> Residues]
  BY Zenon, <1>2, <1>5, OnTop
<1>8. new = [s \in Bytes |-> IF s < 16 THEN (2 * f.acc[s] + Ones16(f.b0, s)) % CounterLimit
                             ELSE k[s]]
  BY Zenon, <1>1, <1>2 DEF Ones16
<1>9. Gives(k, f, new, k2)
  BY Zenon, <1>1, <1>4, <1>6, <1>7, <1>8, Gives16
<1> QED BY Zenon, <1>1, <1>2, <1>4, <1>5, <1>9, HeadLeaves

LEMMA ThirtyTwo ==
    ASSUME HistInv, Return32
    PROVE  HistInv'
<1>1. PICK f, sums :
        /\ f = Head(frames) /\ sums = Sums32(f) /\ f.at = Len(f.src)
        /\ Leave(f, [s \in Bytes |-> IF s < 32 THEN sums[s] ELSE counts[s]])
  <2>1. PICK f \in {Head(frames)} : \E sums \in {Sums32(f)} :
          /\ f.at = Len(f.src)
          /\ Leave(f, [s \in Bytes |-> IF s < 32 THEN sums[s] ELSE counts[s]])
    BY Zenon DEF Return32
  <2> QED BY Zenon, <2>1
<1>2. PICK k, new, k2 : /\ k = counts /\ k2 = counts'
                        /\ new = [s \in Bytes |-> IF s < 32 THEN sums[s] ELSE k[s]]
  BY Zenon
<1>3. Leave(f, new)
  BY Zenon, <1>1, <1>2
<1>4. /\ k2 = [new EXCEPT ![f.base] = (new[f.base] - f.padding) % CounterLimit]
      /\ frames' = Tail(frames) /\ UNCHANGED <<call, calls>>
  BY Zenon, <1>2, <1>3, LeaveMeans
<1>5. Running({"vhist32"}) /\ "vhist32" \in Setters
  BY Zenon, SymbolNumbers DEF Return32
<1>6. f.base = 0 /\ CountOK(f) /\ f.fn = "vhist32"
  BY Zenon, <1>1, <1>5, Outermost
<1>7. k \in [Bytes -> Residues]
  BY Zenon, <1>2, <1>5, OnTop
<1>8. Gives(k, f, new, k2)
  <2>1. Sets32(k, f, sums, new, k2)
    BY ONLY Zenon, <1>1, <1>2, <1>4, <1>6, <1>7 DEF Sets32
  <2> QED BY ONLY <2>1, Gives32
<1> QED BY Zenon, <1>1, <1>2, <1>4, <1>5, <1>8, HeadLeaves

LEMMA ThirtyTwoMore ==
    ASSUME HistInv, Return32Add
    PROVE  HistInv'
<1>1. PICK f, sums, added :
        /\ f = Head(frames) /\ sums = Sums32(f) /\ f.at = Len(f.src)
        /\ added = LaneAdd([s \in 0 .. 31 |-> counts[f.base + s]], sums)
        /\ Leave(f, [s \in Bytes |-> IF s - f.base \in 0 .. 31 THEN added[s - f.base]
                                     ELSE counts[s]])
  <2>1. PICK f \in {Head(frames)} : \E sums \in {Sums32(f)} :
        \E added \in {LaneAdd([s \in 0 .. 31 |-> counts[f.base + s]], sums)} :
          /\ f.at = Len(f.src)
          /\ Leave(f, [s \in Bytes |-> IF s - f.base \in 0 .. 31 THEN added[s - f.base]
                                       ELSE counts[s]])
    BY Zenon DEF Return32Add
  <2> QED BY Zenon, <2>1
<1>2. PICK k, new, k2 :
        /\ k = counts /\ k2 = counts'
        /\ new = [s \in Bytes |-> IF s - f.base \in Counter32 THEN added[s - f.base] ELSE k[s]]
  BY Zenon
<1>3. Leave(f, new)
  BY Zenon, <1>1, <1>2 DEF Counter32
<1>4. /\ k2 = [new EXCEPT ![f.base] = (new[f.base] - f.padding) % CounterLimit]
      /\ frames' = Tail(frames) /\ UNCHANGED <<call, calls>>
  BY Zenon, <1>2, <1>3, LeaveMeans
<1>5. Running({"__vhist32"}) /\ "__vhist32" \in Counters
  <2>1. "__vhist32" \in Counters
    BY DEF Counters
  <2> QED BY Zenon, <2>1 DEF Return32Add
<1>6. CountOK(f) /\ f.fn = "__vhist32"
  <2>1. /\ Head(frames).fn \in {"__vhist32"}
        /\ Head(frames).fn \in Counters => CountOK(Head(frames))
    BY Zenon, <1>5, OnTop
  <2>2. Head(frames).fn = "__vhist32"
    BY ONLY Zenon, <2>1
  <2>3. CountOK(Head(frames))
    BY ONLY Zenon, <1>5, <2>1, <2>2
  <2>4. f = Head(frames)
    BY Zenon, <1>1
  <2> QED BY ONLY Zenon, <2>2, <2>3, <2>4
<1>7. k \in [Bytes -> Residues]
  BY Zenon, <1>2, <1>5, OnTop
<1>8. Gives(k, f, new, k2)
  <2>1. added = LaneAdd(VectorAt(k, f.base), Sums32(f))
    BY Zenon, <1>1, <1>2 DEF VectorAt, Counter32
  <2>2. Adds32(k, f, added, new, k2)
    BY ONLY Zenon, <1>1, <1>2, <1>4, <1>6, <1>7, <2>1 DEF Adds32
  <2> QED BY ONLY <2>2, Gives32Add
<1> QED BY Zenon, <1>1, <1>2, <1>4, <1>5, <1>8, HeadLeaves

LEMMA DividerLeaves ==
    ASSUME HistInv, ReturnDivided
    PROVE  HistInv'
<1>1. PICK f, k, k2 : f = Head(frames) /\ k = counts /\ k2 = counts'
  BY Zenon
<1>2. /\ Running(Dividers) /\ f.phase = "outer" /\ f.at >= End(f) /\ f.left = 0
      /\ Leave(f, k)
  BY Zenon, <1>1 DEF ReturnDivided
<1>3. /\ k2 = [k EXCEPT ![f.base] = (k[f.base] - f.padding) % CounterLimit]
      /\ frames' = Tail(frames) /\ UNCHANGED <<call, calls>>
  BY Zenon, <1>1, <1>2, LeaveMeans
<1>4. DivideOK(f) /\ k \in [Bytes -> Residues]
  BY Zenon, <1>1, <1>2, OnTop
<1>5. Gives(k, f, k, k2)
  BY Zenon, <1>2, <1>3, <1>4, GivesDivided
<1> QED BY Zenon, <1>1, <1>2, <1>3, <1>5, HeadLeaves

LEMMA ChunkBegins ==
    ASSUME HistInv, BeginChunk
    PROVE  HistInv'
<1>1. PICK f, fake_end, g :
        /\ f = Head(frames) /\ f.phase = "outer" /\ f.at < End(f)
        /\ fake_end = IF f.at + Chunk > End(f) THEN End(f) ELSE f.at + Chunk
        /\ g = [f EXCEPT !.phase = "inner", !.fake_end = fake_end]
        /\ Becomes(g)
  <2>1. PICK f : /\ f = Head(frames) /\ f.phase = "outer" /\ f.at < End(f)
                 /\ Becomes([f EXCEPT !.phase = "inner",
                                      !.fake_end = IF f.at + Chunk > End(f) THEN End(f)
                                                   ELSE f.at + Chunk])
    BY Zenon DEF BeginChunk
  <2>2. PICK fake_end : fake_end = IF f.at + Chunk > End(f) THEN End(f) ELSE f.at + Chunk
    BY Zenon
  <2>3. PICK g : g = [f EXCEPT !.phase = "inner", !.fake_end = fake_end]
    BY Zenon
  <2>4. Becomes(g)
    BY Zenon, <2>1, <2>2, <2>3
  <2> QED BY Zenon, <2>1, <2>2, <2>3, <2>4
<1>2. Running(Dividers) /\ UNCHANGED <<call, counts, calls>>
  BY Zenon DEF BeginChunk
<1>3. DivideOK(f)
  BY Zenon, <1>1, <1>2, OnTop
<1>4. IsDivide(g, f, f.at, f.padding, f.left, fake_end, f.buf0, f.buf1, "inner")
  BY Zenon, <1>1, <1>3, DivideExcept
<1>5. Follows(f, g)
  <2>1. g = DivideFrame(f, f.at, f.padding, f.left, fake_end, f.buf0, f.buf1, "inner")
    BY Zenon, <1>4 DEF IsDivide
  <2> QED BY Zenon, <1>1, <1>3, <2>1, BeginStep
<1> QED BY Zenon, <1>1, <1>2, <1>5, HeadMoves

\* A frame after a vector has been divided.
NextDivided(f, raw, next, buf0, buf1, g) ==
    /\ buf0 = f.buf0 \o Compress(raw, Bytes \ Divider(f.fn).upper)
    /\ buf1 = f.buf1 \o Compress(raw, Divider(f.fn).upper)
    /\ g = [next EXCEPT !.buf0 = buf0, !.buf1 = buf1, !.at = f.at + 64]

LEMMA DivideMeans ==
    ASSUME NEW f, NEW raw, NEW next, Divide(f, raw, next)
    PROVE  \E buf0, buf1, g : Becomes(g) /\ NextDivided(f, raw, next, buf0, buf1, g)
<1>1. PICK upper : /\ upper = Divider(f.fn).upper
                   /\ Becomes([next EXCEPT !.buf0 = f.buf0 \o Compress(raw, Bytes \ upper),
                                           !.buf1 = f.buf1 \o Compress(raw, upper),
                                           !.at = f.at + 64])
  BY Zenon DEF Divide
<1>2. PICK buf0, buf1 : /\ buf0 = f.buf0 \o Compress(raw, Bytes \ upper)
                        /\ buf1 = f.buf1 \o Compress(raw, upper)
  BY Zenon
<1>3. PICK g : g = [next EXCEPT !.buf0 = buf0, !.buf1 = buf1, !.at = f.at + 64]
  BY Zenon
<1>4. Becomes(g)
  BY Zenon, <1>1, <1>2, <1>3
<1>5. /\ buf0 = f.buf0 \o Compress(raw, Bytes \ Divider(f.fn).upper)
      /\ buf1 = f.buf1 \o Compress(raw, Divider(f.fn).upper)
  BY Zenon, <1>1, <1>2
<1>6. NextDivided(f, raw, next, buf0, buf1, g)
  BY ONLY Zenon, <1>3, <1>5 DEF NextDivided
<1> QED BY ONLY Zenon, <1>4, <1>6

LEMMA WholeDivided ==
    ASSUME HistInv, DivideVector
    PROVE  HistInv'
<1>1. PICK f, raw : /\ f = Head(frames) /\ f.phase = "inner" /\ f.at < f.fake_end
                    /\ raw = NextVector(f) /\ Divide(f, raw, f)
  BY Zenon DEF DivideVector
<1>2. Running(Dividers) /\ UNCHANGED <<call, counts, calls>>
  BY Zenon DEF DivideVector
<1>3. DivideOK(f)
  BY Zenon, <1>1, <1>2, OnTop
<1>4. PICK buf0, buf1, g :
        /\ buf0 = f.buf0 \o Compress(raw, Bytes \ Divider(f.fn).upper)
        /\ buf1 = f.buf1 \o Compress(raw, Divider(f.fn).upper)
        /\ g = [f EXCEPT !.buf0 = buf0, !.buf1 = buf1, !.at = f.at + 64]
        /\ Becomes(g)
  <2>1. PICK buf0, buf1, g : Becomes(g) /\ NextDivided(f, raw, f, buf0, buf1, g)
    BY Zenon, <1>1, DivideMeans
  <2> QED BY ONLY Zenon, <2>1 DEF NextDivided
<1>5. PICK n, a, e, end, m, p, q, to :
        /\ n = Len(f.src) /\ a = f.at /\ e = f.fake_end /\ end = End(f) /\ m = Chunk
        /\ p = Len(f.buf0) /\ q = Len(f.buf1) /\ to = f.at + 64
  BY Zenon
<1>6. /\ n \in Nat /\ a \in Nat /\ e \in Nat /\ p \in Nat /\ q \in Nat /\ m \in Nat
      /\ end \in Nat /\ end <= n /\ to = a + 64 /\ a < e
  <2>1. f.at \in Nat /\ Len(f.src) \in Nat /\ f.fake_end \in Nat
        /\ Len(f.buf0) \in Nat /\ Len(f.buf1) \in Nat
    BY Zenon, <1>3, DivideFields
  <2>2. End(f) \in Nat /\ End(f) <= Len(f.src)
    BY Zenon, <2>1, EndFacts
  <2>3. Chunk \in Nat
    BY ChunkAssumption
  <2> QED BY Zenon, <1>1, <1>5, <2>1, <2>2, <2>3
<1>7. /\ a \in Vectors /\ e \in Vectors /\ e <= end
      /\ \/ f.left = Len(f.src) % 64 /\ a <= end /\ f.padding = 0
         \/ f.left = 0 /\ a >= n
      /\ p + (e - a) <= m /\ q + (e - a) <= m
  <2>1. /\ f.at \in Vectors /\ f.fake_end \in Vectors /\ f.fake_end <= End(f)
        /\ \/ f.left = Len(f.src) % 64 /\ f.at <= End(f) /\ f.padding = 0
           \/ f.left = 0 /\ f.at >= Len(f.src)
        /\ Len(f.buf0) + (f.fake_end - f.at) <= Chunk
        /\ Len(f.buf1) + (f.fake_end - f.at) <= Chunk
    BY ONLY Zenon, <1>1, <1>3 DEF DivideOK
  <2> QED BY Zenon, <1>5, <2>1
<1>8. to \in Vectors /\ a + 64 <= e
  BY Zenon, <1>6, <1>7, VectorNumbers
<1>9. /\ to <= n /\ to <= end /\ ~ (a >= n)
      /\ p + 64 + (e - to) <= m /\ q + 64 + (e - to) <= m
  BY ONLY <1>6, <1>7, <1>8
<1>10. Reads(f, raw, to, f.padding)
  <2>1. OK(f) /\ f.at + 64 <= Len(f.src)
    BY Zenon, <1>3, <1>5, <1>6, <1>9 DEF OK
  <2> QED BY Zenon, <1>1, <1>5, <2>1, ReadsWhole
<1>11. Room(f, to, f.padding, f.left, f.fake_end)
  <2>1. f.left \in Short
    BY Zenon, <1>3, DivideFields
  <2> QED BY Zenon, <1>5, <1>7, <1>8, <1>9, <2>1 DEF Room
<1>12. g = DivideFrame(f, to, f.padding, f.left, f.fake_end, buf0, buf1, "inner")
  <2>1. IsDivide(g, f, to, f.padding, f.left, f.fake_end, buf0, buf1, f.phase)
    BY Zenon, <1>3, <1>4, <1>5, DivideExcept
  <2> QED BY ONLY Zenon, <1>1, <2>1 DEF IsDivide
<1>13. Splits(f, raw, to, f.padding, f.left, f.fake_end, buf0, buf1, g)
  BY Zenon, <1>3, <1>4, <1>10, <1>11, <1>12 DEF Splits
<1>14. Follows(f, g)
  BY ONLY <1>13, DivideStep
<1> QED BY Zenon, <1>1, <1>2, <1>4, <1>14, HeadMoves

LEMMA RestDivided ==
    ASSUME HistInv, DivideTail
    PROVE  HistInv'
<1>1. PICK f, raw, next :
        /\ f = Head(frames) /\ f.phase = "outer" /\ f.at >= End(f) /\ f.left > 0
        /\ raw = MaskedVector(f) /\ Divide(f, raw, next)
        /\ next = [f EXCEPT !.phase = "inner", !.left = 0,
                            !.padding = 64 - f.left, !.fake_end = End(f)]
  BY Zenon DEF DivideTail
<1>2. Running(Dividers) /\ UNCHANGED <<call, counts, calls>>
  BY Zenon DEF DivideTail
<1>3. DivideOK(f)
  BY Zenon, <1>1, <1>2, OnTop
<1>4. PICK buf0, buf1, g :
        /\ buf0 = f.buf0 \o Compress(raw, Bytes \ Divider(f.fn).upper)
        /\ buf1 = f.buf1 \o Compress(raw, Divider(f.fn).upper)
        /\ g = [next EXCEPT !.buf0 = buf0, !.buf1 = buf1, !.at = f.at + 64]
        /\ Becomes(g)
  <2>1. PICK buf0, buf1, g : Becomes(g) /\ NextDivided(f, raw, next, buf0, buf1, g)
    BY Zenon, <1>1, DivideMeans
  <2> QED BY ONLY Zenon, <2>1 DEF NextDivided
<1>5. PICK n, a, end, left, to, more :
        /\ n = Len(f.src) /\ a = f.at /\ end = End(f) /\ left = f.left
        /\ to = f.at + 64 /\ more = 64 - f.left
  BY Zenon
<1>6. /\ n \in Nat /\ a \in Nat /\ end \in Nat /\ left \in Nat /\ left < 64
      /\ n = end + (Len(f.src) % 64) /\ end \in Vectors /\ left > 0 /\ a >= end
      /\ Len(f.src) % 64 \in Nat /\ to = a + 64 /\ more = 64 - left
  <2>1. f.at \in Nat /\ Len(f.src) \in Nat /\ f.left \in Nat /\ f.left < 64
    BY Zenon, <1>3, DivideFields
  <2>2. /\ End(f) \in Vectors /\ End(f) \in Nat /\ Len(f.src) = End(f) + (Len(f.src) % 64)
        /\ Len(f.src) % 64 \in Nat
    BY Zenon, <2>1, EndFacts
  <2> QED BY Zenon, <1>1, <1>5, <2>1, <2>2
<1>7. left # 0
  BY ONLY <1>6
<1>8. left = Len(f.src) % 64 /\ a <= end /\ f.padding = 0 /\ a \in Vectors
  <2>1. /\ f.at \in Vectors
        /\ \/ f.left = Len(f.src) % 64 /\ f.at <= End(f) /\ f.padding = 0
           \/ f.left = 0 /\ f.at >= Len(f.src)
    BY ONLY Zenon, <1>3 DEF DivideOK
  <2> QED BY Zenon, <1>5, <1>7, <2>1
<1>9. n = end + left
  BY Zenon, <1>6, <1>8
<1>10. /\ n - a = left /\ n - a \in 1 .. 63 /\ to >= n /\ to \in Nat /\ ~ (to < end)
       /\ end <= end
  <2>1. n \in Nat /\ a \in Nat /\ end \in Nat /\ left \in Nat /\ left < 64 /\ left > 0
        /\ a >= end /\ to = a + 64 /\ a <= end /\ n = end + left
    BY Zenon, <1>6, <1>8, <1>9
  <2> QED BY ONLY <2>1
<1>11. more = 64 - (n - a)
  BY Zenon, <1>6, <1>10
<1>12. Reads(f, raw, to, more)
  <2>1. /\ OK(f) /\ Len(f.src) - f.at \in 1 .. 63 /\ more = 64 - (Len(f.src) - f.at)
        /\ to >= Len(f.src)
    BY Zenon, <1>3, <1>5, <1>10, <1>11 DEF OK
  <2> QED BY Zenon, <1>1, <1>8, <1>10, <2>1, ReadsTail
<1>13. to \in Vectors
  BY Zenon, <1>6, <1>8, VectorNumbers
<1>14. Room(f, to, more, 0, End(f))
  <2>1. 0 \in Short
    BY DEF Short
  <2> QED BY Zenon, <1>5, <1>6, <1>10, <1>13, <2>1 DEF Room
<1>15. g = DivideFrame(f, to, more, 0, End(f), buf0, buf1, "inner")
  <2>1. PICK z, r : /\ z = 0
                    /\ r = [[f EXCEPT !.phase = "inner", !.left = z, !.padding = more,
                                      !.fake_end = end]
                              EXCEPT !.buf0 = buf0, !.buf1 = buf1, !.at = to]
    BY Zenon
  <2>2. IsDivide(r, f, to, more, z, end, buf0, buf1, "inner")
    BY Zenon, <1>3, <2>1, DivideExcept
  <2>3. g = r
    BY ONLY Zenon, <1>1, <1>4, <1>5, <2>1
  <2>4. IsDivide(g, f, to, more, 0, End(f), buf0, buf1, "inner")
    BY ONLY Zenon, <1>5, <2>1, <2>2, <2>3
  <2> QED BY ONLY Zenon, <2>4 DEF IsDivide
<1>16. Splits(f, raw, to, more, 0, End(f), buf0, buf1, g)
  BY Zenon, <1>3, <1>4, <1>12, <1>14, <1>15 DEF Splits
<1>17. Follows(f, g)
  BY ONLY <1>16, DivideStep
<1> QED BY Zenon, <1>1, <1>2, <1>4, <1>17, HeadMoves

\* A buffer is given away: what was owed is shared by the two functions.
Passes(f, src, off, h, e) ==
    /\ DivideOK(f) /\ DivideOK(h) /\ h.fn = f.fn /\ h.base = f.base /\ src \in Seq(Bytes)
    /\ off \in {0, Divider(f.fn).half}
    /\ e = Enters(Divider(f.fn).callee, src, f.base + off)
    /\ \A t \in Int : Work(h, t) + Occ(src, Class(Divider(f.fn).half, t - off)) = Work(f, t)

LEMMA Passed ==
    ASSUME NEW f, NEW src, NEW off, NEW h, NEW e, Passes(f, src, off, h, e)
    PROVE  /\ h \in Fine /\ e \in Fine /\ e.fn = Divider(f.fn).callee
           /\ \A s \in Int : Owed(h, s) + Owed(e, s) = Owed(f, s) /\ Owed(e, s) >= 0
<1>0. /\ DivideOK(f) /\ DivideOK(h) /\ h.fn = f.fn /\ h.base = f.base /\ src \in Seq(Bytes)
      /\ off \in {0, Divider(f.fn).half}
      /\ e = Enters(Divider(f.fn).callee, src, f.base + off)
      /\ \A t \in Int : Work(h, t) + Occ(src, Class(Divider(f.fn).half, t - off)) = Work(f, t)
  BY Zenon DEF Passes
<1>1. PICK fn, half, callee, b, base :
        /\ fn = f.fn /\ half = Divider(fn).half /\ callee = Divider(fn).callee
        /\ b = f.base /\ base = f.base + off
  BY Zenon
<1>2. /\ fn \in Dividers /\ b \in Nat /\ b + Size(fn) <= 256
  BY Zenon, <1>0, <1>1, DivideFields DEF DivideOK
<1>3. /\ half \in {32, 64, 128} /\ Size(fn) = 2 * half /\ Size(callee) = half
      /\ callee \in {"__vhist32"} \union Dividers
  BY Zenon, <1>1, <1>2, Halves
<1>4. off \in {0, half} /\ base = b + off
  BY Zenon, <1>0, <1>1
<1>5. b + 2 * half <= 256
  BY Zenon, <1>2, <1>3
<1>6. base \in Nat /\ base + half <= 256 /\ off \in Int
  BY ONLY <1>2, <1>3, <1>4, <1>5
<1>7. callee \in Counters \union Dividers
  BY ONLY <1>3 DEF Counters
<1>8. base + Size(callee) <= 256
  BY Zenon, <1>3, <1>6
<1>9. e = Enters(callee, src, base) /\ src \in Seq(Bytes)
  BY Zenon, <1>0, <1>1
<1>10. /\ OK(e) /\ e.fn = callee /\ e.base = base
       /\ \A t \in Int : Work(e, t) = Occ(src, Class(half, t))
  <2>1. /\ OK(e) /\ e.fn = callee /\ e.base = base
        /\ \A t \in Int : Work(e, t) = Occ(src, Class(Size(callee), t))
    <3>1. IsEntered(e, callee, src, base)
      BY ONLY Zenon, <1>6, <1>7, <1>8, <1>9 DEF IsEntered
    <3> QED BY ONLY <3>1, Entered
  <2> QED BY Zenon, <1>3, <2>1
<1>11. OK(h) /\ h \in Fine /\ e \in Fine
  BY Zenon, <1>0, <1>10, FineFacts DEF OK
<1>12. ASSUME NEW s \in Int PROVE Owed(h, s) + Owed(e, s) = Owed(f, s) /\ Owed(e, s) >= 0
  <2>1. PICK t, u : t = s - b /\ u = s - base
    BY Zenon
  <2>2. t \in Int /\ u \in Int /\ u = t - off
    BY ONLY <1>2, <1>4, <1>6, <1>12, <2>1
  <2>3. Work(h, t) + Occ(src, Class(half, u)) = Work(f, t)
    BY Zenon, <1>0, <1>1, <2>2
  <2>4. Owed(h, s) = Work(h, t) /\ Owed(f, s) = Work(f, t)
    BY Zenon, <1>0, <1>1, <2>1 DEF Owed
  <2>5. Owed(e, s) = Occ(src, Class(half, u))
    BY Zenon, <1>10, <2>1, <2>2 DEF Owed
  <2>6. Occ(src, Class(half, u)) >= 0
    <3>1. Occ(src, Class(half, u)) \in Nat
      BY Zenon, <1>9, OccType
    <3> QED BY ONLY <3>1
  <2> QED BY Zenon, <2>3, <2>4, <2>5, <2>6
<1> QED BY Zenon, <1>1, <1>10, <1>11, <1>12

LEMMA HeadCalls ==
    ASSUME HistInv, Running(Dividers), UNCHANGED <<call, counts, calls>>,
           NEW f, f = Head(frames), NEW src, NEW off, NEW h, NEW e, Passes(f, src, off, h, e),
           frames' = <<e, h>> \o Tail(frames)
    PROVE  HistInv'
<1>1. HistHolds(call, counts, frames, "run") /\ frames # << >> /\ calls = "run"
      /\ Head(frames).fn \in Dividers
  BY Zenon, OnTop
<1>2. PICK c, k, fr, new, t :
        c = call /\ k = counts /\ fr = frames /\ new = frames' /\ t = Tail(frames)
  BY Zenon
<1>3. h \in Fine /\ e \in Fine /\ e.fn = Divider(f.fn).callee
      /\ \A s \in Int : Owed(h, s) + Owed(e, s) = Owed(f, s) /\ Owed(e, s) >= 0
  BY ONLY Passes(f, src, off, h, e), Passed
<1>4. h.fn = f.fn /\ h.base = f.base
  BY Zenon DEF Passes
<1>5. t \in Seq(Fine)
  <2>1. Stack(fr, c.fn) /\ fr # << >>
    <3>1. HistHolds(c, k, fr, "run")
      BY Zenon, <1>1, <1>2
    <3> QED BY Zenon, <1>1, <1>2, <3>1 DEF HistHolds
  <2>2. Tail(fr) \in Seq(Fine)
    BY ONLY <2>1, Innermost
  <2> QED BY Zenon, <1>2, <2>2
<1>6. new = <<e>> \o (<<h>> \o t)
  <2>1. <<e>> \in Seq(Fine) /\ <<h>> \in Seq(Fine) /\ <<e>> \o <<h>> = <<e, h>>
    <3>1. PICK S : S = Fine
      BY Zenon
    <3>2. e \in S /\ h \in S
      BY Zenon, <1>3, <3>1
    <3>3. <<e>> \in Seq(S) /\ <<h>> \in Seq(S)
      BY ONLY <3>2
    <3>4. <<e>> \o <<h>> = <<e, h>>
      <4>1. PICK x, y, z : x = <<e>> /\ y = <<h>> /\ z = <<e, h>>
        BY Zenon
      <4>2. x \in Seq(S) /\ y \in Seq(S) /\ z \in Seq(S)
        BY ONLY <3>2, <4>1
      <4>3. Len(x) = 1 /\ Len(y) = 1 /\ Len(z) = 2 /\ x[1] = e /\ y[1] = h /\ z[1] = e /\ z[2] = h
        BY ONLY <4>1
      <4>4. x \o y \in Seq(S) /\ Len(x \o y) = 2 /\ (x \o y)[1] = e /\ (x \o y)[2] = h
        <5>1. /\ x \o y \in Seq(S) /\ Len(x \o y) = Len(x) + Len(y)
              /\ \A i \in 1 .. Len(x) + Len(y) :
                   (x \o y)[i] = IF i <= Len(x) THEN x[i] ELSE y[i - Len(x)]
          BY ONLY <4>2, ConcatProperties
        <5>2. 1 \in 1 .. 1 + 1 /\ 2 \in 1 .. 1 + 1 /\ 1 <= 1 /\ ~ (2 <= 1) /\ 2 - 1 = 1 /\ 1 + 1 = 2
          OBVIOUS
        <5> QED BY ONLY Zenon, <4>3, <5>1, <5>2
      <4>5. PICK w : w = x \o y
        BY Zenon
      <4>6. w \in Seq(S) /\ Len(w) = 2 /\ w[1] = e /\ w[2] = h
        BY Zenon, <4>4, <4>5
      <4>7. Len(w) = Len(z) /\ \A i \in 1 .. Len(w) : w[i] = z[i]
        BY ONLY <4>3, <4>6
      <4>8. w = z
        BY ONLY <4>2, <4>6, <4>7, SeqEqual
      <4> QED BY Zenon, <4>1, <4>5, <4>8
    <3> QED BY Zenon, <3>1, <3>3, <3>4
  <2>2. (<<e>> \o <<h>>) \o t = <<e>> \o (<<h>> \o t)
    BY ONLY <1>5, <2>1, ConcatAssociative
  <2> QED BY Zenon, <1>2, <2>1, <2>2
<1>7. Hands(fr, h, e, new)
  BY Zenon, <1>1, <1>2, <1>3, <1>4, <1>6 DEF Hands
<1>8. HistHolds(c, k, fr, "run")
  BY Zenon, <1>1, <1>2
<1>9. HistHolds(c, k, new, "run")
  BY ONLY <1>7, <1>8, Descended
<1>10. call' = c /\ counts' = k /\ calls' = "run" /\ frames' = new
  BY Zenon, <1>1, <1>2
<1> QED BY Zenon, <1>9, <1>10 DEF HistInv

LEMMA LowerCalled ==
    ASSUME HistInv, CallLower
    PROVE  HistInv'
<1>1. PICK f, h, e, src :
        /\ f = Head(frames) /\ f.phase = "inner" /\ src = f.buf0
        /\ h = [f EXCEPT !.buf0 = << >>, !.phase = "upper"]
        /\ e = Enters(Divider(f.fn).callee, src, f.base)
        /\ frames' = <<e, h>> \o Tail(frames)
  BY Zenon DEF CallLower
<1>2. Running(Dividers) /\ UNCHANGED <<call, counts, calls>>
  BY Zenon DEF CallLower
<1>3. DivideOK(f)
  BY Zenon, <1>1, <1>2, OnTop
<1>4. h = DivideFrame(f, f.at, f.padding, f.left, f.fake_end, << >>, f.buf1, "upper")
  <2>1. PICK z : z = << >>
    BY Zenon
  <2>2. IsDivide([f EXCEPT !.buf0 = z, !.phase = "upper"],
                 f, f.at, f.padding, f.left, f.fake_end, z, f.buf1, "upper")
    BY Zenon, <1>3, DivideExcept
  <2> QED BY ONLY Zenon, <1>1, <2>1, <2>2 DEF IsDivide
<1>5. /\ DivideOK(h) /\ h.fn = f.fn /\ h.base = f.base
      /\ \A t \in Int : Work(h, t) + Occ(f.buf0, Class(Divider(f.fn).half, t)) = Work(f, t)
  BY Zenon, <1>1, <1>3, <1>4, LowerStep
<1>6. Passes(f, src, 0, h, e)
  <2>1. f.base + 0 = f.base /\ \A t \in Int : t - 0 = t
    BY <1>3, DivideFields
  <2>2. src \in Seq(Bytes)
    BY Zenon, <1>1, <1>3, DivideFields
  <2>3. \A t \in Int : Work(h, t) + Occ(src, Class(Divider(f.fn).half, t - 0)) = Work(f, t)
    BY Zenon, <1>1, <1>5, <2>1
  <2>4. e = Enters(Divider(f.fn).callee, src, f.base + 0)
    BY Zenon, <1>1, <2>1
  <2> QED BY Zenon, <1>3, <1>5, <2>2, <2>3, <2>4 DEF Passes
<1> QED BY Zenon, <1>1, <1>2, <1>6, HeadCalls

LEMMA UpperCalled ==
    ASSUME HistInv, CallUpper
    PROVE  HistInv'
<1>1. PICK f, h, e, src :
        /\ f = Head(frames) /\ f.phase = "upper" /\ src = f.buf1
        /\ h = [f EXCEPT !.buf1 = << >>, !.phase = "outer"]
        /\ e = Enters(Divider(f.fn).callee, src, f.base + Divider(f.fn).half)
        /\ frames' = <<e, h>> \o Tail(frames)
  BY Zenon DEF CallUpper
<1>2. Running(Dividers) /\ UNCHANGED <<call, counts, calls>>
  BY Zenon DEF CallUpper
<1>3. DivideOK(f)
  BY Zenon, <1>1, <1>2, OnTop
<1>4. h = DivideFrame(f, f.at, f.padding, f.left, f.fake_end, f.buf0, << >>, "outer")
  <2>1. PICK z : z = << >>
    BY Zenon
  <2>2. IsDivide([f EXCEPT !.buf1 = z, !.phase = "outer"],
                 f, f.at, f.padding, f.left, f.fake_end, f.buf0, z, "outer")
    BY Zenon, <1>3, DivideExcept
  <2> QED BY ONLY Zenon, <1>1, <2>1, <2>2 DEF IsDivide
<1>5. /\ DivideOK(h) /\ h.fn = f.fn /\ h.base = f.base
      /\ \A t \in Int :
           Work(h, t) + Occ(f.buf1, Class(Divider(f.fn).half, t - Divider(f.fn).half))
             = Work(f, t)
  BY Zenon, <1>1, <1>3, <1>4, UpperStep
<1>6. Passes(f, src, Divider(f.fn).half, h, e)
  <2>1. src \in Seq(Bytes)
    BY Zenon, <1>1, <1>3, DivideFields
  <2> QED BY Zenon, <1>1, <1>3, <1>5, <2>1 DEF Passes
<1> QED BY Zenon, <1>1, <1>2, <1>6, HeadCalls

LEMMA ProgramCalls ==
    ASSUME HistInv, Call
    PROVE  HistInv'
<1>1. PICK c, k, k2, new : c = call /\ k = counts /\ k2 = counts' /\ new = frames'
  BY Zenon
<1>2. calls = "call" /\ call' = c /\ calls' = "run"
      /\ k2 = [s \in Bytes |-> IF s \in Zeroed(c.fn) THEN 0 ELSE k[s]]
      /\ new = <<Enters(c.fn, c.src, 0)>>
  BY Zenon, <1>1 DEF Call
<1>3. HistHolds(c, k, << >>, "call")
  <2>1. HistHolds(c, k, frames, "call")
    BY Zenon, <1>1, <1>2 DEF HistInv
  <2>2. "call" # "run" => frames = << >>
    BY ONLY Zenon, <2>1 DEF HistHolds
  <2>3. "call" # "run"
    OBVIOUS
  <2> QED BY ONLY Zenon, <2>1, <2>2, <2>3
<1>4. Begins(c, k, k2, new)
  BY ONLY Zenon, <1>2, <1>3 DEF Begins
<1>5. HistHolds(c, k2, new, "run")
  BY ONLY <1>4, Begun
<1> QED BY Zenon, <1>1, <1>2, <1>5 DEF HistInv

LEMMA CallEnds ==
    ASSUME HistInv, Finish
    PROVE  HistInv'
<1>1. PICK c, k, fr : c = call /\ k = counts /\ fr = frames
  BY Zenon
<1>2. fr = << >> /\ call' = c /\ counts' = k /\ frames' = fr /\ calls' = "return" /\ calls = "run"
  BY Zenon, <1>1 DEF Finish
<1>3. HistHolds(c, k, fr, "run")
  BY Zenon, <1>1, <1>2 DEF HistInv
<1>4. HistHolds(c, k, fr, "return")
  <2>1. "return" # "call" /\ "run" # "call"
    OBVIOUS
  <2> QED BY ONLY Zenon, <1>2, <1>3, <2>1 DEF HistHolds
<1> QED BY Zenon, <1>1, <1>2, <1>4 DEF HistInv

LEMMA HistStarts ==
    ASSUME HistInit
    PROVE  HistInv
<1>1. PICK c : c \in HistInputs /\ HistCall(c)
  BY Zenon DEF HistInit
<1>2. PICK k : k = [s \in Bytes |-> Unset]
  BY Zenon
<1>3. call = c /\ counts = k /\ frames = << >> /\ calls = "call"
  BY Zenon, <1>1, <1>2 DEF HistCall
<1>4. Unset \in Residues
  <2>1. 3 \in Int
    OBVIOUS
  <2> QED BY Zenon, <2>1, Reduced DEF Unset
<1>5. k \in [Bytes -> Residues]
  BY Zenon, <1>2, <1>4
<1>6. Stack(<< >>, c.fn)
  <2>1. << >> \in Seq(Fine) /\ Len(<< >>) = 0
    BY EmptySeq
  <2>2. \A i \in 1 .. 0 - 1 : FALSE
    OBVIOUS
  <2>3. ~ (0 >= 1)
    OBVIOUS
  <2> QED BY Zenon, <2>1, <2>2, <2>3 DEF Stack
<1>7. HistHolds(c, k, << >>, "call")
  BY Zenon, <1>1, <1>2, <1>5, <1>6 DEF HistHolds
<1> QED BY Zenon, <1>3, <1>7 DEF HistInv

LEMMA HistSteps ==
    ASSUME HistInv, [HistNext]_hist_vars
    PROVE  HistInv'
<1>1. CASE HistNext
  BY Zenon, <1>1, ProgramCalls, WholeCounted, RestCounted, Sixteen, ThirtyTwoMore, ThirtyTwo,
     ChunkBegins, WholeDivided, RestDivided, LowerCalled, UpperCalled, DividerLeaves, CallEnds
     DEF HistNext
<1>2. CASE UNCHANGED hist_vars
  BY Zenon, <1>2 DEF hist_vars, HistInv
<1> QED BY <1>1, <1>2

\* No step of the functions loses a symbol or counts one twice: what the
\* counters have and what the running functions owe to them stays the number
\* of occurrences in the message.
THEOREM HistInvariant == HistSpec => []HistInv
<1>1. HistInit => HistInv
  BY HistStarts
<1>2. HistInv /\ [HistNext]_hist_vars => HistInv'
  BY HistSteps
<1> QED BY <1>1, <1>2, PTL DEF HistSpec

-----------------------------------------------------------------------------
(* The properties.                                                         *)

\* The type invariant: what the counters and the frames of every function
\* that runs are made of.
THEOREM HistTyped == HistSpec => []HistTypeOK
<1>1. ASSUME HistInv PROVE HistTypeOK
  <2>1. PICK c, k, fr, st : c = call /\ k = counts /\ fr = frames /\ st = calls
    BY Zenon
  <2>2. HistHolds(c, k, fr, st)
    BY Zenon, <1>1, <2>1 DEF HistInv
  <2>3. /\ c \in HistInputs /\ k \in [Bytes -> Residues] /\ Stack(fr, c.fn)
        /\ st \in {"call", "run", "return"}
    BY Zenon, <2>2 DEF HistHolds
  <2>4. c.fn \in Counters \union Dividers /\ c.src \in Seq(Bytes)
    BY ONLY <2>3, InputFacts
  <2>5. ASSUME NEW i \in DOMAIN fr
        PROVE  fr[i].src \in Seq(Bytes) /\ fr[i].base \in Bytes /\ fr[i].padding \in Short
    <3>1. PICK S : S = Fine
      BY Zenon
    <3>2. fr \in Seq(S)
      BY Zenon, <2>3, <3>1 DEF Stack
    <3>3. fr[i] \in S
      BY ONLY <2>5, <3>2
    <3>4. PICK f : f = fr[i]
      BY Zenon
    <3>5. OK(f)
      BY Zenon, <3>1, <3>3, <3>4, FineFacts
    <3>6. /\ f.fn \in Counters \union Dividers /\ f.base \in Nat
          /\ f.base + Size(f.fn) <= 256 /\ f.src \in Seq(Bytes) /\ f.padding \in Short
      BY Zenon, <3>5, FineFacts
    <3>7. f.base \in Bytes
      <4>1. PICK b, m : b = f.base /\ m = Size(f.fn)
        BY Zenon
      <4>2. m \in {16, 32, 64, 128, 256}
        BY Zenon, <3>6, <4>1, Ranks
      <4>3. b \in Nat /\ b + m <= 256
        BY Zenon, <3>6, <4>1
      <4>4. b \in Bytes
        BY ONLY <4>2, <4>3 DEF Bytes
      <4> QED BY Zenon, <4>1, <4>4
    <3> QED BY Zenon, <3>4, <3>6, <3>7
  <2> QED BY Zenon, <2>1, <2>3, <2>4, <2>5 DEF HistTypeOK, Residues, Short
<1> QED BY <1>1, HistInvariant, PTL

\* Each store of a whole vector ends inside its buffer, whatever the data:
\* the inner loop ends before the chunk does (lines 248-263), and the tail
\* (lines 267-273) finds both buffers empty.
THEOREM StoresInside == HistSpec => []StoresFit
<1>1. ASSUME HistInv, frames # << >>, NEW f, f = Head(frames), f.fn \in Dividers,
             \/ f.phase = "inner" /\ f.at < f.fake_end
             \/ f.phase = "outer"
      PROVE  Len(f.buf0) + 64 <= Chunk /\ Len(f.buf1) + 64 <= Chunk
  <2>1. PICK c, k, fr, st : c = call /\ k = counts /\ fr = frames /\ st = calls
    BY Zenon
  <2>2. HistHolds(c, k, fr, st)
    BY Zenon, <1>1, <2>1 DEF HistInv
  <2>3. Stack(fr, c.fn) /\ fr # << >>
    BY Zenon, <1>1, <2>1, <2>2 DEF HistHolds
  <2>4. OK(Head(fr))
    BY ONLY <2>3, Innermost
  <2>5. DivideOK(f)
    <3>1. OK(f)
      BY Zenon, <1>1, <2>1, <2>4
    <3> QED BY Zenon, <1>1, <3>1, CountFields DEF OK
  <2>6. Len(f.buf0) \in Nat /\ Len(f.buf1) \in Nat /\ f.at \in Nat /\ f.fake_end \in Nat
    BY Zenon, <2>5, DivideFields
  <2>7. Chunk \in Nat /\ Chunk >= 64
    BY ChunkAssumption, VectorNumbers
  <2>8. CASE f.phase = "inner" /\ f.at < f.fake_end
    <3>1. /\ Len(f.buf0) + (f.fake_end - f.at) <= Chunk
          /\ Len(f.buf1) + (f.fake_end - f.at) <= Chunk
          /\ f.at \in Vectors /\ f.fake_end \in Vectors
      BY ONLY Zenon, <2>5, <2>8 DEF DivideOK
    <3>2. f.at + 64 <= f.fake_end
      BY Zenon, <2>8, <3>1, VectorNumbers
    <3>3. PICK p, q, a, e, m : /\ p = Len(f.buf0) /\ q = Len(f.buf1) /\ a = f.at
                               /\ e = f.fake_end /\ m = Chunk
      BY Zenon
    <3>4. /\ p \in Nat /\ q \in Nat /\ a \in Nat /\ e \in Nat /\ m \in Nat
          /\ p + (e - a) <= m /\ q + (e - a) <= m /\ a + 64 <= e
      BY Zenon, <2>6, <2>7, <3>1, <3>2, <3>3
    <3>5. p + 64 <= m /\ q + 64 <= m
      BY ONLY <3>4
    <3> QED BY Zenon, <3>3, <3>5
  <2>9. CASE f.phase = "outer"
    <3>1. f.buf0 = << >> /\ f.buf1 = << >>
      BY ONLY Zenon, <2>5, <2>9 DEF DivideOK
    <3>2. Len(f.buf0) = 0 /\ Len(f.buf1) = 0
      BY <3>1, EmptySeq
    <3>3. 0 + 64 <= Chunk
      BY <2>7
    <3> QED BY Zenon, <3>2, <3>3
  <2> QED BY Zenon, <1>1, <2>8, <2>9
<1>2. HistInv => StoresFit
  BY Zenon, <1>1 DEF StoresFit
<1> QED BY <1>2, HistInvariant, PTL

\* What histogram.c's own test compares: the counters of the symbols are
\* those of hgram_scalar() and the counters of other symbols are what they
\* were, for every function and every message that leaves the u16 counters
\* room for the padding: no addition of 64-bit lanes carries (lines 170,
\* 181-185, 212 and 223-226).  Of vhist16(), for every message.
THEOREM Counts == HistSpec => []Counted
<1>1. ASSUME HistInv, calls = "return", HasRoom(call), NEW s \in Bytes
      PROVE  counts[s] = IF s \in SymbolsOf(call.fn) THEN Scalar(call.src)[s] ELSE Unset
  <2>1. PICK c, k, fr, x : c = call /\ k = counts /\ fr = frames /\ x = counts[s]
    BY Zenon
  <2>2. HistHolds(c, k, fr, "return")
    BY Zenon, <1>1, <2>1 DEF HistInv
  <2>3. fr = << >>
    <3>1. "return" # "run"
      OBVIOUS
    <3> QED BY ONLY Zenon, <2>2, <3>1 DEF HistHolds
  <2>4. Balanced(c, k, fr, s) /\ c \in HistInputs
    <3>1. "return" # "call" /\ s \in Bytes /\ HasRoom(c)
      BY Zenon, <1>1, <2>1
    <3> QED BY ONLY Zenon, <2>2, <3>1 DEF HistHolds, Settled
  <2>5. x \in Residues /\ x \in Int
    <3>1. k[s] \in Residues /\ k[s] \in Int
      BY Zenon, <2>2, BalanceTypes
    <3> QED BY Zenon, <2>1, <3>1
  <2>6. x - Expected(c, s) \in Wraps
    <3>1. Standing(c, k, fr, s) = x /\ Total(fr, s) = 0
      BY Zenon, <2>1, <2>3, TotalType DEF Standing
    <3>2. x + 0 = x
      BY <2>5
    <3>3. x - Expected(c, s) \in Slack(c.fn)
      BY Zenon, <2>4, <3>1, <3>2 DEF Balanced
    <3>4. Slack(c.fn) \in SUBSET Wraps
      BY Zenon, Turns DEF Slack
    <3> QED BY Zenon, <3>3, <3>4
  <2>7. CASE s \in SymbolsOf(c.fn)
    <3>1. PICK src, o : src = c.src /\ o = Occ(c.src, {s})
      BY Zenon
    <3>2. src \in Seq(Bytes)
      BY Zenon, <2>4, <3>1, InputFacts
    <3>3. o \in Nat /\ o \in Int
      <4>1. o \in Nat
        BY Zenon, <3>1, <3>2, OccType
      <4> QED BY <4>1
    <3>4. Scalar(src)[s] = o % CounterLimit
      <4>1. Hits(src, 0, Len(src), {s}) = {i \in DOMAIN src : src[i] = s}
        <5>1. DOMAIN src = 1 .. Len(src) /\ 0 + 1 = 1
          BY <3>2
        <5> QED BY Zenon, <5>1 DEF Hits
      <4> QED BY Zenon, <3>1, <4>1 DEF Scalar, Occ, Occurs
    <3>5. x - o \in Wraps
      BY Zenon, <2>6, <2>7, <3>1 DEF Expected
    <3>6. x = o % CounterLimit
      <4>1. PICK r : r = o % CounterLimit
        BY Zenon
      <4>2. r \in Residues /\ r \in Int /\ r - o \in Wraps
        BY Zenon, <3>3, <4>1, Reduced
      <4>3. (x - o) - (r - o) = x - r
        BY ONLY <2>5, <3>3, <4>2
      <4>4. x - r \in Wraps
        <5>1. (x - o) - (r - o) \in Wraps
          BY Zenon, <3>5, <4>2, Turns
        <5> QED BY Zenon, <4>3, <5>1
      <4> QED BY Zenon, <2>5, <4>1, <4>2, <4>4, SameResidue
    <3> QED BY Zenon, <2>1, <2>7, <3>1, <3>4, <3>6
  <2>8. CASE s \notin SymbolsOf(c.fn)
    <3>1. x - Unset \in Wraps
      BY Zenon, <2>6, <2>8 DEF Expected
    <3>2. Unset \in Residues
      <4>1. 3 \in Int
        OBVIOUS
      <4> QED BY Zenon, <4>1, Reduced DEF Unset
    <3>3. x = Unset
      BY Zenon, <2>5, <3>1, <3>2, SameResidue
    <3> QED BY Zenon, <2>1, <2>8, <3>3
  <2> QED BY <2>7, <2>8
<1>2. HistInv => Counted
  BY Zenon, <1>1 DEF Counted
<1> QED BY <1>2, HistInvariant, PTL
=============================================================================
