------------------------------- MODULE Induction -------------------------------
(***************************************************************************)
(* Facts about data of any size: sums over finite sets, powers of two, and *)
(* parities of sums of words.                                              *)
(* Each is proved by a least counterexample, since the induction theorems  *)
(* of the library have an operator as a parameter.                         *)
(***************************************************************************)
EXTENDS BitSets, Functions, FiniteSetTheorems, TLAPS

-----------------------------------------------------------------------------
(* Least elements.                                                         *)

\* Of a nonempty set of finite sets, one contains no other.
LEMMA LeastSet ==
    ASSUME NEW S, IsFiniteSet(S), NEW T \in SUBSET SUBSET S, T # {}
    PROVE  \E X \in T : \A Y \in T : Y \subseteq X => Y = X
<1>1. IsWellFoundedOn(StrictSubsetOrdering(S), SUBSET S)
  BY FS_StrictSubsetOrderingWellFounded, FS_FiniteSubsetsOfFinite
<1>2. \E X \in T : \A Y \in T : ~ (<<Y, X>> \in StrictSubsetOrdering(S))
  BY <1>1, WFMin
<1> QED BY <1>2 DEF StrictSubsetOrdering

\* A nonempty set of numbers has a least element.
LEMMA LeastNumber ==
    ASSUME NEW T \in SUBSET Nat, T # {}
    PROVE  \E x \in T : \A y \in T : x <= y
<1> DEFINE Less == {p \in Nat \X Nat : p[1] < p[2]}
<1>1. OpToRel(<, Nat) = Less
  BY Zenon DEF OpToRel
<1>2. IsWellFoundedOn(Less, Nat)
  BY <1>1, NatLessThanWellFounded
<1>3. \E x \in T : \A y \in T : ~ (<<y, x>> \in Less)
  <2> HIDE DEF Less
  <2> QED BY <1>2, WFMin
<1>4. PICK x \in T : \A y \in T : ~ (<<y, x>> \in Less)
  BY <1>3
<1>5. ASSUME NEW y \in T PROVE x <= y
  <2>1. <<y, x>> \in Nat \X Nat /\ ~ (<<y, x>>[1] < <<y, x>>[2])
    BY <1>4
  <2> QED BY <2>1
<1> QED BY <1>5

\* What holds of 0, and of n + 1 if it holds of n, holds of every number.
LEMMA Numbers ==
    ASSUME NEW T \in SUBSET Nat, 0 \in T, \A n \in T : n + 1 \in T
    PROVE  T = Nat
<1> SUFFICES ASSUME Nat \ T # {} PROVE FALSE
  OBVIOUS
<1>1. PICK x \in Nat \ T : \A y \in Nat \ T : x <= y
  BY LeastNumber
<1>2. x - 1 \in Nat /\ x - 1 \in T
  BY <1>1
<1> QED BY <1>1, <1>2

\* What holds of a finite set whenever it holds of all its proper subsets,
\* holds of every finite set.
LEMMA FiniteSubsets ==
    ASSUME NEW S, IsFiniteSet(S), NEW T \in SUBSET SUBSET S,
           \A X \in SUBSET S : (\A Y \in SUBSET X : Y # X => Y \in T) => X \in T
    PROVE  T = SUBSET S
<1> DEFINE U == (SUBSET S) \ T
<1>1. U \in SUBSET SUBSET S
  OBVIOUS
<1>2. \A X \in U : \E Y \in U : Y \subseteq X /\ Y # X
  OBVIOUS
<1>3. U = {}
  <2> HIDE DEF U
  <2> QED BY <1>1, <1>2, LeastSet
<1> QED BY <1>3

-----------------------------------------------------------------------------
(* Sums: what the recursive function of a fold computes.                   *)

\* The element that a fold takes out of a set.
First(s) == CHOOSE x \in s : TRUE

\* g is the fold's function for the subsets of S.
IsSum(g, f, S) ==
    g = [s \in SUBSET S |-> IF s = {} THEN 0 ELSE f[First(s)] + g[s \ {First(s)}]]

LEMMA SumIsFold ==
    ASSUME NEW f, NEW S
    PROVE  SumFunctionOnSet(f, S) = (CHOOSE g : IsSum(g, f, S))[S]
BY Zenon DEF SumFunctionOnSet, FoldFunctionOnSet, MapThenFoldSet, IsSum, First

\* The functions for two sets agree on what both contain.
LEMMA SumUnique ==
    ASSUME NEW f, NEW S, NEW R, NEW g, NEW h, IsSum(g, f, S), IsSum(h, f, R),
           NEW X, IsFiniteSet(X), X \subseteq S, X \subseteq R
    PROVE  g[X] = h[X]
<1> DEFINE T == {s \in SUBSET X : g[s] = h[s]}
<1>1. ASSUME NEW s \in SUBSET X, \A r \in SUBSET s : r # s => r \in T
      PROVE  s \in T
  <2>1. CASE s = {}
    BY <2>1 DEF IsSum
  <2>2. CASE s # {}
    <3>1. First(s) \in s
      BY <2>2 DEF First
    <3>2. /\ g[s] = f[First(s)] + g[s \ {First(s)}]
          /\ h[s] = f[First(s)] + h[s \ {First(s)}]
      BY <2>2, Zenon DEF IsSum
    <3> QED BY <1>1, <3>1, <3>2
  <2> QED BY <2>1, <2>2
<1>2. T = SUBSET X
  <2>1. T \in SUBSET SUBSET X
    OBVIOUS
  <2> HIDE DEF T
  <2> QED BY <1>1, <2>1, FiniteSubsets
<1> QED BY <1>2

\* There is such a function for every finite set.
LEMMA SumExists ==
    ASSUME NEW f, NEW S, IsFiniteSet(S)
    PROVE  \E g : IsSum(g, f, S)
<1> DEFINE U == {X \in SUBSET S : ~ \E g : IsSum(g, f, X)}
<1> SUFFICES ASSUME U # {} PROVE FALSE
  OBVIOUS
<1>1. PICK X \in U : \A Y \in U : Y \subseteq X => Y = X
  <2>1. U \in SUBSET SUBSET S
    OBVIOUS
  <2> HIDE DEF U
  <2> QED BY <2>1, LeastSet
<1> DEFINE Of(s) == CHOOSE h : IsSum(h, f, s)
           Rest(s) == s \ {First(s)}
           g == [s \in SUBSET X |-> IF s = {} THEN 0 ELSE f[First(s)] + Of(Rest(s))[Rest(s)]]
<1>2. ASSUME NEW s \in SUBSET X, s # {}
      PROVE  /\ Rest(s) \in SUBSET X /\ IsSum(Of(Rest(s)), f, Rest(s))
             /\ IsFiniteSet(Rest(s))
  <2>1. First(s) \in s
    BY <1>2 DEF First
  <2>2. Rest(s) \in SUBSET S /\ Rest(s) # X /\ Rest(s) \subseteq X
    BY <2>1
  <2>3. \E h : IsSum(h, f, Rest(s))
    BY <1>1, <2>2
  <2> QED BY <2>2, <2>3, FS_Subset
<1>3. ASSUME NEW s \in SUBSET X, s # {}
      PROVE  g[Rest(s)] = Of(Rest(s))[Rest(s)]
  <2> DEFINE v == Rest(s)
             h == Of(v)
  <2>1. v \in SUBSET X /\ IsSum(h, f, v)
    BY <1>2, <1>3
  <2>2. h[v] = IF v = {} THEN 0 ELSE f[First(v)] + h[Rest(v)]
    BY <2>1, Zenon DEF IsSum
  <2>3. CASE v = {}
    BY <2>1, <2>2, <2>3
  <2>4. CASE v # {}
    <3>1. IsSum(Of(Rest(v)), f, Rest(v)) /\ IsFiniteSet(Rest(v))
      BY <1>2, <2>1, <2>4
    <3>2. h[Rest(v)] = Of(Rest(v))[Rest(v)]
      <4>1. Rest(v) \subseteq v
        OBVIOUS
      <4> HIDE DEF h, Rest, Of, v
      <4> QED BY <3>1, <2>1, <4>1, SumUnique
    <3>3. g[v] = f[First(v)] + Of(Rest(v))[Rest(v)]
      BY <2>1, <2>4
    <3> QED BY <3>2, <3>3, <2>2, <2>4
  <2> QED BY <2>3, <2>4
<1>4. IsSum(g, f, X)
  <2>1. g = [s \in SUBSET X |-> IF s = {} THEN 0 ELSE f[First(s)] + g[Rest(s)]]
    <3>1. ASSUME NEW s \in SUBSET X
          PROVE  (IF s = {} THEN 0 ELSE f[First(s)] + Of(Rest(s))[Rest(s)])
                 = (IF s = {} THEN 0 ELSE f[First(s)] + g[Rest(s)])
      <4> HIDE DEF g, Of, Rest
      <4> QED BY <1>3
    <3>2. g = [s \in SUBSET X |-> IF s = {} THEN 0 ELSE f[First(s)] + Of(Rest(s))[Rest(s)]]
      OBVIOUS
    <3> HIDE DEF g, Of, Rest
    <3> QED BY <3>1, <3>2, Zenon
  <2> HIDE DEF g
  <2> QED BY <2>1 DEF IsSum
<1> QED BY <1>1, <1>4

\* The sum over a nonempty set is that over the others, and an element.
LEMMA SumStep ==
    ASSUME NEW f, NEW S, IsFiniteSet(S)
    PROVE  SumFunctionOnSet(f, S) =
             IF S = {} THEN 0
             ELSE f[First(S)] + SumFunctionOnSet(f, S \ {First(S)})
<1> DEFINE R == S \ {First(S)}
           g == CHOOSE h : IsSum(h, f, S)
           r == CHOOSE h : IsSum(h, f, R)
<1>1. IsFiniteSet(R) /\ R \subseteq S
  BY FS_Subset
<1>2. IsSum(g, f, S) /\ IsSum(r, f, R)
  BY <1>1, SumExists
<1>3. g[R] = r[R]
  <2> HIDE DEF g, r, R
  <2> QED BY <1>1, <1>2, SumUnique
<1>4. SumFunctionOnSet(f, S) = g[S] /\ SumFunctionOnSet(f, R) = r[R]
  BY SumIsFold
<1>5. g[S] = IF S = {} THEN 0 ELSE f[First(S)] + g[R]
  BY <1>2, Zenon DEF IsSum
<1> QED BY <1>3, <1>4, <1>5

LEMMA SumEmpty == ASSUME NEW f PROVE SumFunctionOnSet(f, {}) = 0
BY SumStep, FS_EmptySet

\* Sums of integers are integers.
LEMMA SumType ==
    ASSUME NEW f, NEW S, IsFiniteSet(S), \A x \in S : f[x] \in Int
    PROVE  SumFunctionOnSet(f, S) \in Int
<1> DEFINE T == {X \in SUBSET S : SumFunctionOnSet(f, X) \in Int}
<1>1. ASSUME NEW X \in SUBSET S, \A Y \in SUBSET X : Y # X => Y \in T
      PROVE  X \in T
  <2>1. CASE X = {}
    BY <2>1, SumEmpty
  <2>2. CASE X # {}
    <3>1. First(X) \in X
      BY <2>2 DEF First
    <3>2. SumFunctionOnSet(f, X) = f[First(X)] + SumFunctionOnSet(f, X \ {First(X)})
      BY <2>2, SumStep, FS_Subset
    <3> QED BY <1>1, <3>1, <3>2
  <2> QED BY <2>1, <2>2
<1>2. T \in SUBSET SUBSET S
  OBVIOUS
<1>3. S \in T
  <2> HIDE DEF T
  <2> QED BY <1>1, <1>2, FiniteSubsets
<1> QED BY <1>3

\* Any element may be the first one.
LEMMA SumElement ==
    ASSUME NEW f, NEW S, IsFiniteSet(S), \A x \in S : f[x] \in Int, NEW x \in S
    PROVE  SumFunctionOnSet(f, S) = f[x] + SumFunctionOnSet(f, S \ {x})
<1> DEFINE Sum(X) == SumFunctionOnSet(f, X)
           T == {X \in SUBSET S : \A y \in X : Sum(X) = f[y] + Sum(X \ {y})}
<1>1. ASSUME NEW X \in SUBSET S, \A Y \in SUBSET X : Y # X => Y \in T,
             NEW y \in X
      PROVE  Sum(X) = f[y] + Sum(X \ {y})
  <2> DEFINE z == First(X)
  <2>1. z \in X
    BY DEF First
  <2>2. Sum(X) = f[z] + Sum(X \ {z})
    BY SumStep, FS_Subset
  <2>3. CASE y = z
    BY <2>2, <2>3
  <2>4. CASE y # z
    <3> DEFINE Y == X \ {z}
               Z == X \ {y}
               R == X \ {y, z}
    <3>1. Y \in T /\ y \in Y /\ Z \in T /\ z \in Z /\ Y \ {y} = R /\ Z \ {z} = R
      BY <1>1, <2>1, <2>4
    <3>2. Sum(Y) = f[y] + Sum(R) /\ Sum(Z) = f[z] + Sum(R)
      BY <3>1
    <3>3. Sum(R) \in Int
      <4>1. R \subseteq S /\ IsFiniteSet(R)
        BY FS_Subset
      <4> QED BY <4>1, SumType
    <3>4. f[y] \in Int /\ f[z] \in Int
      BY <2>1
    <3> HIDE DEF Sum, R, z
    <3> QED BY <2>2, <3>2, <3>3, <3>4
  <2> QED BY <2>3, <2>4
<1>2. T \in SUBSET SUBSET S
  OBVIOUS
<1>3. ASSUME NEW X \in SUBSET S, \A Y \in SUBSET X : Y # X => Y \in T
      PROVE  X \in T
  BY <1>1, <1>3
<1>4. S \in T
  <2> HIDE DEF T
  <2> QED BY <1>2, <1>3, FiniteSubsets
<1> QED BY <1>4

-----------------------------------------------------------------------------
(* Sums of related functions.                                              *)

\* A sum depends on the values of the function on the set only.
LEMMA SumSame ==
    ASSUME NEW f, NEW g, NEW S, IsFiniteSet(S), \A x \in S : f[x] = g[x]
    PROVE  SumFunctionOnSet(f, S) = SumFunctionOnSet(g, S)
<1> DEFINE T == {X \in SUBSET S : SumFunctionOnSet(f, X) = SumFunctionOnSet(g, X)}
<1>1. ASSUME NEW X \in SUBSET S, \A Y \in SUBSET X : Y # X => Y \in T
      PROVE  X \in T
  <2>1. CASE X = {}
    BY <2>1, SumEmpty
  <2>2. CASE X # {}
    <3>1. First(X) \in X
      BY <2>2 DEF First
    <3>2. /\ SumFunctionOnSet(f, X) = f[First(X)] + SumFunctionOnSet(f, X \ {First(X)})
          /\ SumFunctionOnSet(g, X) = g[First(X)] + SumFunctionOnSet(g, X \ {First(X)})
      BY <2>2, SumStep, FS_Subset
    <3> QED BY <1>1, <3>1, <3>2
  <2> QED BY <2>1, <2>2
<1>2. T \in SUBSET SUBSET S
  OBVIOUS
<1>3. S \in T
  <2> HIDE DEF T
  <2> QED BY <1>1, <1>2, FiniteSubsets
<1> QED BY <1>3

\* A change of one value changes the sum by as much.
LEMMA SumChange ==
    ASSUME NEW f, NEW g, NEW S, IsFiniteSet(S), NEW x \in S,
           \A y \in S : f[y] \in Int /\ g[y] \in Int,
           \A y \in S \ {x} : f[y] = g[y]
    PROVE  SumFunctionOnSet(g, S) = SumFunctionOnSet(f, S) - f[x] + g[x]
<1>1. IsFiniteSet(S \ {x})
  BY FS_Subset
<1>2. SumFunctionOnSet(f, S \ {x}) = SumFunctionOnSet(g, S \ {x})
  BY <1>1, SumSame
<1>3. /\ SumFunctionOnSet(f, S) = f[x] + SumFunctionOnSet(f, S \ {x})
      /\ SumFunctionOnSet(g, S) = g[x] + SumFunctionOnSet(g, S \ {x})
  BY SumElement
<1>4. SumFunctionOnSet(f, S \ {x}) \in Int
  BY <1>1, SumType
<1> QED BY <1>2, <1>3, <1>4

\* A sum lies in every set that contains 0 and the values, and is closed
\* under addition.
LEMMA SumIn ==
    ASSUME NEW f, NEW S, IsFiniteSet(S), NEW D, 0 \in D,
           \A x, y \in D : x + y \in D, \A x \in S : f[x] \in D
    PROVE  SumFunctionOnSet(f, S) \in D
<1> DEFINE T == {X \in SUBSET S : SumFunctionOnSet(f, X) \in D}
<1>1. ASSUME NEW X \in SUBSET S, \A Y \in SUBSET X : Y # X => Y \in T
      PROVE  X \in T
  <2>1. CASE X = {}
    BY <2>1, SumEmpty
  <2>2. CASE X # {}
    <3>1. First(X) \in X
      BY <2>2 DEF First
    <3>2. SumFunctionOnSet(f, X) = f[First(X)] + SumFunctionOnSet(f, X \ {First(X)})
      BY <2>2, SumStep, FS_Subset
    <3> QED BY <1>1, <3>1, <3>2
  <2> QED BY <2>1, <2>2
<1>2. T \in SUBSET SUBSET S
  OBVIOUS
<1>3. T = SUBSET S
  <2> HIDE DEF T
  <2> QED BY <1>1, <1>2, FiniteSubsets
<1> QED BY <1>3

\* Sums of numbers are numbers, no smaller than any of them.
LEMMA SumOfNumbers ==
    ASSUME NEW f, NEW S, IsFiniteSet(S), \A x \in S : f[x] \in Nat
    PROVE  /\ SumFunctionOnSet(f, S) \in Nat
           /\ \A x \in S : f[x] <= SumFunctionOnSet(f, S)
<1>1. ASSUME NEW X \in SUBSET S PROVE SumFunctionOnSet(f, X) \in Nat
  <2>1. IsFiniteSet(X) /\ \A x, y \in Nat : x + y \in Nat
    BY FS_Subset
  <2> QED BY <2>1, SumIn
<1>2. ASSUME NEW x \in S PROVE f[x] <= SumFunctionOnSet(f, S)
  <2>1. SumFunctionOnSet(f, S) = f[x] + SumFunctionOnSet(f, S \ {x})
    BY SumElement
  <2>2. SumFunctionOnSet(f, S \ {x}) \in Nat
    BY <1>1
  <2> QED BY <2>1, <2>2
<1> QED BY <1>1, <1>2

LEMMA SumZero ==
    ASSUME NEW f, NEW S, IsFiniteSet(S), \A x \in S : f[x] = 0
    PROVE  SumFunctionOnSet(f, S) = 0
<1>1. 0 \in {0} /\ \A x, y \in {0} : x + y \in {0}
  OBVIOUS
<1>2. SumFunctionOnSet(f, S) \in {0}
  BY <1>1, SumIn
<1> QED BY <1>2

\* Renaming the elements does not change a sum.
LEMMA SumRenamed ==
    ASSUME NEW f, NEW g, NEW S, IsFiniteSet(S), NEW T, NEW p \in [S -> T],
           \A x, y \in S : p[x] = p[y] => x = y, \A y \in T : \E x \in S : p[x] = y,
           \A x \in S : f[p[x]] = g[x] /\ g[x] \in Int
    PROVE  SumFunctionOnSet(f, T) = SumFunctionOnSet(g, S)
<1> DEFINE Image(X) == {p[x] : x \in X}
           U == {X \in SUBSET S : SumFunctionOnSet(f, Image(X)) = SumFunctionOnSet(g, X)}
<1>1. IsFiniteSet(T)
  <2>1. p \in Surjection(S, T)
    BY DEF Surjection
  <2> QED BY <2>1, FS_Surjection
<1>2. ASSUME NEW X \in SUBSET S, \A Y \in SUBSET X : Y # X => Y \in U
      PROVE  X \in U
  <2>1. CASE X = {}
    <3>1. Image(X) = {}
      BY <2>1
    <3> QED BY <2>1, <3>1, SumEmpty
  <2>2. CASE X # {}
    <3> DEFINE x == First(X)
               R == X \ {x}
    <3>1. x \in X /\ x \in S
      BY <2>2 DEF First
    <3>2. SumFunctionOnSet(g, X) = g[x] + SumFunctionOnSet(g, R)
      BY <2>2, SumStep, FS_Subset
    <3>3. IsFiniteSet(Image(X)) /\ p[x] \in Image(X) /\ \A y \in Image(X) : f[y] \in Int
      <4>1. Image(X) \subseteq T
        OBVIOUS
      <4>2. p[x] \in Image(X)
        BY <3>1
      <4>3. \A y \in Image(X) : f[y] \in Int
        OBVIOUS
      <4> HIDE DEF Image, x
      <4> QED BY <1>1, <4>1, <4>2, <4>3, FS_Subset
    <3>4. SumFunctionOnSet(f, Image(X)) = f[p[x]] + SumFunctionOnSet(f, Image(X) \ {p[x]})
      <4> HIDE DEF Image, x
      <4> QED BY <3>3, SumElement
    <3>5. Image(X) \ {p[x]} = Image(R)
      <4>1. \A y \in X : p[y] = p[x] <=> y = x
        BY <3>1
      <4> HIDE DEF x
      <4> QED BY <4>1
    <3>6. R \in U
      <4>1. R \in SUBSET X /\ R # X
        BY <3>1
      <4> HIDE DEF U, R
      <4> QED BY <1>2, <4>1
    <3>7. f[p[x]] = g[x]
      BY <3>1
    <3>8. SumFunctionOnSet(f, Image(R)) = SumFunctionOnSet(g, R)
      BY <3>6
    <3>9. SumFunctionOnSet(f, Image(X)) = SumFunctionOnSet(g, X)
      <4> HIDE DEF Image, x, R
      <4> QED BY <3>2, <3>4, <3>5, <3>7, <3>8
    <3> QED BY <3>9
  <2> QED BY <2>1, <2>2
<1>3. S \in U
  <2>1. U \in SUBSET SUBSET S
    OBVIOUS
  <2> HIDE DEF U
  <2> QED BY <1>2, <2>1, FiniteSubsets
<1>4. Image(S) = T
  OBVIOUS
<1> QED BY <1>3, <1>4

\* A sum of numbers is no larger than its largest number for each element.
LEMMA SumBound ==
    ASSUME NEW f, NEW S, IsFiniteSet(S), NEW m \in Nat,
           \A x \in S : f[x] \in Nat /\ f[x] <= m
    PROVE  SumFunctionOnSet(f, S) <= Cardinality(S) * m
<1> DEFINE T == {X \in SUBSET S : SumFunctionOnSet(f, X) <= Cardinality(X) * m}
<1>1. ASSUME NEW X \in SUBSET S, \A Y \in SUBSET X : Y # X => Y \in T
      PROVE  X \in T
  <2>1. CASE X = {}
    BY <2>1, SumEmpty, FS_EmptySet
  <2>2. CASE X # {}
    <3>1. PICK x \in X : x = First(X)
      BY <2>2 DEF First
    <3>2. SumFunctionOnSet(f, X) = f[x] + SumFunctionOnSet(f, X \ {x})
      BY <2>2, <3>1, SumStep, FS_Subset
    <3>3. IsFiniteSet(X) /\ IsFiniteSet(X \ {x})
      BY FS_Subset
    <3>4. Cardinality(X \ {x}) = Cardinality(X) - 1 /\ Cardinality(X) \in Nat
      BY <3>3, FS_RemoveElement, FS_CardinalityType
    <3>5. SumFunctionOnSet(f, X \ {x}) <= Cardinality(X \ {x}) * m
      <4>1. X \ {x} \in SUBSET X /\ X \ {x} # X
        OBVIOUS
      <4> QED BY <1>1, <4>1
    <3>6. SumFunctionOnSet(f, X \ {x}) \in Nat
      BY <3>3, SumOfNumbers
    <3>7. PICK c, a, s : c = Cardinality(X) /\ a = f[x] /\ s = SumFunctionOnSet(f, X \ {x})
      OBVIOUS
    <3>8. c \in Nat /\ a \in Nat /\ a <= m /\ s \in Nat /\ s <= (c - 1) * m
      BY <3>4, <3>5, <3>6, <3>7
    <3>9. a + s <= c * m
      BY <3>8
    <3> QED BY <3>2, <3>7, <3>9
  <2> QED BY <2>1, <2>2
<1>2. T \in SUBSET SUBSET S
  OBVIOUS
<1>3. S \in T
  <2> HIDE DEF T
  <2> QED BY <1>1, <1>2, FiniteSubsets
<1> QED BY <1>3

-----------------------------------------------------------------------------
(* Powers of two.                                                          *)

\* Doubling: a set has twice as many subsets with one more element.
LEMMA PowerStep ==
    ASSUME NEW n \in Nat
    PROVE  2^n \in Nat \ {0} /\ 2^(n + 1) = 2 * 2^n
<1> DEFINE S == 1 .. n
           A == SUBSET S
           B == {X \cup {n + 1} : X \in A}
           f == [X \in A |-> X \cup {n + 1}]
<1>1. IsFiniteSet(S) /\ Cardinality(S) = n /\ Cardinality(1 .. n + 1) = n + 1
      /\ IsFiniteSet(1 .. n + 1)
  BY FS_Interval
<1>2. IsFiniteSet(A) /\ Cardinality(A) = 2^n
  BY <1>1, FS_SUBSET
<1>3. Cardinality(SUBSET (1 .. n + 1)) = 2^(n + 1)
  BY <1>1, FS_SUBSET
<1>4. SUBSET (1 .. n + 1) = A \cup B
  <2>1. ASSUME NEW Y \in SUBSET (1 .. n + 1) PROVE Y \in A \cup B
    <3>1. CASE n + 1 \in Y
      <4>1. Y \ {n + 1} \in A /\ Y = (Y \ {n + 1}) \cup {n + 1}
        BY <3>1
      <4> QED BY <4>1
    <3>2. CASE n + 1 \notin Y
      BY <3>2
    <3> QED BY <3>1, <3>2
  <2>2. ASSUME NEW Y \in A \cup B PROVE Y \in SUBSET (1 .. n + 1)
    <3>1. S \subseteq 1 .. n + 1 /\ n + 1 \in 1 .. n + 1
      OBVIOUS
    <3> HIDE DEF S
    <3> QED BY <3>1
  <2> QED BY <2>1, <2>2
<1>5. f \in Bijection(A, B)
  <2>1. n + 1 \notin S
    OBVIOUS
  <2> HIDE DEF S
  <2>2. f \in [A -> B] /\ \A Y \in B : \E X \in A : f[X] = Y
    OBVIOUS
  <2>3. ASSUME NEW X \in A, NEW Y \in A, f[X] = f[Y] PROVE X = Y
    <3>1. X \cup {n + 1} = Y \cup {n + 1} /\ n + 1 \notin X /\ n + 1 \notin Y
      BY <2>1, <2>3
    <3>2. X = (X \cup {n + 1}) \ {n + 1} /\ Y = (Y \cup {n + 1}) \ {n + 1}
      BY <3>1
    <3> QED BY <3>1, <3>2
  <2> QED BY <2>2, <2>3 DEF Bijection, Injection, Surjection, IsInjective
<1>6. IsFiniteSet(B) /\ Cardinality(B) = 2^n
  <2> HIDE DEF A, B, f
  <2> QED BY <1>2, <1>5, FS_Bijection DEF ExistsBijection
<1>7. A \cap B = {}
  OBVIOUS
<1>8. Cardinality(A \cup B) = 2^n + 2^n - 0
  <2> HIDE DEF A, B
  <2> QED BY <1>2, <1>6, <1>7, FS_Union, FS_EmptySet
<1>9. 2^n \in Nat \ {0}
  <2>1. Cardinality(A) \in Nat /\ A # {}
    BY <1>2, FS_CardinalityType
  <2> HIDE DEF A
  <2> QED BY <1>2, <2>1, FS_EmptySet
<1> HIDE DEF A, B
<1>10. PICK x, y : x = 2^n /\ y = 2^(n + 1)
  OBVIOUS
<1>11. x \in Nat \ {0}
  BY <1>9, <1>10, Zenon
<1>12. y = x + x - 0
  BY <1>3, <1>4, <1>8, <1>10, Zenon
<1>13. y = 2 * x
  BY ONLY <1>11, <1>12
<1> QED BY <1>10, <1>11, <1>13, Zenon

-----------------------------------------------------------------------------
(* Exclusive or and parity.                                                *)

LEMMA XorSubset ==
    ASSUME NEW S, NEW A \in SUBSET S, NEW B \in SUBSET S
    PROVE  Xor(A, B) \in SUBSET S
BY Zenon DEF Xor

LEMMA DisjointUnion ==
    ASSUME NEW A, NEW B, IsFiniteSet(A), IsFiniteSet(B), A \intersect B = {}
    PROVE  /\ IsFiniteSet(A \union B)
           /\ Cardinality(A) \in Nat /\ Cardinality(B) \in Nat
           /\ Cardinality(A \union B) = Cardinality(A) + Cardinality(B)
<1>1. Cardinality(A) \in Nat /\ Cardinality(B) \in Nat
  BY FS_CardinalityType
<1>2. /\ IsFiniteSet(A \union B)
      /\ Cardinality(A \union B) = Cardinality(A) + Cardinality(B) - Cardinality({})
  BY FS_Union
<1>3. Cardinality({}) = 0
  BY FS_EmptySet
<1> QED BY <1>1, <1>2, <1>3

\* The ones of two words are the ones of their sum and twice the common ones.
LEMMA XorCardinality ==
    ASSUME NEW A, NEW B, IsFiniteSet(A), IsFiniteSet(B)
    PROVE  /\ IsFiniteSet(Xor(A, B)) /\ IsFiniteSet(A \intersect B)
           /\ Cardinality(A) \in Nat /\ Cardinality(B) \in Nat
           /\ Cardinality(Xor(A, B)) \in Nat /\ Cardinality(A \intersect B) \in Nat
           /\ Cardinality(A) + Cardinality(B)
                = Cardinality(Xor(A, B)) + 2 * Cardinality(A \intersect B)
<1> DEFINE C == A \intersect B
           L == A \ B
           R == B \ A
<1>1. IsFiniteSet(C) /\ IsFiniteSet(L) /\ IsFiniteSet(R)
  BY FS_Subset
<1>2. Cardinality(A) \in Nat /\ Cardinality(B) \in Nat /\ Cardinality(C) \in Nat
      /\ Cardinality(L) \in Nat /\ Cardinality(R) \in Nat
  BY <1>1, FS_CardinalityType
<1>3. Cardinality(A) = Cardinality(L) + Cardinality(C)
  <2>1. A = L \union C /\ L \intersect C = {}
    OBVIOUS
  <2>2. Cardinality(L \union C) = Cardinality(L) + Cardinality(C)
    BY <1>1, <2>1, DisjointUnion
  <2> QED BY <2>1, <2>2
<1>4. Cardinality(B) = Cardinality(R) + Cardinality(C)
  <2>1. B = R \union C /\ R \intersect C = {}
    OBVIOUS
  <2>2. Cardinality(R \union C) = Cardinality(R) + Cardinality(C)
    BY <1>1, <2>1, DisjointUnion
  <2> QED BY <2>1, <2>2
<1>5. /\ IsFiniteSet(Xor(A, B))
      /\ Cardinality(Xor(A, B)) = Cardinality(L) + Cardinality(R)
  <2>1. Xor(A, B) = L \union R /\ L \intersect R = {}
    BY DEF Xor
  <2> QED BY <1>1, <1>2, <2>1, DisjointUnion
<1> QED BY <1>1, <1>2, <1>3, <1>4, <1>5

\* The parity of a sum is the sum of the parities.
LEMMA XorOdd ==
    ASSUME NEW A, NEW B, IsFiniteSet(A), IsFiniteSet(B)
    PROVE  Odd(Xor(A, B)) <=> ~ (Odd(A) <=> Odd(B))
<1>1. PICK a \in Nat, b \in Nat, x \in Nat, c \in Nat :
         /\ a = Cardinality(A) /\ b = Cardinality(B)
         /\ x = Cardinality(Xor(A, B)) /\ c = Cardinality(A \intersect B)
         /\ a + b = x + 2 * c
  BY XorCardinality
<1>2. x % 2 = 1 <=> ~ (a % 2 = 1 <=> b % 2 = 1)
  BY <1>1
<1> QED BY <1>1, <1>2 DEF Odd

LEMMA SumOdd ==
    ASSUME NEW X, NEW A, NEW B, IsFiniteSet(A), IsFiniteSet(B), X = Xor(A, B)
    PROVE  Odd(X) <=> ~ (Odd(A) <=> Odd(B))
BY XorOdd

\* The same under a mask.
LEMMA MaskOdd ==
    ASSUME NEW X, NEW A, NEW B, NEW M, IsFiniteSet(A), IsFiniteSet(B), X = Xor(A, B)
    PROVE  Odd(X \intersect M) <=> ~ (Odd(A \intersect M) <=> Odd(B \intersect M))
<1>1. IsFiniteSet(A \intersect M) /\ IsFiniteSet(B \intersect M)
  BY Zenon, FS_Intersection
<1>2. X \intersect M = Xor(A \intersect M, B \intersect M)
  BY DEF Xor
<1> DEFINE U == X \intersect M
           V == A \intersect M
           W == B \intersect M
<1>3. IsFiniteSet(V) /\ IsFiniteSet(W) /\ U = Xor(V, W)
  BY <1>1, <1>2
<1>4. Odd(U) <=> ~ (Odd(V) <=> Odd(W))
  <2> HIDE DEF U, V, W
  <2> QED BY <1>3, SumOdd
<1> QED BY <1>4

LEMMA OddEmpty == ~ Odd({})
BY FS_EmptySet DEF Odd

\* A word masked is masked bit by bit.
LEMMA XorMask ==
    ASSUME NEW A, NEW B, NEW M
    PROVE  Xor(A, B) \intersect M = Xor(A \intersect M, B \intersect M)
BY Zenon DEF Xor

\* The sum of two sums.
LEMMA XorXor ==
    ASSUME NEW A, NEW B, NEW C, NEW D
    PROVE  Xor(Xor(A, B), Xor(C, D)) = Xor(Xor(A, C), Xor(B, D))
BY DEF Xor

ImageOf(f, S) == {f[b] : b \in S}

\* A function without repetitions takes sums to sums.
LEMMA XorImage ==
    ASSUME NEW f, NEW D, NEW A \in SUBSET D, NEW B \in SUBSET D,
           \A b, c \in D : f[b] = f[c] => b = c
    PROVE  ImageOf(f, Xor(A, B)) = Xor(ImageOf(f, A), ImageOf(f, B))
BY DEF Xor, ImageOf
=============================================================================
