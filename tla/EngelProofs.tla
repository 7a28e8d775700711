------------------------------ MODULE EngelProofs ------------------------------
(***************************************************************************)
(* Theorems about EngelCoding, for every number of symbols, every bound on *)
(* the lengths and every input.                                            *)
(***************************************************************************)
EXTENDS EngelCoding, Induction

-----------------------------------------------------------------------------
(* Powers of two and code words *)

LEMMA PowerSum ==
    ASSUME NEW a \in Nat, NEW b \in Nat
    PROVE  2^(a + b) = 2^a * 2^b
<1> DEFINE T == {n \in Nat : 2^(a + n) = 2^a * 2^n}
<1>1. 0 \in T
    <2>1. 2^0 = 1 /\ 2^a \in Nat
        BY PowerStep, SMT
    <2> QED BY <2>1
<1>2. ASSUME NEW n \in T PROVE n + 1 \in T
    <2>1. PICK x, y : x = 2^a /\ y = 2^n
        OBVIOUS
    <2>2. x \in Nat /\ y \in Nat /\ 2^(n + 1) = 2 * y
        BY <2>1, PowerStep
    <2>3. 2^((a + n) + 1) = 2 * (x * y)
        BY <2>1, PowerStep
    <2>4. (a + n) + 1 = a + (n + 1)
        OBVIOUS
    <2>5. 2 * (x * y) = x * (2 * y)
        BY <2>2
    <2> QED BY <2>1, <2>2, <2>3, <2>4, <2>5
<1>3. T \in SUBSET Nat
    OBVIOUS
<1>4. T = Nat
    <2> HIDE DEF T
    <2> QED BY <1>1, <1>2, <1>3, Numbers
<1> QED BY <1>4

LEMMA Sizes ==
    /\ MaxBits \in Nat /\ MaxBits >= 2 /\ Absent = MaxBits + 1 /\ Absent \in Nat
    /\ NSym \in Nat /\ NSym >= 2
    /\ MaxSlots \in Nat \ {0}
    /\ Symbols = 0 .. NSym - 1 /\ IsFiniteSet(Symbols) /\ Cardinality(Symbols) = NSym
<1>1. MaxBits \in Nat /\ MaxBits >= 2
    BY SizeAssumption
<1>2. MaxSlots \in Nat \ {0}
    BY <1>1, PowerStep DEF MaxSlots
<1>3. NSym \in Nat /\ NSym >= 2
    BY <1>2, SizeAssumption DEF MaxSlots
<1> QED BY <1>1, <1>2, <1>3, FS_Interval DEF Absent, Symbols

\* The code words of a symbol of each length.
LEMMA SlotsPower ==
    ASSUME NEW b \in 0 .. MaxBits
    PROVE  Slots(b) = 2^(MaxBits - b)
<1>1. b \in Nat /\ MaxBits - b \in Nat /\ (MaxBits - b) + b = MaxBits
    BY Sizes
<1>2. PICK x, y : x = 2^(MaxBits - b) /\ y = 2^b
    OBVIOUS
<1>3. x \in Nat \ {0} /\ y \in Nat \ {0} /\ MaxSlots = x * y
    BY <1>1, <1>2, PowerSum, PowerStep DEF MaxSlots
<1>4. (x * y) \div y = x
    BY <1>3, SMT
<1> QED BY <1>2, <1>3, <1>4 DEF Slots

LEMMA SlotsFacts ==
    /\ \A b \in 0 .. MaxBits : Slots(b) \in Nat \ {0}
    /\ \A b \in 0 .. MaxBits - 1 : Slots(b) = 2 * Slots(b + 1)
    /\ Slots(0) = MaxSlots /\ Slots(MaxBits) = 1 /\ Slots(Absent) = 0
<1>1. ASSUME NEW b \in 0 .. MaxBits PROVE Slots(b) \in Nat \ {0}
    <2>1. MaxBits - b \in Nat
        BY Sizes
    <2> QED BY <2>1, SlotsPower, PowerStep
<1>2. ASSUME NEW b \in 0 .. MaxBits - 1 PROVE Slots(b) = 2 * Slots(b + 1)
    <2>1. /\ b \in 0 .. MaxBits /\ b + 1 \in 0 .. MaxBits
          /\ MaxBits - (b + 1) \in Nat /\ MaxBits - b = (MaxBits - (b + 1)) + 1
        BY Sizes
    <2>2. Slots(b) = 2^((MaxBits - (b + 1)) + 1) /\ Slots(b + 1) = 2^(MaxBits - (b + 1))
        BY <2>1, SlotsPower
    <2> QED BY <2>1, <2>2, PowerStep
<1>3. 0 \in 0 .. MaxBits /\ MaxBits \in 0 .. MaxBits /\ MaxBits - 0 = MaxBits
      /\ MaxBits - MaxBits = 0 /\ 2^0 = 1
    BY Sizes, SMT
<1>4. Slots(0) = MaxSlots /\ Slots(MaxBits) = 1
    BY <1>3, SlotsPower DEF MaxSlots
<1>5. Slots(Absent) = 0
    <2>1. 2^Absent = 2 * MaxSlots
        BY Sizes, PowerStep DEF MaxSlots, Absent
    <2>2. PICK m \in Nat \ {0} : m = MaxSlots
        BY Sizes
    <2>3. m \div (2 * m) = 0
        BY <2>2, SMT
    <2> QED BY <2>1, <2>2, <2>3 DEF Slots
<1> QED BY <1>1, <1>2, <1>4, <1>5

\* Longer codes have no more code words, and a multiple of what a longer one
\* has.
Multiples(m) == {k * m : k \in Int}

LEMMA SlotsMultiple ==
    ASSUME NEW c \in 0 .. MaxBits, NEW b \in 0 .. c
    PROVE  /\ Slots(b) \in Multiples(Slots(c))
           /\ Slots(b) >= Slots(c)
<1>1. c - b \in Nat /\ MaxBits - c \in Nat /\ MaxBits - b = (c - b) + (MaxBits - c)
      /\ b \in 0 .. MaxBits
    BY Sizes
<1>2. PICK x, y : x = 2^(c - b) /\ y = 2^(MaxBits - c)
    OBVIOUS
<1>3. x \in Nat \ {0} /\ y \in Nat \ {0} /\ Slots(b) = x * y /\ Slots(c) = y
    BY <1>1, <1>2, PowerSum, PowerStep, SlotsPower
<1>4. x * y >= y /\ x \in Int
    BY <1>3, SMT
<1> QED BY <1>3, <1>4 DEF Multiples

LEMMA MultiplesClosed ==
    ASSUME NEW m \in Nat \ {0}
    PROVE  /\ 0 \in Multiples(m)
           /\ \A x, y \in Multiples(m) : x + y \in Multiples(m) /\ x - y \in Multiples(m)
           /\ \A x \in Multiples(m) : x \in Int /\ (x < 0 => x + m <= 0)
<1>1. 0 \in Multiples(m)
    <2>1. 0 = 0 * m /\ 0 \in Int
        OBVIOUS
    <2> QED BY <2>1 DEF Multiples
<1>2. ASSUME NEW x \in Multiples(m), NEW y \in Multiples(m)
      PROVE  x + y \in Multiples(m) /\ x - y \in Multiples(m)
    <2>1. PICK j \in Int : x = j * m
        BY DEF Multiples
    <2>2. PICK k \in Int : y = k * m
        BY DEF Multiples
    <2>3. x + y = (j + k) * m /\ x - y = (j - k) * m /\ j + k \in Int /\ j - k \in Int
        BY <2>1, <2>2, SMT
    <2> QED BY <2>3 DEF Multiples
<1>3. ASSUME NEW x \in Multiples(m) PROVE x \in Int /\ (x < 0 => x + m <= 0)
    <2>1. PICK k \in Int : x = k * m
        BY DEF Multiples
    <2>2. x \in Int /\ (x < 0 => k <= -1)
        BY <2>1, SMT
    <2>3. k <= -1 => (k + 1) * m <= 0
        BY SMT
    <2>4. (k + 1) * m = x + m
        BY <2>1, SMT
    <2> QED BY <2>2, <2>3, <2>4
<1> QED BY <1>1, <1>2, <1>3

-----------------------------------------------------------------------------
(* Extreme elements *)

LEMMA LeastOf ==
    ASSUME NEW S \in SUBSET Nat, S # {}
    PROVE  Min(S) \in S /\ \A y \in S : Min(S) <= y
BY LeastNumber DEF Min

LEMMA GreatestOf ==
    ASSUME NEW n \in Nat, NEW S \in SUBSET (0 .. n), S # {}
    PROVE  Max(S) \in S /\ \A y \in S : Max(S) >= y
<1> DEFINE T == {x \in 0 .. n : n - x \in S}
<1>1. T \in SUBSET Nat /\ T # {}
    <2>1. PICK y \in S : TRUE
        OBVIOUS
    <2>2. n - y \in T
        <3>1. y \in 0 .. n
            OBVIOUS
        <3>2. n - y \in 0 .. n /\ n - (n - y) = y
            BY <3>1
        <3> QED BY <3>2
    <2>3. T \subseteq Nat
        OBVIOUS
    <2> QED BY <2>2, <2>3
<1>2. PICK x \in T : \A z \in T : x <= z
    <2> HIDE DEF T
    <2> QED BY <1>1, LeastNumber
<1>3. n - x \in S /\ x \in 0 .. n
    OBVIOUS
<1>4. ASSUME NEW y \in S PROVE n - x >= y
    <2>1. y \in 0 .. n
        OBVIOUS
    <2>2. n - y \in 0 .. n /\ n - (n - y) = y
        BY <2>1
    <2>3. n - y \in T
        BY <2>2
    <2>4. x <= n - y
        BY <1>2, <2>3
    <2> QED BY <1>3, <2>1, <2>4
<1> QED BY <1>3, <1>4 DEF Max

-----------------------------------------------------------------------------
(* The first guess *)

LEMMA BoundaryOf ==
    ASSUME NEW n \in Nat
    PROVE  \E B \in Nat : /\ B = (n * 23170 + (n * 31130) \div 65536) \div 65536
                          /\ n > 2 => B >= 1
                          /\ n <= 2 => B = 0
<1>1. PICK m : m = n * 31130
    OBVIOUS
<1>2. m \in Nat /\ (n <= 2 => m < 65536)
    BY <1>1
<1>3. m \div 65536 \in Nat /\ (m < 65536 => m \div 65536 = 0)
    BY <1>2, SMT
<1>4. PICK k : k = n * 23170 + m \div 65536
    OBVIOUS
<1>5. k \in Nat /\ (n <= 2 => k < 65536) /\ (n > 2 => k >= 65536)
    BY <1>2, <1>3, <1>4
<1>6. k \div 65536 \in Nat /\ (k < 65536 => k \div 65536 = 0)
      /\ (k >= 65536 => k \div 65536 >= 1)
    BY <1>5, SMT
<1> QED BY <1>1, <1>4, <1>5, <1>6

LEMMA InputFacts ==
    ASSUME hgram \in [Symbols -> Counts]
    PROVE  /\ \A s \in Symbols : hgram[s] \in Nat /\ hgram[s] < 65536
           /\ Slen \in Nat /\ Boundary \in Nat
           /\ Slen > 2 => Boundary >= 1
           /\ Slen <= 2 => Boundary = 0
           /\ \A s \in Symbols : hgram[s] <= Slen
<1>1. \A s \in Symbols : hgram[s] \in Nat /\ hgram[s] < 65536
    BY InputAssumption
<1>2. \A s \in Symbols : hgram[s] \in Nat
    BY <1>1
<1>3. DOMAIN hgram = Symbols
    OBVIOUS
<1>4. Slen \in Nat /\ \A s \in Symbols : hgram[s] <= Slen
    BY <1>2, <1>3, Sizes, SumOfNumbers DEF Slen, SumFunction
<1>5. PICK B \in Nat : B = Boundary /\ (Slen > 2 => B >= 1) /\ (Slen <= 2 => B = 0)
    BY <1>4, BoundaryOf DEF Boundary
<1> QED BY <1>1, <1>4, <1>5

LEMMA LowBounds ==
    ASSUME Boundary \in Nat
    PROVE  /\ \A b \in 1 .. Absent : LowBound(b) \in Nat
           /\ LowBound(1) = Boundary /\ LowBound(MaxBits) = 1 /\ LowBound(Absent) = 0
           /\ \A b \in 1 .. MaxBits - 1 : LowBound(b) > 1 => LowBound(b + 1) >= 1
<1>1. PICK B \in Nat : B = Boundary
    OBVIOUS
<1>2. ASSUME NEW b \in 1 .. MaxBits - 1
      PROVE  LowBound(b) \in Nat /\ LowBound(b) = B \div 2^(b - 1) /\ 2^(b - 1) \in Nat \ {0}
    <2>1. b < MaxBits /\ b - 1 \in Nat
        BY Sizes
    <2>2. PICK d \in Nat \ {0} : d = 2^(b - 1)
        BY <2>1, PowerStep
    <2>3. B \div d \in Nat
        BY <2>2, SMT
    <2> QED BY <1>1, <2>1, <2>2, <2>3 DEF LowBound
<1>3. LowBound(MaxBits) = 1 /\ LowBound(Absent) = 0
    BY Sizes DEF LowBound
<1>4. LowBound(1) = Boundary
    <2>1. 1 \in 1 .. MaxBits - 1 /\ 1 - 1 = 0 /\ 2^0 = 1
        BY Sizes, SMT
    <2>2. B \div 1 = B
        BY SMT
    <2>3. LowBound(1) = B \div 2^(1 - 1)
        BY <1>2, <2>1
    <2> QED BY <1>1, <2>1, <2>2, <2>3
<1>5. \A b \in 1 .. Absent : LowBound(b) \in Nat
    <2>1. \A b \in 1 .. Absent : b \in 1 .. MaxBits - 1 \/ b = MaxBits \/ b = Absent
        BY Sizes
    <2> QED BY <1>2, <1>3, <2>1
<1>6. ASSUME NEW b \in 1 .. MaxBits - 1, LowBound(b) > 1 PROVE LowBound(b + 1) >= 1
    <2>1. CASE b + 1 = MaxBits
        BY <1>3, <2>1
    <2>2. CASE b + 1 # MaxBits
        <3>1. b + 1 \in 1 .. MaxBits - 1 /\ (b + 1) - 1 = (b - 1) + 1 /\ b - 1 \in Nat
            BY <2>2, Sizes
        <3>2. PICK d \in Nat \ {0} : d = 2^(b - 1)
            BY <1>2
        <3>3. 2^((b + 1) - 1) = 2 * d
            BY <3>1, <3>2, PowerStep
        <3>4. LowBound(b) = B \div d /\ LowBound(b + 1) = B \div (2 * d)
            BY <1>2, <3>1, <3>2, <3>3
        <3>5. B \div d > 1 => B >= 2 * d
            BY <3>2, SMT
        <3>6. B >= 2 * d => B \div (2 * d) >= 1
            BY <3>2, SMT
        <3> QED BY <1>6, <3>4, <3>5, <3>6
    <2> QED BY <2>1, <2>2
<1> QED BY <1>3, <1>4, <1>5, <1>6

\* The lengths a count may get.
Admitted(count) == {b \in 1 .. Absent : Tried(b) /\ count >= LowBound(b)}

LEMMA FirstBitlenFacts ==
    ASSUME Boundary \in Nat, NEW count \in Nat
    PROVE  /\ FirstBitlen(count) \in 1 .. Absent
           /\ count > 0 => FirstBitlen(count) \in 1 .. MaxBits
           /\ Boundary = 0 => FirstBitlen(count) \in 1 .. MaxBits
           /\ Boundary >= 1 /\ count = 0 => FirstBitlen(count) = Absent
           /\ \A other \in Nat : other <= count => FirstBitlen(count) <= FirstBitlen(other)
<1>1. ASSUME NEW c \in Nat
      PROVE  /\ Absent \in Admitted(c)
             /\ FirstBitlen(c) \in Admitted(c) /\ FirstBitlen(c) \in 1 .. Absent
             /\ \A b \in Admitted(c) : FirstBitlen(c) <= b
    <2>1. Absent \in Admitted(c)
        BY LowBounds, Sizes DEF Admitted, Tried
    <2>2. Admitted(c) \in SUBSET Nat
        BY DEF Admitted
    <2>3. FirstBitlen(c) = Min(Admitted(c))
        BY DEF FirstBitlen, Admitted
    <2>4. FirstBitlen(c) \in Admitted(c) /\ \A b \in Admitted(c) : FirstBitlen(c) <= b
        BY <2>1, <2>2, <2>3, LeastOf
    <2> QED BY <2>1, <2>4 DEF Admitted
<1>2. ASSUME count > 0 PROVE FirstBitlen(count) \in 1 .. MaxBits
    <2> SUFFICES ASSUME \A b \in 1 .. MaxBits : b \notin Admitted(count) PROVE FALSE
        <3>1. \A b \in 1 .. MaxBits : b \in Admitted(count) => FirstBitlen(count) \in 1 .. MaxBits
            BY <1>1, Sizes
        <3> QED BY <3>1
    <2> DEFINE T == {n \in Nat : n + 1 <= MaxBits => Tried(n + 1)}
    <2>1. 0 \in T
        BY DEF Tried
    <2>2. ASSUME NEW n \in T PROVE n + 1 \in T
        <3>1. CASE (n + 1) + 1 <= MaxBits
            <4>1. Tried(n + 1) /\ n + 1 \in 1 .. MaxBits /\ n + 1 \in 1 .. Absent
                BY <3>1, Sizes
            <4>2. ~ (count >= LowBound(n + 1)) /\ LowBound(n + 1) \in Nat
                BY <4>1, LowBounds DEF Admitted
            <4>3. LowBound(((n + 1) + 1) - 1) > 1
                BY <1>2, <4>2
            <4> QED BY <4>3 DEF Tried
        <3>2. CASE ~ ((n + 1) + 1 <= MaxBits)
            BY <3>2
        <3> QED BY <3>1, <3>2
    <2>3. T = Nat
        <3>1. T \in SUBSET Nat
            OBVIOUS
        <3> HIDE DEF T
        <3> QED BY <2>1, <2>2, <3>1, Numbers
    <2>4. MaxBits - 1 \in Nat /\ (MaxBits - 1) + 1 = MaxBits
        BY Sizes
    <2>5. Tried(MaxBits)
        <3>1. MaxBits - 1 \in T
            BY <2>3, <2>4
        <3>2. Tried((MaxBits - 1) + 1)
            BY <2>4, <3>1, Sizes
        <3> QED BY <2>4, <3>2
    <2>6. MaxBits \in Admitted(count) /\ MaxBits \in 1 .. MaxBits
        BY <1>2, <2>5, LowBounds, Sizes DEF Admitted
    <2> QED BY <2>6
<1>3. ASSUME Boundary = 0 PROVE FirstBitlen(count) \in 1 .. MaxBits
    <2>1. 1 \in Admitted(count)
        BY <1>3, LowBounds, Sizes DEF Admitted, Tried
    <2> QED BY <1>1, <2>1, Sizes
<1>4. ASSUME Boundary >= 1, count = 0 PROVE FirstBitlen(count) = Absent
    <2>1. ASSUME NEW b \in 1 .. MaxBits, Tried(b) PROVE LowBound(b) >= 1
        <3>1. CASE b = 1
            BY <1>4, <3>1, LowBounds
        <3>2. CASE b # 1
            <4>1. b - 1 \in 1 .. MaxBits - 1 /\ b # Absent /\ (b - 1) + 1 = b
                BY <3>2, Sizes
            <4>2. LowBound(b - 1) > 1
                BY <2>1, <3>2, <4>1 DEF Tried
            <4> QED BY <4>1, <4>2, LowBounds
        <3> QED BY <3>1, <3>2
    <2>2. ASSUME NEW b \in 1 .. MaxBits, b \in Admitted(count) PROVE FALSE
        <3>1. Tried(b) /\ 0 >= LowBound(b)
            BY <1>4, <2>2 DEF Admitted
        <3>2. LowBound(b) >= 1 /\ LowBound(b) \in Nat
            BY <2>1, <3>1, LowBounds, Sizes
        <3> QED BY <3>1, <3>2
    <2> QED BY <1>1, <2>2, Sizes
<1>5. ASSUME NEW other \in Nat, other <= count PROVE FirstBitlen(count) <= FirstBitlen(other)
    <2>1. FirstBitlen(other) \in Admitted(other)
        BY <1>1
    <2>2. FirstBitlen(other) \in Admitted(count)
        BY <1>5, <2>1, LowBounds DEF Admitted
    <2> QED BY <1>1, <2>2
<1> QED BY <1>1, <1>2, <1>3, <1>4, <1>5

-----------------------------------------------------------------------------
(* The ranks *)

\* A count of 16 bits.
Small(x) == x \in Nat /\ x < 65536

LEMMA HighestBitFacts ==
    ASSUME NEW x \in Nat, x >= 1, Small(x)
    PROVE  /\ HighestBit(x) \in Nat /\ HighestBit(x) >= 1 /\ HighestBit(x) <= 16
           /\ \A b \in Nat : b >= 1 /\ b <= 16 /\ 2^(b - 1) <= x => b <= HighestBit(x)
           /\ 2^(HighestBit(x) - 1) <= x /\ x < 2^HighestBit(x)
<1>1. PICK S : S = {b \in 1 .. 16 : 2^(b - 1) <= x}
    OBVIOUS
<1>2. PICK h : h = HighestBit(x)
    OBVIOUS
<1>3. \A b \in Nat : b \in S <=> b >= 1 /\ b <= 16 /\ 2^(b - 1) <= x
    BY ONLY <1>1
<1>4. PICK n \in Nat : n = 16
    OBVIOUS
<1>5. S \in SUBSET (0 .. n)
    BY ONLY <1>1, <1>4
<1>6. 1 \in S
    <2>1. 1 \in {b \in 1 .. 16 : 2^(b - 1) <= x}
        BY SMT
    <2> QED BY <1>1, <2>1
<1>7. h \in S /\ \A b \in S : h >= b
    <2>1. h = Max(S)
        BY <1>1, <1>2 DEF HighestBit
    <2> QED BY <1>5, <1>6, <2>1, GreatestOf
<1>8. h \in Nat /\ h >= 1 /\ h <= 16 /\ 2^(h - 1) <= x
    <2>1. h \in Nat
        BY <1>4, <1>5, <1>7
    <2> QED BY <1>3, <1>7, <2>1
<1>9. x < 2^h
    <2>1. CASE h < 16
        <3>1. h + 1 \in Nat /\ (h + 1) - 1 = h /\ ~ (h >= h + 1) /\ 2^h \in Nat
            BY <1>8, PowerStep
        <3>2. h + 1 \notin S
            BY <1>7, <3>1
        <3>3. ~ (2^((h + 1) - 1) <= x)
            BY <1>3, <1>8, <2>1, <3>1, <3>2
        <3> QED BY <3>1, <3>3
    <2>2. CASE ~ (h < 16)
        <3>1. h = 16
            BY <1>8, <2>2
        <3>2. x < 2^16
            BY SMT DEF Small
        <3> QED BY <3>1, <3>2
    <2> QED BY <2>1, <2>2
<1> QED BY <1>2, <1>3, <1>7, <1>8, <1>9

\* Within a highest bit the next three bits make the rank.
LEMMA RankOf ==
    ASSUME NEW x \in Nat, x >= 8, Small(x)
    PROVE  \E k \in Nat, d \in Nat \ {0}, q \in Nat :
              /\ k >= 1 /\ q >= 8 /\ q <= 15
              /\ HighestBit(x) = k + 3 /\ d = 2^(k - 1)
              /\ q = x \div d /\ Rank(x) = 8 * k + q - 8
<1>1. PICK h \in Nat : h = HighestBit(x)
    BY HighestBitFacts
<1>2. 2^(h - 1) <= x /\ x < 2^h /\ h >= 4
    <2>1. 2^(h - 1) <= x /\ x < 2^h /\ h >= 1
        BY <1>1, HighestBitFacts
    <2>2. h # 1
        <3>1. ~ (x < 2^1)
            BY SMT
        <3> QED BY <2>1, <3>1
    <2>3. h # 2
        <3>1. ~ (x < 2^2)
            BY SMT
        <3> QED BY <2>1, <3>1
    <2>4. h # 3
        <3>1. ~ (x < 2^3)
            BY SMT
        <3> QED BY <2>1, <3>1
    <2> QED BY <2>1, <2>2, <2>3, <2>4
<1>3. PICK k \in Nat : k = h - 3 /\ k >= 1
    BY <1>1, <1>2
<1>4. PICK d : d = 2^(k - 1)
    OBVIOUS
<1>5. d \in Nat \ {0} /\ 2^(h - 1) = 8 * d /\ 2^h = 16 * d
    <2>1. k - 1 \in Nat /\ h - 1 = (((k - 1) + 1) + 1) + 1 /\ h = (h - 1) + 1 /\ h - 1 \in Nat
        BY <1>3
    <2>2. 2^((k - 1) + 1) = 2 * d /\ d \in Nat \ {0}
        BY <1>4, <2>1, PowerStep
    <2>3. 2^(((k - 1) + 1) + 1) = 2 * (2 * d)
        BY <2>1, <2>2, PowerStep
    <2>4. 2^((((k - 1) + 1) + 1) + 1) = 2 * (2 * (2 * d))
        BY <2>1, <2>3, PowerStep
    <2>5. 2^((h - 1) + 1) = 2 * 2^(h - 1)
        BY <2>1, PowerStep
    <2> QED BY <2>1, <2>2, <2>4, <2>5
<1>6. 8 * d <= x /\ x < 16 * d
    BY <1>2, <1>5
<1>7. PICK q : q = x \div d
    OBVIOUS
<1>8. q \in Nat /\ q >= 8 /\ q <= 15
    BY <1>5, <1>6, <1>7, SMT
<1>9. Rank(x) = 8 * k + q - 8
    <2>1. ~ (x < 8)
        OBVIOUS
    <2>2. Rank(x) = (h - 3) * 8 + (x \div 2^((h - 3) - 1)) - 8
        BY ONLY <1>1, <2>1, Zenon DEF Rank
    <2>3. Rank(x) = k * 8 + q - 8
        BY ONLY <1>3, <1>4, <1>7, <2>2, Zenon
    <2> QED BY ONLY <2>3, <1>8, k \in Nat
<1>10. HighestBit(x) = k + 3
    BY <1>1, <1>3
<1> QED BY <1>3, <1>4, <1>5, <1>7, <1>8, <1>9, <1>10

LEMMA RankMonotone ==
    ASSUME NEW x \in Nat, NEW y \in Nat, x <= y, Small(y)
    PROVE  Rank(x) \in Nat /\ Rank(y) \in Nat /\ Rank(x) <= Rank(y)
<1>1. \A z \in Nat : z < 8 => Rank(z) = z
    BY DEF Rank
<1>0. Small(x)
    BY DEF Small
<1>2. CASE y < 8
    BY <1>1, <1>2
<1>3. CASE x < 8 /\ y >= 8
    <2>1. PICK k \in Nat, q \in Nat : k >= 1 /\ q >= 8 /\ Rank(y) = 8 * k + q - 8
        BY <1>3, RankOf
    <2> QED BY <1>1, <1>3, <2>1
<1>4. CASE x >= 8
    <2>1. PICK k \in Nat, d \in Nat \ {0}, q \in Nat :
              /\ k >= 1 /\ q >= 8 /\ q <= 15
              /\ HighestBit(x) = k + 3 /\ d = 2^(k - 1)
              /\ q = x \div d /\ Rank(x) = 8 * k + q - 8
        BY <1>0, <1>4, RankOf
    <2>2. PICK l \in Nat, e \in Nat \ {0}, r \in Nat :
              /\ l >= 1 /\ r >= 8 /\ r <= 15
              /\ HighestBit(y) = l + 3 /\ e = 2^(l - 1)
              /\ r = y \div e /\ Rank(y) = 8 * l + r - 8
        BY <1>4, y >= 8, RankOf
    <2>3. k <= l
        <3>1. /\ 2^(HighestBit(x) - 1) <= x /\ HighestBit(x) \in Nat
              /\ HighestBit(x) >= 1 /\ HighestBit(x) <= 16
            BY <1>0, <1>4, HighestBitFacts
        <3>2. 2^(HighestBit(x) - 1) \in Nat
            <4>1. HighestBit(x) - 1 \in Nat
                BY <3>1
            <4> QED BY <4>1, PowerStep
        <3>3. 2^(HighestBit(x) - 1) <= y
            BY <3>1, <3>2
        <3>4. HighestBit(x) <= HighestBit(y)
            BY <1>4, <3>1, <3>3, HighestBitFacts
        <3> QED BY <2>1, <2>2, <3>4
    <2>4. CASE k = l
        <3>1. d = e
            BY <2>1, <2>2, <2>4
        <3>2. x \div d <= y \div d
            BY SMT
        <3> QED BY <2>1, <2>2, <2>4, <3>1, <3>2
    <2>5. CASE k < l
        BY <2>1, <2>2, <2>5
    <2> QED BY <2>3, <2>4, <2>5
<1> QED BY <1>2, <1>3, <1>4

-----------------------------------------------------------------------------
(* The sort *)

\* Where the entries of a rank begin and, when n symbols are placed, end.
Base(h, r) == Cardinality({s \in Symbols : Rank(h[s]) < r})
End(h, r, n) == Base(h, r) + Cardinality({s \in 0 .. n - 1 : Rank(h[s]) = r})

\* The order of the entries: by count, then by number.
Precedes(e, f) == e.hgram < f.hgram \/ (e.hgram = f.hgram /\ e.sym < f.sym)

\* The first n symbols are placed, those of each rank in their order.
Placed(h, t, n) ==
    /\ \A r \in Nat : \A i \in Base(h, r) .. End(h, r, n) - 1 :
          /\ t[i].sym \in 0 .. n - 1 /\ t[i].hgram = h[t[i].sym]
          /\ Rank(h[t[i].sym]) = r
    /\ \A r \in Nat : \A i, j \in Base(h, r) .. End(h, r, n) - 1 :
          i < j => Precedes(t[i], t[j])
    /\ \A s \in 0 .. n - 1 :
          \E i \in Base(h, Rank(h[s])) .. End(h, Rank(h[s]), n) - 1 : t[i].sym = s

\* Every symbol has its entry, the entries are in order.
InOrder(h, t) ==
    /\ \A i \in Symbols : t[i].sym \in Symbols /\ t[i].hgram = h[t[i].sym]
    /\ \A i, j \in Symbols : i < j => Precedes(t[i], t[j])
    /\ \A s \in Symbols : \E i \in Symbols : t[i].sym = s

Input(h) == \A s \in Symbols : Small(h[s])

LEMMA Ranks ==
    ASSUME NEW h, Input(h), NEW s \in Symbols
    PROVE  Rank(h[s]) \in Nat
<1>1. Small(h[s]) /\ h[s] \in Nat /\ h[s] <= h[s]
    BY DEF Input, Small
<1> QED BY <1>1, RankMonotone

LEMMA Bounds ==
    ASSUME NEW h, NEW n \in 0 .. NSym, NEW r \in Nat
    PROVE  /\ Base(h, r) \in Nat /\ End(h, r, n) \in Nat
           /\ Base(h, r) <= End(h, r, n) /\ End(h, r, n) <= NSym
<1> DEFINE A == {s \in Symbols : Rank(h[s]) < r}
           B == {s \in 0 .. n - 1 : Rank(h[s]) = r}
<1>1. A \in SUBSET Symbols /\ B \in SUBSET Symbols /\ A \cap B = {}
    <2>1. 0 .. n - 1 \subseteq Symbols
        BY Sizes
    <2>2. \A s \in A \cap B : FALSE
        OBVIOUS
    <2> QED BY <2>1, <2>2
<1> HIDE DEF A, B
<1>2. IsFiniteSet(A) /\ IsFiniteSet(B) /\ Cardinality(A) \in Nat /\ Cardinality(B) \in Nat
    BY <1>1, Sizes, FS_Subset, FS_CardinalityType
<1>3. Cardinality(A \cup B) = Cardinality(A) + Cardinality(B)
    BY <1>1, <1>2, DisjointUnion
<1>4. Cardinality(A \cup B) <= NSym
    <2>1. A \cup B \in SUBSET Symbols
        BY <1>1
    <2> QED BY <2>1, Sizes, FS_Subset
<1>5. Base(h, r) = Cardinality(A) /\ End(h, r, n) = Cardinality(A) + Cardinality(B)
    BY DEF Base, End, A, B
<1> QED BY <1>2, <1>3, <1>4, <1>5

LEMMA Separate ==
    ASSUME NEW h, Input(h), NEW n \in 0 .. NSym, NEW r \in Nat, NEW q \in Nat, r < q
    PROVE  End(h, r, n) <= Base(h, q)
<1> DEFINE A == {s \in Symbols : Rank(h[s]) < r}
           B == {s \in 0 .. n - 1 : Rank(h[s]) = r}
           C == {s \in Symbols : Rank(h[s]) < q}
<1>0. \A s \in Symbols : Rank(h[s]) \in Nat
    BY Ranks
<1>1. A \in SUBSET Symbols /\ B \in SUBSET Symbols /\ A \cap B = {}
    <2>1. 0 .. n - 1 \subseteq Symbols
        BY Sizes
    <2>2. \A s \in A \cap B : FALSE
        OBVIOUS
    <2> QED BY <2>1, <2>2
<1>2. A \cup B \in SUBSET C /\ C \in SUBSET Symbols
    BY <1>0, <1>1
<1> HIDE DEF A, B, C
<1>3. IsFiniteSet(A) /\ IsFiniteSet(B) /\ IsFiniteSet(C)
    BY <1>1, <1>2, Sizes, FS_Subset
<1>4. Cardinality(A) \in Nat /\ Cardinality(B) \in Nat /\ Cardinality(C) \in Nat
    BY <1>3, FS_CardinalityType
<1>5. Cardinality(A \cup B) = Cardinality(A) + Cardinality(B)
    BY <1>1, <1>3, DisjointUnion
<1>6. Cardinality(A \cup B) <= Cardinality(C)
    BY <1>2, <1>3, FS_Subset
<1>7. Base(h, q) = Cardinality(C) /\ End(h, r, n) = Cardinality(A) + Cardinality(B)
    BY DEF Base, End, A, B, C
<1> QED BY <1>4, <1>5, <1>6, <1>7

LEMMA EndStep ==
    ASSUME NEW h, NEW n \in 0 .. NSym - 1, NEW r \in Nat
    PROVE  End(h, r, n + 1) = IF Rank(h[n]) = r THEN End(h, r, n) + 1 ELSE End(h, r, n)
<1> DEFINE B == {s \in 0 .. n - 1 : Rank(h[s]) = r}
           C == {s \in 0 .. (n + 1) - 1 : Rank(h[s]) = r}
<1>1. n \in Nat /\ n \notin B
    BY Sizes
<1>2. C = IF Rank(h[n]) = r THEN B \cup {n} ELSE B
    <2>1. 0 .. (n + 1) - 1 = (0 .. n - 1) \cup {n}
        BY <1>1
    <2> QED BY <2>1
<1>3. IsFiniteSet(B)
    <2>1. IsFiniteSet(0 .. n - 1)
        BY <1>1, FS_Interval
    <2>2. B \in SUBSET (0 .. n - 1)
        OBVIOUS
    <2> HIDE DEF B
    <2> QED BY <2>1, <2>2, FS_Subset
<1>4. Cardinality(B) \in Nat /\ Cardinality(B \cup {n}) = Cardinality(B) + 1
    <2> HIDE DEF B
    <2> QED BY <1>1, <1>3, FS_CardinalityType, FS_AddElement
<1>5. Base(h, r) \in Nat
    <2>1. n \in 0 .. NSym
        BY Sizes
    <2> QED BY <2>1, Bounds
<1>6. End(h, r, n) = Base(h, r) + Cardinality(B) /\ End(h, r, n + 1) = Base(h, r) + Cardinality(C)
    BY DEF End
<1> HIDE DEF B, C
<1> QED BY <1>2, <1>4, <1>5, <1>6

\* The insertion of symbol n, as SortSym does it.
LEMMA Insertion ==
    ASSUME NEW h, Input(h), NEW n \in 0 .. NSym - 1, NEW t, Placed(h, t, n),
           NEW r, r = Rank(h[n]), NEW pos \in Base(h, r) .. End(h, r, n),
           \A q \in pos .. End(h, r, n) - 1 : h[n] < t[q].hgram,
           pos > Base(h, r) => h[n] >= t[pos - 1].hgram,
           NEW u, u[pos].hgram = h[n], u[pos].sym = n,
           \A i \in pos + 1 .. End(h, r, n) : u[i] = t[i - 1],
           \A i \in Symbols : i \notin pos .. End(h, r, n) => u[i] = t[i]
    PROVE  Placed(h, u, n + 1)
<1> DEFINE b(q) == Base(h, q)
           e(q) == End(h, q, n)
           f(q) == End(h, q, n + 1)
           Mine == {i \in Int : i >= b(r) /\ i < e(r)}
<1>1. n \in Symbols /\ n \in 0 .. NSym /\ n + 1 \in 0 .. NSym /\ n \in Nat
    BY Sizes
<1>2. r \in Nat /\ h[n] \in Nat
    BY <1>1, Ranks DEF Input, Small
<1>3. \A q \in Nat : /\ b(q) \in Nat /\ e(q) \in Nat /\ f(q) \in Nat
                     /\ b(q) <= e(q) /\ f(q) <= NSym
                     /\ f(q) = IF q = r THEN e(q) + 1 ELSE e(q)
    BY <1>1, Bounds, EndStep
<1>4. \A q \in Nat : (q < r => f(q) <= b(r)) /\ (r < q => f(r) <= b(q))
    BY <1>1, <1>2, Separate
<1> HIDE DEF b, e, f
<1>5. /\ pos \in Nat /\ b(r) <= pos /\ pos <= e(r) /\ f(r) = e(r) + 1
      /\ b(r) \in Nat /\ e(r) \in Nat /\ f(r) \in Nat
    BY <1>2, <1>3 DEF b, e
<1>6. \A q \in Nat : \A i \in b(q) .. e(q) - 1 :
         /\ t[i].sym \in 0 .. n - 1 /\ t[i].hgram = h[t[i].sym]
         /\ Rank(h[t[i].sym]) = q
    BY DEF Placed, b, e
<1>7. \A q \in Nat : \A i, j \in b(q) .. e(q) - 1 : i < j => Precedes(t[i], t[j])
    BY DEF Placed, b, e
<1>8. \A q \in Nat : q # r => \A i \in b(q) .. f(q) - 1 : u[i] = t[i] /\ i \in b(q) .. e(q) - 1
    <2> SUFFICES ASSUME NEW q \in Nat, q # r, NEW i \in b(q) .. f(q) - 1
                 PROVE  u[i] = t[i] /\ i \in b(q) .. e(q) - 1
        OBVIOUS
    <2>1. /\ f(q) = e(q) /\ i \in Int /\ b(q) <= i /\ i < f(q)
          /\ b(q) \in Nat /\ f(q) \in Nat /\ f(q) <= NSym
        BY <1>3
    <2>2. i \in Symbols
        BY <2>1, Sizes
    <2>3. i < b(r) \/ i > e(r)
        <3>1. q < r => f(q) <= b(r)
            BY <1>4
        <3>2. r < q => f(r) <= b(q)
            BY <1>4
        <3> QED BY <1>2, <1>5, <2>1, <3>1, <3>2
    <2>4. i \notin pos .. e(r)
        BY <1>5, <2>1, <2>3
    <2>5. u[i] = t[i]
        BY <2>2, <2>4 DEF e
    <2> QED BY <2>1, <2>5
<1>9. ASSUME NEW i \in b(r) .. f(r) - 1
      PROVE  \/ i < pos /\ i \in b(r) .. e(r) - 1 /\ u[i] = t[i]
             \/ i = pos /\ u[i].hgram = h[n] /\ u[i].sym = n
             \/ i > pos /\ i - 1 \in b(r) .. e(r) - 1 /\ i - 1 >= pos /\ u[i] = t[i - 1]
    <2>1. i \in Int /\ b(r) <= i /\ i <= e(r) /\ i \in Symbols
        BY <1>2, <1>3, <1>5, Sizes
    <2>2. CASE i < pos
        <3>1. i \notin pos .. e(r) /\ i \in b(r) .. e(r) - 1
            BY <1>5, <2>1, <2>2
        <3> QED BY <2>1, <2>2, <3>1 DEF e
    <2>3. CASE i = pos
        BY <2>3
    <2>4. CASE i > pos
        <3>1. i \in pos + 1 .. e(r) /\ i - 1 \in b(r) .. e(r) - 1 /\ i - 1 >= pos
            BY <1>2, <1>3, <1>5, <2>1, <2>4
        <3> QED BY <2>4, <3>1 DEF e
    <2> QED BY <1>5, <2>1, <2>2, <2>3, <2>4
<1>10. ASSUME NEW q \in Nat, NEW i \in b(q) .. f(q) - 1
       PROVE  /\ u[i].sym \in 0 .. (n + 1) - 1 /\ u[i].hgram = h[u[i].sym]
              /\ Rank(h[u[i].sym]) = q
    <2>1. CASE q # r
        <3>1. u[i] = t[i] /\ i \in b(q) .. e(q) - 1
            BY <1>8, <2>1
        <3>2. /\ t[i].sym \in 0 .. n - 1 /\ t[i].hgram = h[t[i].sym]
              /\ Rank(h[t[i].sym]) = q
            BY <1>6, <3>1
        <3> QED BY <1>1, <3>1, <3>2
    <2>2. CASE q = r
        <3>1. CASE i = pos
            <4>1. u[i].hgram = h[n] /\ u[i].sym = n
                BY <3>1
            <4> QED BY <1>1, <2>2, <4>1
        <3>2. CASE i # pos
            <4>1. \E j \in b(r) .. e(r) - 1 : u[i] = t[j]
                BY <1>9, <2>2, <3>2
            <4>2. PICK j \in b(r) .. e(r) - 1 : u[i] = t[j]
                BY <4>1
            <4>3. /\ t[j].sym \in 0 .. n - 1 /\ t[j].hgram = h[t[j].sym]
                  /\ Rank(h[t[j].sym]) = r
                BY <1>2, <1>6
            <4> QED BY <1>1, <2>2, <4>2, <4>3
        <3> QED BY <3>1, <3>2
    <2> QED BY <2>1, <2>2
<1>11. ASSUME NEW q \in Nat, NEW i \in b(q) .. f(q) - 1, NEW j \in b(q) .. f(q) - 1, i < j
       PROVE  Precedes(u[i], u[j])
    <2>1. CASE q # r
        BY <1>7, <1>8, <1>11, <2>1
    <2>2. CASE q = r
        <3>1. i \in b(r) .. f(r) - 1 /\ j \in b(r) .. f(r) - 1 /\ i \in Int /\ j \in Int
            BY <2>2
        <3>2. \A k, l \in b(r) .. e(r) - 1 : k < l => Precedes(t[k], t[l])
            BY <1>2, <1>7
        <3>3. \A k \in b(r) .. e(r) - 1 :
                 /\ t[k].sym \in 0 .. n - 1 /\ t[k].hgram = h[t[k].sym] /\ t[k].hgram \in Nat
            <4>1. \A s \in 0 .. n - 1 : h[s] \in Nat
                BY <1>1, Sizes DEF Input, Small
            <4> QED BY <1>2, <1>6, <4>1
        <3>4. CASE j < pos
            BY <1>5, <1>9, <1>11, <3>1, <3>2, <3>4
        <3>5. CASE j = pos
            <4>1. i < pos /\ i \in b(r) .. e(r) - 1 /\ u[i] = t[i]
                BY <1>5, <1>9, <1>11, <3>1, <3>5
            <4>2. pos - 1 \in b(r) .. e(r) - 1 /\ h[n] >= t[pos - 1].hgram
                BY <1>2, <1>3, <1>5, <3>1, <4>1 DEF b
            <4>3. t[i].hgram <= t[pos - 1].hgram
                <5>1. CASE i = pos - 1
                    BY <3>3, <4>2, <5>1
                <5>2. CASE i # pos - 1
                    <6>1. i < pos - 1
                        BY <1>5, <3>1, <4>1, <5>2
                    <6>2. Precedes(t[i], t[pos - 1])
                        BY <3>2, <4>1, <4>2, <6>1
                    <6> QED BY <3>3, <4>1, <4>2, <6>2 DEF Precedes
                <5> QED BY <5>1, <5>2
            <4>4. t[i].hgram \in Nat /\ t[pos - 1].hgram \in Nat /\ t[i].sym < n
                BY <1>1, <3>3, <4>1, <4>2
            <4>5. t[i].hgram <= h[n]
                BY <1>2, <4>2, <4>3, <4>4
            <4> QED BY <1>2, <3>5, <4>1, <4>4, <4>5 DEF Precedes
        <3>6. CASE j > pos
            <4>1. j - 1 \in b(r) .. e(r) - 1 /\ j - 1 >= pos /\ u[j] = t[j - 1]
                BY <1>5, <1>9, <3>1, <3>6
            <4>2. CASE i < pos
                <5>1. i \in b(r) .. e(r) - 1 /\ u[i] = t[i] /\ i < j - 1
                    BY <1>5, <1>9, <3>1, <3>6, <4>1, <4>2
                <5> QED BY <3>2, <4>1, <5>1
            <4>3. CASE i = pos
                <5>1. j - 1 \in pos .. e(r) - 1
                    BY <1>5, <4>1
                <5>2. h[n] < t[j - 1].hgram
                    BY <5>1 DEF e
                <5> QED BY <4>1, <4>3, <5>2 DEF Precedes
            <4>4. CASE i > pos
                <5>1. i - 1 \in b(r) .. e(r) - 1 /\ u[i] = t[i - 1] /\ i - 1 < j - 1
                    BY <1>5, <1>9, <1>11, <3>1, <4>4
                <5> QED BY <3>2, <4>1, <5>1
            <4> QED BY <1>5, <3>1, <4>2, <4>3, <4>4
        <3> QED BY <1>5, <3>1, <3>4, <3>5, <3>6
    <2> QED BY <2>1, <2>2
<1>12. ASSUME NEW s \in 0 .. (n + 1) - 1
       PROVE  \E i \in b(Rank(h[s])) .. f(Rank(h[s])) - 1 : u[i].sym = s
    <2>1. CASE s = n
        <3>1. pos \in b(r) .. f(r) - 1 /\ u[pos].sym = n
            BY <1>2, <1>3, <1>5
        <3> QED BY <2>1, <3>1
    <2>2. CASE s # n
        <3>1. s \in 0 .. n - 1 /\ s \in Symbols
            BY <1>1, <2>2, Sizes
        <3>2. PICK q \in Nat : q = Rank(h[s])
            BY <3>1, Ranks
        <3>3. PICK i \in b(q) .. e(q) - 1 : t[i].sym = s
            BY <3>1, <3>2 DEF Placed, b, e
        <3>4. i \in Int /\ b(q) <= i /\ i < e(q) /\ i \in Symbols
            <4>1. b(q) \in Nat /\ e(q) \in Nat /\ f(q) \in Nat /\ f(q) <= NSym
                BY <1>3
            <4>2. f(q) = e(q) + 1 \/ f(q) = e(q)
                BY <1>3
            <4> QED BY <4>1, <4>2, Sizes
        <3>5. CASE q # r
            <4>1. i \in b(q) .. f(q) - 1
                BY <1>3, <3>4, <3>5
            <4>2. u[i] = t[i]
                BY <1>8, <3>5, <4>1
            <4> QED BY <3>2, <3>3, <4>1, <4>2
        <3>6. CASE q = r /\ i < pos
            <4>1. i \in b(q) .. f(q) - 1 /\ i \notin pos .. e(r)
                BY <1>3, <1>5, <3>4, <3>6
            <4>2. u[i] = t[i]
                BY <3>4, <4>1 DEF e
            <4> QED BY <3>2, <3>3, <4>1, <4>2
        <3>7. CASE q = r /\ i >= pos
            <4>1. i + 1 \in b(q) .. f(q) - 1 /\ i + 1 \in pos + 1 .. e(r) /\ (i + 1) - 1 = i
                BY <1>3, <1>5, <3>4, <3>7
            <4>2. u[i + 1] = t[i]
                BY <4>1 DEF e
            <4> QED BY <3>2, <3>3, <4>1, <4>2
        <3> QED BY <1>5, <3>4, <3>5, <3>6, <3>7
    <2> QED BY <2>1, <2>2
<1>13. /\ \A q \in Nat : \A i \in b(q) .. f(q) - 1 :
             /\ u[i].sym \in 0 .. (n + 1) - 1 /\ u[i].hgram = h[u[i].sym]
             /\ Rank(h[u[i].sym]) = q
       /\ \A q \in Nat : \A i, j \in b(q) .. f(q) - 1 : i < j => Precedes(u[i], u[j])
       /\ \A s \in 0 .. (n + 1) - 1 :
             \E i \in b(Rank(h[s])) .. f(Rank(h[s])) - 1 : u[i].sym = s
    BY <1>10, <1>11, <1>12
<1> QED BY <1>13 DEF Placed, b, f

\* All ranks together are in order.
LEMMA AllPlaced ==
    ASSUME NEW h, Input(h), NEW t, Placed(h, t, NSym)
    PROVE  InOrder(h, t)
<1> DEFINE b(q) == Base(h, q)
           e(q) == End(h, q, NSym)
           g == [s \in Symbols |-> CHOOSE i \in b(Rank(h[s])) .. e(Rank(h[s])) - 1 : t[i].sym = s]
<1>1. NSym \in Nat /\ NSym \in 0 .. NSym /\ Symbols = 0 .. NSym - 1 /\ IsFiniteSet(Symbols)
    BY Sizes
<1>2. \A q \in Nat : b(q) \in Nat /\ e(q) \in Nat /\ b(q) <= e(q) /\ e(q) <= NSym
    BY <1>1, Bounds
<1>3. \A q, r \in Nat : q < r => e(q) <= b(r)
    BY <1>1, Separate
<1>4. \A q \in Nat : \A i \in b(q) .. e(q) - 1 :
         t[i].sym \in Symbols /\ t[i].hgram = h[t[i].sym] /\ Rank(h[t[i].sym]) = q
    BY <1>1 DEF Placed
<1>5. \A q \in Nat : \A i, j \in b(q) .. e(q) - 1 : i < j => Precedes(t[i], t[j])
    BY DEF Placed
<1>6. \A s \in Symbols : \E i \in b(Rank(h[s])) .. e(Rank(h[s])) - 1 : t[i].sym = s
    BY <1>1 DEF Placed
<1> HIDE DEF b, e
<1>7. \A s \in Symbols : g[s] \in b(Rank(h[s])) .. e(Rank(h[s])) - 1 /\ t[g[s]].sym = s
    BY <1>6
<1>8. \A s \in Symbols : g[s] \in Symbols
    <2> SUFFICES ASSUME NEW s \in Symbols PROVE g[s] \in Symbols
        OBVIOUS
    <2>1. PICK q \in Nat : q = Rank(h[s])
        BY Ranks
    <2>2. g[s] \in b(q) .. e(q) - 1
        BY <1>7, <2>1
    <2>3. b(q) \in Nat /\ e(q) \in Nat /\ e(q) <= NSym
        BY <1>2
    <2> HIDE DEF g
    <2> QED BY <1>1, <2>2, <2>3
<1>9. g \in Injection(Symbols, Symbols)
    <2>1. g \in [Symbols -> Symbols]
        BY <1>8
    <2>2. \A s, r \in Symbols : g[s] = g[r] => s = r
        BY <1>7
    <2> HIDE DEF g
    <2> QED BY <2>1, <2>2 DEF Injection, IsInjective
<1>10. g \in Surjection(Symbols, Symbols)
    <2> HIDE DEF g
    <2> QED BY <1>1, <1>9, FS_Injection
<1>11. ASSUME NEW i \in Symbols
       PROVE  \E q \in Nat : i \in b(q) .. e(q) - 1
    <2>1. PICK s \in Symbols : g[s] = i
        <3> HIDE DEF g
        <3> QED BY <1>10 DEF Surjection
    <2> QED BY <1>7, <2>1, Ranks
<1>12. ASSUME NEW i \in Symbols, NEW j \in Symbols, i < j
       PROVE  Precedes(t[i], t[j])
    <2>1. PICK q \in Nat : i \in b(q) .. e(q) - 1
        BY <1>11
    <2>2. PICK r \in Nat : j \in b(r) .. e(r) - 1
        BY <1>11
    <2>3. /\ b(q) \in Nat /\ e(q) \in Nat /\ b(r) \in Nat /\ e(r) \in Nat
          /\ i \in Int /\ b(q) <= i /\ i < e(q) /\ j \in Int /\ b(r) <= j /\ j < e(r)
        BY <1>2, <2>1, <2>2
    <2>4. CASE q = r
        BY <1>5, <1>12, <2>1, <2>2, <2>4
    <2>5. CASE r < q
        <3>1. e(r) <= b(q)
            BY <1>3, <2>5
        <3> QED BY <1>12, <2>3, <3>1
    <2>6. CASE q < r
        <3>1. PICK x : x = h[t[i].sym]
            OBVIOUS
        <3>2. PICK y : y = h[t[j].sym]
            OBVIOUS
        <3>3. t[i].hgram = x /\ Rank(x) = q /\ t[j].hgram = y /\ Rank(y) = r
            BY <1>4, <2>1, <2>2, <3>1, <3>2
        <3>4. Small(x) /\ Small(y) /\ x \in Nat /\ y \in Nat
            <4>1. t[i].sym \in Symbols /\ t[j].sym \in Symbols
                BY <1>4, <2>1, <2>2
            <4>2. Small(x) /\ Small(y)
                BY <3>1, <3>2, <4>1 DEF Input
            <4> QED BY <4>2 DEF Small
        <3>5. y <= x => Rank(y) <= Rank(x)
            BY <3>4, RankMonotone
        <3>6. x < y
            BY <2>6, <3>3, <3>4, <3>5
        <3> QED BY <3>3, <3>6 DEF Precedes
    <2> QED BY <2>4, <2>5, <2>6
<1>13. \A i \in Symbols : t[i].sym \in Symbols /\ t[i].hgram = h[t[i].sym]
    BY <1>4, <1>11
<1>14. \A s \in Symbols : \E i \in Symbols : t[i].sym = s
    BY <1>7, <1>8
<1> QED BY <1>12, <1>13, <1>14 DEF InOrder

-----------------------------------------------------------------------------
(* The extents *)

\* An initial part of a range, and its size.
LEMMA InitialPart ==
    ASSUME NEW D \in SUBSET Symbols, \A j \in D, i \in Symbols : i < j => i \in D
    PROVE  /\ Cardinality(D) \in 0 .. NSym
           /\ \A i \in Symbols : i \in D <=> i < Cardinality(D)
<1>1. NSym \in Nat /\ Symbols = 0 .. NSym - 1 /\ NSym \notin D
    BY Sizes
<1>2. PICK c \in Nat \ D : \A y \in Nat \ D : c <= y
    <2>1. Nat \ D \in SUBSET Nat /\ NSym \in Nat \ D
        BY <1>1
    <2> QED BY <2>1, LeastNumber
<1>3. c <= NSym
    BY <1>1, <1>2
<1>4. \A i \in Symbols : i \in D <=> i < c
    <2>1. ASSUME NEW i \in D PROVE i < c
        <3>1. i \in Nat /\ i # c /\ (c \in Symbols \/ c = NSym)
            BY <1>1, <1>2, <1>3
        <3>2. CASE c < i
            <4>1. c \in Symbols
                BY <1>1, <3>1, <3>2
            <4> QED BY <1>2, <3>2, <4>1
        <3> QED BY <1>1, <3>1, <3>2
    <2>2. ASSUME NEW i \in Symbols, i < c PROVE i \in D
        <3>1. i \in Nat /\ ~ (c <= i)
            BY <1>1, <2>2
        <3> QED BY <1>2, <3>1
    <2> QED BY <2>1, <2>2
<1>5. D = 0 .. c - 1
    <2>1. \A i \in D : i \in 0 .. c - 1
        BY <1>1, <1>4
    <2>2. \A i \in 0 .. c - 1 : i \in Symbols /\ i < c
        BY <1>1, <1>3
    <2> QED BY <1>4, <2>1, <2>2
<1>6. Cardinality(D) = c
    BY <1>5, FS_Interval
<1> QED BY <1>1, <1>3, <1>4, <1>6

Entries == [hgram : Counts \union {0}, bitlen : Lengths, sym : Symbols]
Extents == [ofs : 0 .. NSym, len : 0 .. NSym]

\* Extent x[b] covers the entries of length b; lengths never grow along t.
Covered(t, x) ==
    /\ \A b \in Lengths :
          {i \in Symbols : t[i].bitlen = b} = x[b].ofs .. x[b].ofs + x[b].len - 1
    /\ \A i, j \in Symbols : i < j => t[i].bitlen >= t[j].bitlen

LEMMA ExtentsCover ==
    ASSUME NEW t \in [Symbols -> Entries],
           \A i, j \in Symbols : i < j => t[i].bitlen >= t[j].bitlen
    PROVE  ExtentsOf(t) \in [Lengths -> Extents] /\ Covered(t, ExtentsOf(t))
<1>1. \A i \in Symbols : t[i].bitlen \in 0 .. Absent /\ t[i].bitlen \in Int
    BY Sizes DEF Entries, Lengths
<1>2. ASSUME NEW b \in Int
      PROVE  LET D == {i \in Symbols : t[i].bitlen > b}
             IN  /\ Cardinality(D) \in 0 .. NSym
                 /\ \A i \in Symbols : t[i].bitlen > b <=> i < Cardinality(D)
    <2> DEFINE D == {i \in Symbols : t[i].bitlen > b}
    <2>1. D \in SUBSET Symbols /\ \A i \in Symbols : i \in D <=> t[i].bitlen > b
        OBVIOUS
    <2>2. \A j \in D, i \in Symbols : i < j => i \in D
        BY <1>1
    <2> HIDE DEF D
    <2>3. /\ Cardinality(D) \in 0 .. NSym
          /\ \A i \in Symbols : i \in D <=> i < Cardinality(D)
        BY <2>1, <2>2, InitialPart
    <2> QED BY <2>1, <2>3 DEF D
<1>3. ASSUME NEW b \in Lengths
      PROVE  LET x == ExtentsOf(t)[b]
             IN  /\ x \in Extents
                 /\ {i \in Symbols : t[i].bitlen = b} = x.ofs .. x.ofs + x.len - 1
    <2> DEFINE D == {i \in Symbols : t[i].bitlen > b}
               E == {i \in Symbols : t[i].bitlen > b - 1}
               S == {i \in Symbols : t[i].bitlen = b}
               c == Cardinality(D)
               d == Cardinality(E)
    <2>1. b \in Int /\ b - 1 \in Int
        BY Sizes DEF Lengths
    <2>2. c \in 0 .. NSym /\ \A i \in Symbols : t[i].bitlen > b <=> i < c
        BY <1>2, <2>1
    <2>3. d \in 0 .. NSym /\ \A i \in Symbols : t[i].bitlen > b - 1 <=> i < d
        BY <1>2, <2>1
    <2> HIDE DEF c, d
    <2>4. \A i \in Symbols : t[i].bitlen = b <=> i >= c /\ i < d
        <3>1. \A i \in Symbols : i \in Int
            BY Sizes
        <3> QED BY <1>1, <2>1, <2>2, <2>3, <3>1
    <2>5. c <= d /\ NSym \in Nat
        <3>1. ASSUME d < c PROVE FALSE
            <4>1. d \in Symbols
                BY <2>2, <2>3, <3>1, Sizes
            <4>2. t[d].bitlen > b /\ ~ (t[d].bitlen > b - 1)
                BY <2>2, <2>3, <3>1, <4>1
            <4> QED BY <1>1, <2>1, <4>1, <4>2
        <3> QED BY <2>2, <2>3, <3>1, Sizes
    <2>6. S = c .. d - 1
        <3>1. \A i \in c .. d - 1 : i \in Symbols /\ i >= c /\ i < d
            BY <2>2, <2>3, Sizes
        <3>2. \A i \in S : i \in c .. d - 1
            BY <2>2, <2>3, <2>4, Sizes
        <3> QED BY <2>4, <3>1, <3>2
    <2>7. Cardinality(S) = d - c
        <3>1. c \in Int /\ d - 1 \in Int
            BY <2>2, <2>3
        <3>2. Cardinality(c .. d - 1) = IF c > d - 1 THEN 0 ELSE (d - 1) - c + 1
            BY <3>1, FS_Interval
        <3>3. Cardinality(c .. d - 1) = d - c
            BY <2>2, <2>3, <2>5, <3>2
        <3> QED BY ONLY <2>6, <3>3, Zenon
    <2>8. ExtentsOf(t)[b] = [ofs |-> c, len |-> Cardinality(S)]
        BY DEF ExtentsOf, c
    <2> HIDE DEF S
    <2>9. ExtentsOf(t)[b].ofs = c /\ ExtentsOf(t)[b].len = d - c /\ c + (d - c) - 1 = d - 1
        BY <2>2, <2>3, <2>7, <2>8
    <2>10. ExtentsOf(t)[b] \in Extents
        <3>1. d - c \in 0 .. NSym
            BY <2>2, <2>3, <2>5
        <3> QED BY <2>2, <2>7, <2>8, <3>1 DEF Extents
    <2> QED BY <2>6, <2>9, <2>10 DEF S
<1>4. ExtentsOf(t) \in [Lengths -> Extents]
    <2>1. ExtentsOf(t) = [b \in Lengths |-> ExtentsOf(t)[b]]
        BY DEF ExtentsOf
    <2> QED BY <1>3, <2>1
<1> QED BY <1>3, <1>4 DEF Covered

\* Only entry i of u differs from t, in its length.
Relengthened(t, u, i, length) ==
    /\ u \in [Symbols -> Entries]
    /\ i \in Symbols /\ u[i].bitlen = length
    /\ \A j \in Symbols : j # i => u[j] = t[j]
    /\ \A j \in Symbols : u[j].hgram = t[j].hgram /\ u[j].sym = t[j].sym

LEMMA RelengthenedBy ==
    ASSUME NEW t \in [Symbols -> Entries], NEW i \in Symbols, NEW length \in Lengths,
           NEW u, u = [t EXCEPT ![i].bitlen = length]
    PROVE  Relengthened(t, u, i, length)
<1>1. /\ t[i] \in [hgram : Counts \union {0}, bitlen : Lengths, sym : Symbols]
      /\ u[i] = [t[i] EXCEPT !.bitlen = length]
      /\ DOMAIN u = Symbols /\ u = [j \in Symbols |-> u[j]]
      /\ \A j \in Symbols : j # i => u[j] = t[j]
    BY DEF Entries
<1>2. PICK e : e = t[i]
    OBVIOUS
<1>3. PICK f : f = [e EXCEPT !.bitlen = length]
    OBVIOUS
<1>4. e \in Entries
    BY <1>2
<1>5. /\ f \in Entries /\ f.bitlen = length /\ f.hgram = e.hgram /\ f.sym = e.sym
    BY <1>3, <1>4 DEF Entries
<1>6. u[i] = f
    BY <1>1, <1>2, <1>3
<1>7. \A j \in Symbols : u[j] \in Entries /\ u[j].hgram = t[j].hgram /\ u[j].sym = t[j].sym
    BY <1>1, <1>2, <1>5, <1>6
<1>8. u \in [Symbols -> Entries]
    BY <1>1, <1>7
<1> QED BY <1>1, <1>5, <1>6, <1>7, <1>8 DEF Relengthened

\* The extents of two lengths meet; lengths are L, a sequence that never grows.
Falling(L) == \A i, j \in Symbols : L[i] \in Int /\ (i < j => L[i] >= L[j])
Within(L, b, o, l) == o + l <= NSym /\ \A i \in Symbols : L[i] = b <=> i >= o /\ i < o + l

LEMMA Meet ==
    ASSUME NEW L, Falling(L), NEW b \in Int,
           NEW o \in Nat, NEW k \in Nat, NEW f \in Nat, NEW l \in Nat,
           Within(L, b + 1, o, k), Within(L, b, f, l), k > 0, l > 0
    PROVE  o + k = f
<1>1. NSym \in Nat /\ Symbols = 0 .. NSym - 1
    BY Sizes
<1>2. o + k <= NSym /\ f + l <= NSym
    BY DEF Within
<1>3. /\ \A i \in Symbols : L[i] = b + 1 <=> i >= o /\ i < o + k
      /\ \A i \in Symbols : L[i] = b <=> i >= f /\ i < f + l
    BY DEF Within
<1>4. \A i, j \in Symbols : L[i] \in Int /\ (i < j => L[i] >= L[j])
    BY DEF Falling
<1>5. /\ o + k - 1 \in Symbols /\ f \in Symbols
      /\ L[o + k - 1] = b + 1 /\ L[f] = b
    BY <1>1, <1>2, <1>3
<1>6. o + k - 1 < f
    <2>1. ~ (f < o + k - 1) /\ f # o + k - 1
        BY <1>4, <1>5
    <2> QED BY <2>1
<1>7. ASSUME o + k < f PROVE FALSE
    <2>1. o + k \in Symbols
        BY <1>1, <1>2, <1>7
    <2>2. L[o + k] # b + 1 /\ L[o + k] # b
        BY <1>3, <1>7, <2>1
    <2>3. L[o + k] <= b + 1
        <3>1. o + k - 1 < o + k
            OBVIOUS
        <3> QED BY <1>4, <1>5, <2>1, <3>1
    <2>4. L[o + k] >= b
        BY <1>4, <1>5, <1>7, <2>1
    <2> QED BY <1>4, <2>1, <2>2, <2>3, <2>4
<1> QED BY <1>6, <1>7

\* The foremost entry of one extent may go to the end of the next one, the
\* hindmost entry of that to the beginning of the first: M are the lengths
\* afterwards.
Changed(L, M, f, b) == \A i \in Symbols : M[i] = IF i = f THEN b ELSE L[i]

Adjacent(L, b, o, k, f, l) ==
    /\ b \in Int /\ o \in Nat /\ k \in Nat /\ f \in Nat /\ l \in Nat
    /\ Falling(L) /\ Within(L, b + 1, o, k) /\ Within(L, b, f, l)

Else(L, M, b) ==
    \A c \in Int : c # b /\ c # b + 1 => \A i \in Symbols : M[i] = c <=> L[i] = c

MovedOn(L, M, b, o, k, f, l) ==
    /\ f \in Symbols /\ L[f] = b /\ Falling(M)
    /\ Within(M, b, f + 1, l - 1)
    /\ k > 0 => Within(M, b + 1, o, k + 1)
    /\ k = 0 => Within(M, b + 1, f, 1)
    /\ Else(L, M, b)

LEMMA MoveOn ==
    ASSUME NEW L, NEW b, NEW o, NEW k, NEW f, NEW l, Adjacent(L, b, o, k, f, l), l > 0,
           NEW M, Changed(L, M, f, b + 1)
    PROVE  MovedOn(L, M, b, o, k, f, l)
<1>0. /\ b \in Int /\ o \in Nat /\ k \in Nat /\ f \in Nat /\ l \in Nat
      /\ Falling(L) /\ Within(L, b + 1, o, k) /\ Within(L, b, f, l)
    BY DEF Adjacent
<1>1. NSym \in Nat /\ Symbols = 0 .. NSym - 1
    BY Sizes
<1>2. o + k <= NSym /\ f + l <= NSym
    BY <1>0 DEF Within
<1>3. /\ \A i \in Symbols : L[i] = b + 1 <=> i >= o /\ i < o + k
      /\ \A i \in Symbols : L[i] = b <=> i >= f /\ i < f + l
    BY <1>0 DEF Within
<1>4. \A i, j \in Symbols : L[i] \in Int /\ (i < j => L[i] >= L[j])
    BY <1>0 DEF Falling
<1>5. \A i \in Symbols : M[i] = IF i = f THEN b + 1 ELSE L[i]
    BY <1>0 DEF Changed
<1>6. f \in Symbols /\ L[f] = b
    BY <1>0, <1>1, <1>2, <1>3
<1>7. k > 0 => o + k = f
    BY <1>0, Meet
<1>8. \A i \in Symbols : M[i] = b <=> i >= f + 1 /\ i < (f + 1) + (l - 1)
    BY <1>0, <1>1, <1>3, <1>5
<1>9. k > 0 => \A i \in Symbols : M[i] = b + 1 <=> i >= o /\ i < o + (k + 1)
    BY <1>0, <1>1, <1>3, <1>5, <1>6, <1>7
<1>10. k = 0 => \A i \in Symbols : M[i] = b + 1 <=> i >= f /\ i < f + 1
    BY <1>0, <1>1, <1>3, <1>5, <1>6
<1>11. \A c \in Int : c # b /\ c # b + 1 => \A i \in Symbols : M[i] = c <=> L[i] = c
    BY <1>0, <1>5, <1>6
<1>12. ASSUME NEW i \in Symbols, NEW j \in Symbols, i < j PROVE M[i] >= M[j]
    <2>1. CASE i = f
        BY <1>0, <1>4, <1>5, <1>6, <1>12, <2>1
    <2>2. CASE j = f
        <3>1. L[i] >= b /\ L[i] # b
            BY <1>0, <1>1, <1>3, <1>4, <1>6, <1>12, <2>2
        <3> QED BY <1>0, <1>4, <1>5, <1>12, <2>2, <3>1
    <2>3. CASE i # f /\ j # f
        BY <1>0, <1>4, <1>5, <1>12, <2>3
    <2> QED BY <2>1, <2>2, <2>3
<1>13. Falling(M)
    <2>1. \A i \in Symbols : M[i] \in Int
        BY <1>0, <1>4, <1>5
    <2> QED BY <1>0, <1>12, <2>1 DEF Falling
<1>14. Within(M, b, f + 1, l - 1)
    BY <1>0, <1>2, <1>8 DEF Within
<1>15. k > 0 => Within(M, b + 1, o, k + 1)
    BY <1>0, <1>1, <1>2, <1>7, <1>9 DEF Within
<1>16. k = 0 => Within(M, b + 1, f, 1)
    BY <1>0, <1>1, <1>2, <1>10 DEF Within
<1> QED BY <1>6, <1>11, <1>13, <1>14, <1>15, <1>16 DEF MovedOn, Else

MovedBack(L, M, b, o, k, f, l, h) ==
    /\ h \in Symbols /\ L[h] = b + 1 /\ Falling(M)
    /\ Within(M, b + 1, o, k - 1)
    /\ l > 0 => f >= 1 /\ Within(M, b, f - 1, l + 1)
    /\ l = 0 => Within(M, b, h, 1)
    /\ Else(L, M, b)

LEMMA MoveBack ==
    ASSUME NEW L, NEW b, NEW o, NEW k, NEW f, NEW l, Adjacent(L, b, o, k, f, l), k > 0,
           NEW h, h = o + k - 1, NEW M, Changed(L, M, h, b)
    PROVE  MovedBack(L, M, b, o, k, f, l, h)
<1>a. /\ b \in Int /\ o \in Nat /\ k \in Nat /\ f \in Nat /\ l \in Nat
       /\ Falling(L) /\ Within(L, b + 1, o, k) /\ Within(L, b, f, l)
    BY DEF Adjacent
<1>1. NSym \in Nat /\ Symbols = 0 .. NSym - 1
    BY Sizes
<1>2. o + k <= NSym /\ f + l <= NSym
    BY <1>a DEF Within
<1>3. /\ \A i \in Symbols : L[i] = b + 1 <=> i >= o /\ i < o + k
      /\ \A i \in Symbols : L[i] = b <=> i >= f /\ i < f + l
    BY <1>a DEF Within
<1>4. \A i, j \in Symbols : L[i] \in Int /\ (i < j => L[i] >= L[j])
    BY <1>a DEF Falling
<1>0. h \in Nat /\ h = o + k - 1
    BY <1>a
<1>5. \A i \in Symbols : M[i] = IF i = h THEN b ELSE L[i]
    BY <1>a DEF Changed
<1>6. h \in Symbols /\ L[h] = b + 1 /\ h + 1 = o + k
    BY <1>a, <1>0, <1>1, <1>2, <1>3
<1>7. l > 0 => h + 1 = f
    BY <1>a, <1>0, <1>6, Meet
<1>8. \A i \in Symbols : M[i] = b + 1 <=> i >= o /\ i < o + (k - 1)
    BY <1>a, <1>0, <1>1, <1>3, <1>5, <1>6
<1>9. l > 0 => \A i \in Symbols : M[i] = b <=> i >= f - 1 /\ i < (f - 1) + (l + 1)
    BY <1>a, <1>0, <1>1, <1>3, <1>5, <1>6, <1>7
<1>10. l = 0 => \A i \in Symbols : M[i] = b <=> i >= h /\ i < h + 1
    BY <1>a, <1>0, <1>1, <1>3, <1>5, <1>6
<1>11. \A c \in Int : c # b /\ c # b + 1 => \A i \in Symbols : M[i] = c <=> L[i] = c
    BY <1>a, <1>0, <1>5, <1>6
<1>12. ASSUME NEW i \in Symbols, NEW j \in Symbols, i < j PROVE M[i] >= M[j]
    <2>1. CASE j = h
        BY <1>a, <1>0, <1>4, <1>5, <1>6, <1>12, <2>1
    <2>2. CASE i = h
        <3>1. L[j] <= b + 1 /\ L[j] # b + 1
            BY <1>a, <1>0, <1>1, <1>3, <1>4, <1>6, <1>12, <2>2
        <3> QED BY <1>a, <1>0, <1>4, <1>5, <1>12, <2>2, <3>1
    <2>3. CASE i # h /\ j # h
        BY <1>a, <1>0, <1>4, <1>5, <1>12, <2>3
    <2> QED BY <2>1, <2>2, <2>3
<1>13. Falling(M)
    <2>1. \A i \in Symbols : M[i] \in Int
        BY <1>a, <1>0, <1>4, <1>5
    <2> QED BY <1>a, <1>0, <1>12, <2>1 DEF Falling
<1>14. Within(M, b + 1, o, k - 1)
    BY <1>a, <1>0, <1>1, <1>2, <1>8 DEF Within
<1>15. l > 0 => f >= 1 /\ Within(M, b, f - 1, l + 1)
    <2>1. l > 0 => f >= 1
        BY <1>a, <1>0, <1>7
    <2>2. (f - 1) + (l + 1) <= NSym
        BY <1>a, <1>0, <1>1, <1>2
    <2> QED BY <1>a, <1>0, <1>1, <1>9, <2>1, <2>2 DEF Within
<1>16. l = 0 => Within(M, b, h, 1)
    <2>1. h + 1 <= NSym
        BY <1>a, <1>0, <1>1, <1>2, <1>6
    <2> QED BY <1>a, <1>0, <1>10, <2>1 DEF Within
<1> QED BY <1>6, <1>11, <1>13, <1>14, <1>15, <1>16 DEF MovedBack, Else

\* The lengths, and extents that cover them.
Lens(t) == [i \in Symbols |-> t[i].bitlen]
Cover(L, x) == Falling(L) /\ \A c \in Lengths : Within(L, c, x[c].ofs, x[c].len)

LEMMA CoveredIsCover ==
    ASSUME NEW t \in [Symbols -> Entries], NEW x \in [Lengths -> Extents]
    PROVE  Covered(t, x) <=> Cover(Lens(t), x)
<1>1. NSym \in Nat /\ Symbols = 0 .. NSym - 1
    BY Sizes
<1>2. \A i \in Symbols : Lens(t)[i] = t[i].bitlen /\ t[i].bitlen \in Int
    BY Sizes DEF Lens, Entries, Lengths
<1>3. Falling(Lens(t)) <=> \A i, j \in Symbols : i < j => t[i].bitlen >= t[j].bitlen
    BY <1>2 DEF Falling
<1>4. ASSUME NEW c \in Lengths
      PROVE  Within(Lens(t), c, x[c].ofs, x[c].len) <=>
             {i \in Symbols : t[i].bitlen = c} = x[c].ofs .. x[c].ofs + x[c].len - 1
    <2>1. PICK o, l : o = x[c].ofs /\ l = x[c].len
        OBVIOUS
    <2>2. o \in 0 .. NSym /\ l \in 0 .. NSym
        <3>1. x[c] \in Extents
            OBVIOUS
        <3> QED BY <2>1, <3>1 DEF Extents
    <2>3. PICK S : S = {i \in Symbols : t[i].bitlen = c}
        OBVIOUS
    <2>4. \A i \in Symbols : i \in S <=> Lens(t)[i] = c
        BY <1>2, <2>3
    <2>5. S \subseteq Symbols
        BY <2>3
    <2>6. ASSUME S = o .. o + l - 1 PROVE Within(Lens(t), c, o, l)
        <3>1. l > 0 => o + l - 1 \in S
            BY <2>2, <2>6
        <3>2. o + l <= NSym
            BY <1>1, <2>2, <2>5, <3>1
        <3>3. \A i \in Symbols : Lens(t)[i] = c <=> i >= o /\ i < o + l
            <4>1. \A i \in Symbols : i \in S <=> i >= o /\ i < o + l
                BY <1>1, <2>2, <2>6
            <4> QED BY <2>4, <4>1
        <3> QED BY <3>2, <3>3 DEF Within
    <2>7. ASSUME Within(Lens(t), c, o, l) PROVE S = o .. o + l - 1
        <3>1. o + l <= NSym /\ \A i \in Symbols : i \in S <=> i >= o /\ i < o + l
            BY <2>4, <2>7 DEF Within
        <3>2. \A i \in o .. o + l - 1 : i \in S
            BY <1>1, <2>2, <3>1
        <3>3. \A i \in S : i \in o .. o + l - 1
            BY <1>1, <2>2, <2>5, <3>1
        <3> QED BY <3>2, <3>3
    <2> QED BY <2>1, <2>3, <2>6, <2>7
<1> QED BY <1>3, <1>4 DEF Covered, Cover

LEMMA Parts ==
    ASSUME NEW x \in [Lengths -> Extents], NEW b \in Lengths
    PROVE  /\ x[b].ofs \in Nat /\ x[b].len \in Nat
           /\ x[b] = [ofs |-> x[b].ofs, len |-> x[b].len]
<1>1. x[b] \in [ofs : 0 .. NSym, len : 0 .. NSym] /\ NSym \in Nat
    BY Sizes DEF Extents
<1> QED BY <1>1

\* An extent that covers is within bounds.
LEMMA Extent ==
    ASSUME NEW L, NEW c, NEW o \in Nat, NEW l \in Nat, Within(L, c, o, l)
    PROVE  [ofs |-> o, len |-> l] \in Extents
<1>1. o \in 0 .. NSym /\ l \in 0 .. NSym
    BY Sizes DEF Within
<1> QED BY <1>1 DEF Extents

\* The foremost entry of an extent becomes the last of the next.
LEMMA Lengthened ==
    ASSUME NEW x \in [Lengths -> Extents], NEW L, Cover(L, x),
           NEW b \in 0 .. MaxBits, x[b].len > 0,
           NEW M, Changed(L, M, x[b].ofs, b + 1),
           NEW y, y = [x EXCEPT ![b] = [ofs |-> @.ofs + 1, len |-> @.len - 1],
                                ![b + 1] = AddLast(@, x[b].ofs)]
    PROVE  /\ x[b].ofs \in Symbols /\ L[x[b].ofs] = b
           /\ y \in [Lengths -> Extents] /\ Cover(M, y)
<1>1. b \in Lengths /\ b + 1 \in Lengths /\ b \in Int /\ b # b + 1
    BY Sizes DEF Lengths
<1>2. PICK f, l, o, k : /\ f = x[b].ofs /\ l = x[b].len /\ o = x[b + 1].ofs /\ k = x[b + 1].len
                        /\ f \in Nat /\ l \in Nat /\ o \in Nat /\ k \in Nat /\ l > 0
    BY <1>1, Parts
<1>3. Adjacent(L, b, o, k, f, l) /\ Changed(L, M, f, b + 1)
    BY <1>1, <1>2 DEF Cover, Adjacent
<1>4. /\ f \in Symbols /\ L[f] = b /\ Falling(M)
      /\ Within(M, b, f + 1, l - 1)
      /\ k > 0 => Within(M, b + 1, o, k + 1)
      /\ k = 0 => Within(M, b + 1, f, 1)
      /\ Else(L, M, b)
    <2>1. MovedOn(L, M, b, o, k, f, l)
        BY <1>2, <1>3, MoveOn
    <2> QED BY <2>1 DEF MovedOn
<1>5. /\ y[b] = [ofs |-> f + 1, len |-> l - 1]
      /\ y[b + 1] = AddLast(x[b + 1], f)
      /\ \A c \in Lengths : c # b /\ c # b + 1 => y[c] = x[c]
      /\ DOMAIN y = Lengths /\ y = [c \in Lengths |-> y[c]]
    BY <1>1, <1>2
<1>6. y[b + 1] = IF k > 0 THEN [ofs |-> o, len |-> k + 1] ELSE [ofs |-> f, len |-> 1]
    <2>1. x[b + 1] = [ofs |-> o, len |-> k]
        BY <1>1, <1>2, Parts
    <2> QED BY <1>5, <2>1 DEF AddLast
<1>7. ASSUME NEW c \in Lengths
      PROVE  y[c] \in Extents /\ Within(M, c, y[c].ofs, y[c].len)
    <2>1. CASE c = b
        <3>1. f + 1 \in Nat /\ l - 1 \in Nat
            BY <1>2
        <3> QED BY ONLY <1>4, <1>5, <2>1, <3>1, Extent
    <2>2. CASE c = b + 1 /\ k > 0
        <3>1. k + 1 \in Nat
            BY <1>2
        <3> QED BY ONLY <1>2, <1>4, <1>6, <2>2, <3>1, Extent
    <2>3. CASE c = b + 1 /\ k = 0
        <3>1. ~ (k > 0) /\ 1 \in Nat
            BY <2>3
        <3> QED BY ONLY <1>2, <1>4, <1>6, <2>3, <3>1, Extent
    <2>4. CASE c # b /\ c # b + 1
        <3>1. c \in Int
            BY Sizes DEF Lengths
        <3>2. Within(L, c, x[c].ofs, x[c].len)
            BY DEF Cover
        <3> QED BY <1>4, <1>5, <2>4, <3>1, <3>2 DEF Within, Else
    <2>5. k > 0 \/ k = 0
        BY <1>2
    <2> QED BY <2>1, <2>2, <2>3, <2>4, <2>5
<1> QED BY <1>2, <1>4, <1>5, <1>7 DEF Cover

\* The hindmost entry of an extent becomes the first of the one before.
HindmostMoved(x, b, h, y) == y = [x EXCEPT ![b + 1].len = @ - 1, ![b] = AddFirst(@, h)]

LEMMA Shortened ==
    ASSUME NEW x \in [Lengths -> Extents], NEW L, Cover(L, x),
           NEW b \in 0 .. MaxBits, x[b + 1].len > 0,
           NEW h, h = x[b + 1].ofs + x[b + 1].len - 1,
           NEW M, Changed(L, M, h, b),
           NEW y, HindmostMoved(x, b, h, y)
    PROVE  /\ h \in Symbols /\ L[h] = b + 1
           /\ y \in [Lengths -> Extents] /\ Cover(M, y)
<1>1. b \in Lengths /\ b + 1 \in Lengths /\ b \in Int /\ b # b + 1
    BY Sizes DEF Lengths
<1>2. PICK f, l, o, k : /\ f = x[b].ofs /\ l = x[b].len /\ o = x[b + 1].ofs /\ k = x[b + 1].len
                        /\ f \in Nat /\ l \in Nat /\ o \in Nat /\ k \in Nat /\ k > 0
    BY <1>1, Parts
<1>3. Adjacent(L, b, o, k, f, l) /\ h = o + k - 1
    BY <1>1, <1>2 DEF Cover, Adjacent
<1>4. /\ h \in Symbols /\ L[h] = b + 1 /\ Falling(M)
      /\ Within(M, b + 1, o, k - 1)
      /\ l > 0 => f >= 1 /\ Within(M, b, f - 1, l + 1)
      /\ l = 0 => Within(M, b, h, 1)
      /\ Else(L, M, b)
    <2>1. MovedBack(L, M, b, o, k, f, l, h)
        BY <1>2, <1>3, MoveBack
    <2> QED BY <2>1 DEF MovedBack
<1>5. /\ y[b + 1] = [x[b + 1] EXCEPT !.len = @ - 1]
      /\ y[b] = AddFirst(x[b], h)
      /\ \A c \in Lengths : c # b /\ c # b + 1 => y[c] = x[c]
      /\ DOMAIN y = Lengths /\ y = [c \in Lengths |-> y[c]]
    BY <1>1 DEF HindmostMoved
<1>6. /\ y[b + 1] = [ofs |-> o, len |-> k - 1]
      /\ y[b] = IF l > 0 THEN [ofs |-> f - 1, len |-> l + 1] ELSE [ofs |-> h, len |-> 1]
    <2>1. x[b + 1] = [ofs |-> o, len |-> k] /\ x[b] = [ofs |-> f, len |-> l]
        BY <1>1, <1>2, Parts
    <2> QED BY <1>5, <2>1 DEF AddFirst
<1>7. ASSUME NEW c \in Lengths
      PROVE  y[c] \in Extents /\ Within(M, c, y[c].ofs, y[c].len)
    <2>1. CASE c = b + 1
        <3>1. k - 1 \in Nat
            BY <1>2
        <3> QED BY ONLY <1>2, <1>4, <1>6, <2>1, <3>1, Extent
    <2>2. CASE c = b /\ l > 0
        <3>1. f - 1 \in Nat /\ l + 1 \in Nat
            BY <1>2, <1>4, <2>2
        <3> QED BY ONLY <1>4, <1>6, <2>2, <3>1, Extent
    <2>3. CASE c = b /\ l = 0
        <3>1. ~ (l > 0) /\ 1 \in Nat /\ h \in Nat
            BY <1>2, <1>4, <2>3
        <3> QED BY ONLY <1>4, <1>6, <2>3, <3>1, Extent
    <2>4. CASE c # b /\ c # b + 1
        <3>1. c \in Int
            BY Sizes DEF Lengths
        <3>2. Within(L, c, x[c].ofs, x[c].len)
            BY DEF Cover
        <3> QED BY <1>4, <1>5, <2>4, <3>1, <3>2 DEF Within, Else
    <2>5. l > 0 \/ l = 0
        BY <1>2
    <2> QED BY <2>1, <2>2, <2>3, <2>4, <2>5
<1> QED BY <1>4, <1>5, <1>7 DEF Cover

-----------------------------------------------------------------------------
(* The code words *)

\* The code words that lengths take.
Used(L) == SumFunction([i \in Symbols |-> Slots(L[i])])

\* The length of an entry in an input of n symbols: one that occurs has a
\* code, one that does not has none unless the input is too short for a
\* boundary.
Fit(n, count, length) ==
    /\ length \in 1 .. Absent
    /\ count > 0 \/ n <= 2 => length # Absent
    /\ count = 0 /\ n > 2 => length = Absent

\* The entries t, their extents x and the debt d agree.
CodeOf(n, t, x, d) ==
    /\ t \in [Symbols -> Entries] /\ x \in [Lengths -> Extents]
    /\ Cover(Lens(t), x)
    /\ d = Used(Lens(t)) - MaxSlots
    /\ \A i \in Symbols : Fit(n, t[i].hgram, t[i].bitlen)

Coded == {"adjust", "repay", "retake", "retaking", "output", "done", "undefined"}

\* The naive loop gets a debt that each length repays more than twice over.
Repaying(x, d, a) ==
    /\ d > 0 /\ a \in 1 .. MaxBits - 1
    /\ \A b \in 1 .. MaxBits - 1 : x[b].len > 0 => Slots(b + 1) >= 2 * d
    /\ \A b \in a + 1 .. MaxBits - 1 : x[b].len = 0

\* Afterwards l is the longest length, and the only one short of which a
\* symbol could be made without more code words than are left.
Retakeable(x, d, a, busy, l) ==
    /\ \A b \in 1 .. MaxBits : x[b].len > 0 => b <= l
    /\ \A b \in 1 .. MaxBits : x[b].len > 0 /\ Slots(b) <= -d =>
          b = l \/ (busy /\ a = l /\ b = l - 1)

RetakingAt(x, d, a, busy) ==
    /\ d < 0 /\ -d < Slots(1) /\ a \in 1 .. MaxBits
    /\ busy => Slots(a) <= -d
    /\ \E l \in 1 .. MaxBits : Retakeable(x, d, a, busy, l)

Alone == Cardinality({s \in Symbols : hgram[s] > 0}) = 1

\* The inductive invariant.
EngelInv ==
    /\ TypeOK
    /\ pc = "sort" => sym < NSym /\ Placed(hgram, temp, sym)
    /\ pc # "sort" => InOrder(hgram, temp)
    /\ pc \in Coded => CodeOf(Slen, temp, extents, debt)
    /\ pc = "adjust" => debt # 0
    /\ pc \in {"output", "done"} => debt = 0
    /\ pc = "done" => \A i \in Symbols : bitlen[temp[i].sym] = temp[i].bitlen
    /\ pc = "undefined" => Alone
    /\ pc = "repay" => Repaying(extents, debt, at)
    /\ pc \in {"retake", "retaking"} => RetakingAt(extents, debt, at, pc = "retaking")

LEMMA SlotsRange ==
    ASSUME NEW b \in Lengths
    PROVE  Slots(b) \in Nat /\ Slots(b) <= MaxSlots
<1>1. CASE b = Absent
    <2>1. Slots(b) = 0
        BY <1>1, SlotsFacts
    <2> QED BY <2>1, Sizes
<1>2. CASE b # Absent
    <2>1. b \in 0 .. MaxBits /\ 0 \in 0 .. b /\ 0 \in 0 .. MaxBits
        BY <1>2, Sizes DEF Lengths
    <2>2. Slots(0) >= Slots(b) /\ Slots(b) \in Nat /\ Slots(0) = MaxSlots
        BY <2>1, SlotsMultiple, SlotsFacts
    <2> QED BY <2>2, Sizes
<1> QED BY <1>1, <1>2

LEMMA UsedIsSum ==
    ASSUME NEW L
    PROVE  Used(L) = SumFunctionOnSet([i \in Symbols |-> Slots(L[i])], Symbols)
<1> DEFINE g == [i \in Symbols |-> Slots(L[i])]
<1>1. DOMAIN g = Symbols
    OBVIOUS
<1>2. Used(L) = SumFunctionOnSet(g, DOMAIN g)
    BY DEF Used, SumFunction
<1> QED BY <1>1, <1>2

LEMMA UsedRange ==
    ASSUME NEW L, \A i \in Symbols : L[i] \in Lengths
    PROVE  Used(L) \in Nat /\ Used(L) <= NSym * MaxSlots
<1> DEFINE g == [i \in Symbols |-> Slots(L[i])]
<1>1. \A i \in Symbols : g[i] \in Nat /\ g[i] <= MaxSlots
    BY SlotsRange
<1>2. MaxSlots \in Nat /\ IsFiniteSet(Symbols) /\ Cardinality(Symbols) = NSym
    BY Sizes
<1> HIDE DEF g
<1>3. SumFunctionOnSet(g, Symbols) \in Nat
    BY <1>1, <1>2, SumOfNumbers
<1>4. SumFunctionOnSet(g, Symbols) <= NSym * MaxSlots
    BY <1>1, <1>2, SumBound
<1> QED BY <1>3, <1>4, UsedIsSum DEF g

\* One more bit for one symbol, or one less, changes them by what it takes.
LEMMA UsedChange ==
    ASSUME NEW L, \A i \in Symbols : L[i] \in Lengths,
           NEW f \in Symbols, NEW b \in Lengths, NEW M, Changed(L, M, f, b)
    PROVE  Used(M) = Used(L) - Slots(L[f]) + Slots(b)
<1> DEFINE g == [i \in Symbols |-> Slots(L[i])]
           h == [i \in Symbols |-> Slots(M[i])]
<1>1. \A i \in Symbols : M[i] = IF i = f THEN b ELSE L[i]
    BY DEF Changed
<1>2. \A i \in Symbols : Slots(L[i]) \in Int /\ Slots(M[i]) \in Int
    BY <1>1, SlotsRange
<1>3. \A i \in Symbols : g[i] \in Int /\ h[i] \in Int
    BY <1>2
<1>4. \A i \in Symbols \ {f} : g[i] = h[i]
    BY <1>1
<1>5. g[f] = Slots(L[f]) /\ h[f] = Slots(b)
    BY <1>1
<1>6. IsFiniteSet(Symbols)
    BY Sizes
<1> HIDE DEF g, h
<1>7. SumFunctionOnSet(h, Symbols) = SumFunctionOnSet(g, Symbols) - g[f] + h[f]
    BY <1>3, <1>4, <1>6, SumChange
<1> QED BY <1>5, <1>7, UsedIsSum DEF g, h

LEMMA LensOf ==
    ASSUME NEW t \in [Symbols -> Entries]
    PROVE  /\ \A i \in Symbols : Lens(t)[i] = t[i].bitlen /\ Lens(t)[i] \in Lengths
           /\ SlotsUsed(t) = Used(Lens(t))
<1>1. \A i \in Symbols : Lens(t)[i] = t[i].bitlen /\ Lens(t)[i] \in Lengths
    BY DEF Lens, Entries
<1>2. [i \in Symbols |-> Slots(t[i].bitlen)] = [i \in Symbols |-> Slots(Lens(t)[i])]
    BY <1>1
<1> QED BY <1>1, <1>2 DEF SlotsUsed, Used

\* Every length is that of an extent that is not empty.
LEMMA HasExtent ==
    ASSUME NEW t \in [Symbols -> Entries], NEW x \in [Lengths -> Extents], Cover(Lens(t), x),
           NEW i \in Symbols
    PROVE  t[i].bitlen \in Lengths /\ x[t[i].bitlen].len > 0
<1>1. PICK c : c = t[i].bitlen
    OBVIOUS
<1>2. c \in Lengths /\ Lens(t)[i] = c
    BY <1>1, LensOf
<1>3. Within(Lens(t), c, x[c].ofs, x[c].len)
    BY <1>2 DEF Cover
<1>4. i >= x[c].ofs /\ i < x[c].ofs + x[c].len
    BY <1>2, <1>3 DEF Within
<1>5. x[c].ofs \in Nat /\ x[c].len \in Nat /\ i \in Int
    <2>1. x[c].ofs \in Nat /\ x[c].len \in Nat
        BY <1>2, Parts
    <2>2. i \in Int
        BY Sizes
    <2> QED BY <2>1, <2>2
<1>6. x[c].len > 0
    BY <1>4, <1>5
<1> QED BY <1>1, <1>2, <1>6

\* The debt is a multiple of what the longest code that is used takes.
LEMMA Divides ==
    ASSUME NEW n, NEW t, NEW x, NEW d, CodeOf(n, t, x, d),
           NEW l \in 1 .. MaxBits, \A b \in 1 .. MaxBits : x[b].len > 0 => b <= l
    PROVE  d \in Multiples(Slots(l))
<1> DEFINE D == Multiples(Slots(l))
           g == [i \in Symbols |-> Slots(Lens(t)[i])]
<1>1. /\ t \in [Symbols -> Entries] /\ x \in [Lengths -> Extents] /\ Cover(Lens(t), x)
      /\ d = Used(Lens(t)) - MaxSlots
      /\ \A i \in Symbols : Fit(n, t[i].hgram, t[i].bitlen)
    BY DEF CodeOf
<1>2. l \in 0 .. MaxBits /\ Slots(l) \in Nat \ {0}
    BY Sizes, SlotsFacts
<1>3. /\ 0 \in D
      /\ \A y, z \in D : y + z \in D /\ y - z \in D
    BY <1>2, MultiplesClosed
<1>4. ASSUME NEW i \in Symbols PROVE g[i] \in D
    <2>1. PICK b : b = t[i].bitlen
        OBVIOUS
    <2>2. b \in 1 .. Absent /\ x[b].len > 0 /\ g[i] = Slots(b)
        BY <1>1, <2>1, HasExtent, LensOf DEF Fit
    <2>3. CASE b = Absent
        <3>1. g[i] = 0
            BY <2>2, <2>3, SlotsFacts
        <3> QED BY <1>3, <3>1
    <2>4. CASE b # Absent
        <3>1. b \in 1 .. MaxBits
            BY <2>2, <2>4, Sizes
        <3>2. b <= l
            BY <2>2, <3>1
        <3>3. b \in 0 .. l
            BY <1>2, <3>1, <3>2, Sizes
        <3> QED BY <1>2, <2>2, <3>3, SlotsMultiple
    <2> QED BY <2>3, <2>4
<1>5. MaxSlots \in D
    <2>1. 0 \in 0 .. l
        BY Sizes
    <2> QED BY <1>2, <2>1, SlotsMultiple, SlotsFacts
<1>6. IsFiniteSet(Symbols)
    BY Sizes
<1>7. Used(Lens(t)) = SumFunctionOnSet(g, Symbols)
    BY UsedIsSum
<1> HIDE DEF D, g
<1>8. SumFunctionOnSet(g, Symbols) \in D
    BY <1>3, <1>4, <1>6, SumIn
<1>9. d \in D
    BY <1>1, <1>3, <1>5, <1>7, <1>8
<1> QED BY <1>9 DEF D

\* Only lengths have changed.
SameSymbols(t, u) == \A i \in Symbols : u[i].hgram = t[i].hgram /\ u[i].sym = t[i].sym

LEMMA StillInOrder ==
    ASSUME NEW h, NEW t, NEW u, InOrder(h, t), SameSymbols(t, u)
    PROVE  InOrder(h, u)
BY DEF InOrder, SameSymbols, Precedes

\* One code with a changed length, from b to c.
LEMMA Recoded ==
    ASSUME NEW n \in Nat, NEW t, NEW x, NEW d, CodeOf(n, t, x, d),
           NEW b \in 1 .. MaxBits, NEW c \in 1 .. MaxBits,
           NEW f \in Symbols, t[f].bitlen = b, NEW u, Relengthened(t, u, f, c),
           NEW y \in [Lengths -> Extents], Cover(Lens(u), y)
    PROVE  CodeOf(n, u, y, d - Slots(b) + Slots(c)) /\ SameSymbols(t, u)
<1>1. /\ t \in [Symbols -> Entries] /\ x \in [Lengths -> Extents] /\ Cover(Lens(t), x)
      /\ d = Used(Lens(t)) - MaxSlots
      /\ \A i \in Symbols : Fit(n, t[i].hgram, t[i].bitlen)
    BY DEF CodeOf
<1>2. /\ u \in [Symbols -> Entries] /\ u[f].bitlen = c
      /\ \A j \in Symbols : j # f => u[j] = t[j]
      /\ SameSymbols(t, u)
    BY DEF Relengthened, SameSymbols
<1>3. b \in Lengths /\ c \in Lengths /\ b # Absent /\ c # Absent /\ c \in 1 .. Absent
    BY Sizes DEF Lengths
<1>4. Changed(Lens(t), Lens(u), f, c)
    BY <1>1, <1>2, LensOf DEF Changed
<1>5. Lens(t)[f] = b /\ \A i \in Symbols : Lens(t)[i] \in Lengths
    BY <1>1, LensOf
<1>6. Used(Lens(u)) = Used(Lens(t)) - Slots(b) + Slots(c)
    BY <1>3, <1>4, <1>5, UsedChange
<1>7. d - Slots(b) + Slots(c) = Used(Lens(u)) - MaxSlots
    <2>1. Used(Lens(t)) \in Nat /\ Slots(b) \in Nat /\ Slots(c) \in Nat /\ MaxSlots \in Nat
        BY <1>3, <1>5, UsedRange, SlotsRange, Sizes
    <2> QED BY <1>1, <1>6, <2>1
<1>8. ASSUME NEW i \in Symbols PROVE Fit(n, u[i].hgram, u[i].bitlen)
    <2>1. CASE i = f
        <3>1. Fit(n, t[f].hgram, b) /\ u[f].hgram = t[f].hgram
            BY <1>1, <1>2 DEF SameSymbols
        <3> QED BY <1>2, <1>3, <2>1, <3>1 DEF Fit
    <2>2. CASE i # f
        BY <1>1, <1>2, <2>2
    <2> QED BY <2>1, <2>2
<1> QED BY <1>2, <1>7, <1>8 DEF CodeOf

\* Making the foremost entry of extent b longer.
LengthenedTo(t, x, b, u, y) ==
    /\ u = [t EXCEPT ![x[b].ofs].bitlen = @ + 1]
    /\ y = [x EXCEPT ![b] = [ofs |-> @.ofs + 1, len |-> @.len - 1],
                     ![b + 1] = AddLast(@, x[b].ofs)]

LEMMA LongerCode ==
    ASSUME NEW n \in Nat, NEW t, NEW x, NEW d, CodeOf(n, t, x, d),
           NEW b \in 1 .. MaxBits - 1, x[b].len > 0,
           NEW u, NEW y, LengthenedTo(t, x, b, u, y)
    PROVE  /\ CodeOf(n, u, y, d - Slots(b + 1)) /\ SameSymbols(t, u)
           /\ \A c \in Lengths : c # b /\ c # b + 1 => y[c] = x[c]
<1>1. t \in [Symbols -> Entries] /\ x \in [Lengths -> Extents] /\ Cover(Lens(t), x)
      /\ d = Used(Lens(t)) - MaxSlots
    BY DEF CodeOf
<1>2. /\ b \in 1 .. MaxBits /\ b + 1 \in 1 .. MaxBits /\ b \in 0 .. MaxBits
      /\ b \in 0 .. MaxBits - 1 /\ b + 1 \in 0 .. MaxBits /\ b + 1 \in Lengths
    BY Sizes DEF Lengths
<1>3. PICK f : f = x[b].ofs
    OBVIOUS
<1>4. PICK M : M = [i \in Symbols |-> IF i = f THEN b + 1 ELSE Lens(t)[i]]
    OBVIOUS
<1>5. Changed(Lens(t), M, f, b + 1)
    BY <1>4 DEF Changed
<1>6. y = [x EXCEPT ![b] = [ofs |-> @.ofs + 1, len |-> @.len - 1],
                    ![b + 1] = AddLast(@, x[b].ofs)]
    BY DEF LengthenedTo
<1>7. f \in Symbols /\ Lens(t)[f] = b /\ y \in [Lengths -> Extents] /\ Cover(M, y)
    BY <1>1, <1>2, <1>3, <1>5, <1>6, Lengthened
<1>8. t[f].bitlen = b
    BY <1>1, <1>7, LensOf
<1>9. Relengthened(t, u, f, b + 1)
    <2>1. u = [t EXCEPT ![f].bitlen = b + 1]
        BY <1>1, <1>3, <1>7, <1>8 DEF LengthenedTo
    <2> QED BY <1>1, <1>2, <1>7, <2>1, RelengthenedBy
<1>10. Lens(u) = M
    <2>1. \A i \in Symbols : u[i].bitlen = IF i = f THEN b + 1 ELSE Lens(t)[i]
        BY <1>1, <1>9, LensOf DEF Relengthened
    <2> QED BY <1>4, <2>1 DEF Lens
<1>11. CodeOf(n, u, y, d - Slots(b) + Slots(b + 1)) /\ SameSymbols(t, u)
    BY <1>2, <1>7, <1>8, <1>9, <1>10, Recoded
<1>12. d - Slots(b) + Slots(b + 1) = d - Slots(b + 1)
    <2>1. Slots(b) = 2 * Slots(b + 1) /\ Slots(b + 1) \in Nat
        BY <1>2, SlotsFacts
    <2>2. d \in Int
        BY <1>1, LensOf, UsedRange, Sizes
    <2> QED BY <2>1, <2>2
<1>13. \A c \in Lengths : c # b /\ c # b + 1 => y[c] = x[c]
    BY <1>1, <1>6
<1> QED BY <1>11, <1>12, <1>13

\* Making the hindmost entry of extent b + 1 shorter.
ShortenedTo(t, x, b, u, y) ==
    /\ u = [t EXCEPT ![x[b + 1].ofs + x[b + 1].len - 1].bitlen = @ - 1]
    /\ y = [x EXCEPT ![b + 1].len = @ - 1,
                     ![b] = AddFirst(@, x[b + 1].ofs + x[b + 1].len - 1)]

LEMMA ShorterCode ==
    ASSUME NEW n \in Nat, NEW t, NEW x, NEW d, CodeOf(n, t, x, d),
           NEW b \in 1 .. MaxBits - 1, x[b + 1].len > 0,
           NEW u, NEW y, ShortenedTo(t, x, b, u, y)
    PROVE  /\ CodeOf(n, u, y, d + Slots(b + 1)) /\ SameSymbols(t, u)
           /\ \A c \in Lengths : c # b /\ c # b + 1 => y[c] = x[c]
<1>1. t \in [Symbols -> Entries] /\ x \in [Lengths -> Extents] /\ Cover(Lens(t), x)
      /\ d = Used(Lens(t)) - MaxSlots
    BY DEF CodeOf
<1>2. /\ b \in 1 .. MaxBits /\ b + 1 \in 1 .. MaxBits /\ b \in 0 .. MaxBits
      /\ b \in 0 .. MaxBits - 1 /\ b + 1 \in 0 .. MaxBits /\ b \in Lengths
      /\ (b + 1) - 1 = b
    BY Sizes DEF Lengths
<1>3. PICK f : f = x[b + 1].ofs + x[b + 1].len - 1
    OBVIOUS
<1>4. PICK M : M = [i \in Symbols |-> IF i = f THEN b ELSE Lens(t)[i]]
    OBVIOUS
<1>5. Changed(Lens(t), M, f, b)
    BY <1>4 DEF Changed
<1>6. HindmostMoved(x, b, f, y)
    BY <1>3 DEF ShortenedTo, HindmostMoved
<1>7. f \in Symbols /\ Lens(t)[f] = b + 1 /\ y \in [Lengths -> Extents] /\ Cover(M, y)
    BY <1>1, <1>2, <1>3, <1>5, <1>6, Shortened
<1>8. t[f].bitlen = b + 1
    BY <1>1, <1>7, LensOf
<1>9. Relengthened(t, u, f, b)
    <2>1. u = [t EXCEPT ![f].bitlen = b]
        BY <1>1, <1>2, <1>3, <1>7, <1>8 DEF ShortenedTo
    <2> QED BY <1>1, <1>2, <1>7, <2>1, RelengthenedBy
<1>10. Lens(u) = M
    <2>1. \A i \in Symbols : u[i].bitlen = IF i = f THEN b ELSE Lens(t)[i]
        BY <1>1, <1>9, LensOf DEF Relengthened
    <2> QED BY <1>4, <2>1 DEF Lens
<1>11. CodeOf(n, u, y, d - Slots(b + 1) + Slots(b)) /\ SameSymbols(t, u)
    BY <1>2, <1>7, <1>8, <1>9, <1>10, Recoded
<1>12. d - Slots(b + 1) + Slots(b) = d + Slots(b + 1)
    <2>1. Slots(b) = 2 * Slots(b + 1) /\ Slots(b + 1) \in Nat
        BY <1>2, SlotsFacts
    <2>2. d \in Int
        BY <1>1, LensOf, UsedRange, Sizes
    <2> QED BY <2>1, <2>2
<1>13. \A c \in Lengths : c # b /\ c # b + 1 => y[c] = x[c]
    BY <1>1, <1>6 DEF HindmostMoved
<1> QED BY <1>11, <1>12, <1>13

-----------------------------------------------------------------------------
(* The naive loops *)

LEMMA SlotsOrder ==
    ASSUME NEW b \in 1 .. MaxBits, NEW c \in 1 .. MaxBits
    PROVE  /\ Slots(b) \in Nat \ {0}
           /\ b <= c => Slots(b) >= Slots(c)
           /\ Slots(b) < Slots(c) => b > c
<1>1. b \in 0 .. MaxBits /\ c \in 0 .. MaxBits /\ b \in Int /\ c \in Int
    BY Sizes
<1>2. Slots(b) \in Nat \ {0} /\ Slots(c) \in Nat \ {0}
    BY <1>1, SlotsFacts
<1>3. b <= c => Slots(b) >= Slots(c)
    <2>1. b <= c => b \in 0 .. c
        BY <1>1
    <2> QED BY <1>1, <2>1, SlotsMultiple
<1> QED BY <1>1, <1>2, <1>3

\* One length that is more than twice what is owed turns the debt into credit,
\* and only the longest symbols could take any of it.
LEMMA FirstRepay ==
    ASSUME NEW x, NEW y, NEW d \in Int, NEW a, Repaying(x, d, a),
           \A c \in Lengths : c # a /\ c # a + 1 => y[c] = x[c],
           x[a].len > 0, NEW e, e = d - Slots(a + 1)
    PROVE  e \in Int /\ e < 0 /\ RetakingAt(y, e, 1, FALSE)
<1>1. /\ d > 0 /\ a \in 1 .. MaxBits - 1
      /\ \A b \in 1 .. MaxBits - 1 : x[b].len > 0 => Slots(b + 1) >= 2 * d
      /\ \A b \in a + 1 .. MaxBits - 1 : x[b].len = 0
    BY DEF Repaying
<1>2. /\ MaxBits \in Nat /\ a + 1 \in 1 .. MaxBits /\ 1 \in 1 .. MaxBits /\ 2 \in 1 .. MaxBits
      /\ a \in Int /\ 2 <= a + 1 /\ MaxBits \in 1 .. MaxBits /\ 1 \in 0 .. MaxBits - 1
      /\ 1 + 1 = 2
    BY <1>1, Sizes
<1>3. Slots(a + 1) >= 2 * d /\ Slots(a + 1) \in Nat
    BY <1>1, <1>2, SlotsOrder
<1>4. Slots(1) > Slots(a + 1)
    <2>1. Slots(1) = 2 * Slots(2)
        BY <1>2, SlotsFacts
    <2>2. Slots(2) \in Nat \ {0} /\ Slots(2) >= Slots(a + 1)
        BY <1>2, SlotsOrder
    <2> QED BY <1>3, <2>1, <2>2
<1>5. e \in Int /\ e < 0 /\ -e < Slots(a + 1) /\ -e < Slots(1)
    <2>1. Slots(1) \in Nat
        BY <1>2, SlotsOrder
    <2> QED BY <1>1, <1>3, <1>4, <2>1
<1>6. ASSUME NEW b \in 1 .. MaxBits, y[b].len > 0, Slots(b) <= -e PROVE b = MaxBits
    <2>1. Slots(b) < Slots(a + 1)
        <3>1. Slots(b) \in Nat
            BY SlotsOrder
        <3> QED BY <1>3, <1>5, <1>6, <3>1
    <2>2. b > a + 1
        BY <1>2, <2>1, SlotsOrder
    <2>3. b \in Lengths /\ b # a /\ b # a + 1
        BY <1>2, <2>2, Sizes DEF Lengths
    <2>4. x[b].len > 0
        BY <1>6, <2>3
    <2>5. b \notin a + 1 .. MaxBits - 1
        BY <1>1, <2>4
    <2> QED BY <1>2, <2>2, <2>5
<1>7. Retakeable(y, e, 1, FALSE, MaxBits)
    <2>1. \A b \in 1 .. MaxBits : b <= MaxBits
        BY <1>2
    <2> QED BY <1>6, <2>1 DEF Retakeable
<1> QED BY <1>2, <1>5, <1>7 DEF RetakingAt

\* A symbol made shorter uses no more code words than are left.
LEMMA Retaken ==
    ASSUME NEW n, NEW t, NEW x, NEW d, CodeOf(n, t, x, d),
           NEW a, RetakingAt(x, d, a, TRUE), x[a].len > 0,
           NEW y, \A c \in Lengths : c # a /\ c # a - 1 => y[c] = x[c],
           NEW u, NEW e, e = d + Slots(a), CodeOf(n, u, y, e)
    PROVE  /\ a \in 2 .. MaxBits /\ e \in Int /\ e <= 0
           /\ e < 0 => RetakingAt(y, e, a, TRUE)
<1>1. /\ d < 0 /\ -d < Slots(1) /\ a \in 1 .. MaxBits /\ Slots(a) <= -d
    BY DEF RetakingAt
<1>2. PICK l \in 1 .. MaxBits : Retakeable(x, d, a, TRUE, l)
    BY DEF RetakingAt
<1>3. /\ \A b \in 1 .. MaxBits : x[b].len > 0 => b <= l
      /\ \A b \in 1 .. MaxBits : x[b].len > 0 /\ Slots(b) <= -d =>
            b = l \/ (a = l /\ b = l - 1)
    BY <1>2 DEF Retakeable
<1>4. a = l /\ l \in Int /\ MaxBits \in Nat /\ 1 \in 1 .. MaxBits
    <2>1. a \in Int /\ a # a - 1
        BY <1>1, Sizes
    <2> QED BY <1>1, <1>3, <2>1, Sizes
<1>5. Slots(a) \in Nat \ {0} /\ Slots(1) \in Nat
    BY <1>1, <1>4, SlotsOrder
<1>6. d \in Multiples(Slots(a))
    BY <1>3, <1>4, Divides
<1>7. d \in Int /\ e \in Int /\ e <= 0
    BY <1>1, <1>5, <1>6, MultiplesClosed
<1>8. a \in 2 .. MaxBits
    <2>1. a # 1
        BY <1>1, <1>5, <1>7
    <2> QED BY <1>1, <1>4, <2>1
<1>9. \A b \in 1 .. MaxBits : y[b].len > 0 => b = l \/ b = l - 1 \/ x[b].len > 0
    <2>1. \A b \in 1 .. MaxBits : b \in Lengths
        BY Sizes DEF Lengths
    <2> QED BY <1>4, <2>1
<1>10. \A b \in 1 .. MaxBits : y[b].len > 0 => b <= l
    BY <1>3, <1>4, <1>9
<1>11. ASSUME e < 0 PROVE RetakingAt(y, e, a, TRUE)
    <2>1. e \in Multiples(Slots(a))
        BY <1>4, <1>10, Divides
    <2>2. Slots(a) <= -e
        BY <1>5, <1>7, <1>11, <2>1, MultiplesClosed
    <2>3. -e <= -d /\ -e < Slots(1)
        BY <1>1, <1>5, <1>7
    <2>4. ASSUME NEW b \in 1 .. MaxBits, y[b].len > 0, Slots(b) <= -e
          PROVE  b = l \/ (TRUE /\ a = l /\ b = l - 1)
        <3>1. Slots(b) <= -d
            <4>1. Slots(b) \in Nat
                BY SlotsOrder
            <4> QED BY <1>7, <2>3, <2>4, <4>1
        <3> QED BY <1>3, <1>4, <1>9, <2>4, <3>1
    <2>5. Retakeable(y, e, a, TRUE, l)
        BY <1>10, <2>4 DEF Retakeable
    <2> QED BY <1>1, <1>11, <2>2, <2>3, <2>5 DEF RetakingAt
<1> QED BY <1>7, <1>8, <1>11

\* A length that is done with is no longer the longest.
LEMMA Left ==
    ASSUME NEW x \in [Lengths -> Extents], NEW d \in Int,
           NEW a, RetakingAt(x, d, a, TRUE), x[a].len = 0, NEW z \in 1 .. MaxBits
    PROVE  RetakingAt(x, d, z, FALSE)
<1>1. /\ d < 0 /\ -d < Slots(1) /\ a \in 1 .. MaxBits /\ Slots(a) <= -d
    BY DEF RetakingAt
<1>2. PICK l \in 1 .. MaxBits : Retakeable(x, d, a, TRUE, l)
    BY DEF RetakingAt
<1>3. /\ \A b \in 1 .. MaxBits : x[b].len > 0 => b <= l
      /\ \A b \in 1 .. MaxBits : x[b].len > 0 /\ Slots(b) <= -d =>
            b = l \/ (a = l /\ b = l - 1)
    BY <1>2 DEF Retakeable
<1>4. CASE a # l
    <2>1. Retakeable(x, d, z, FALSE, l)
        BY <1>3, <1>4 DEF Retakeable
    <2> QED BY <1>1, <2>1 DEF RetakingAt
<1>5. CASE a = l
    <2>1. l - 1 \in 1 .. MaxBits
        <3>1. Slots(a) \in Nat /\ 1 \in 1 .. MaxBits /\ Slots(1) \in Nat
            BY <1>1, SlotsOrder, Sizes
        <3>2. l # 1
            BY <1>1, <1>5, <3>1
        <3> QED BY <3>2, Sizes
    <2>2. \A b \in 1 .. MaxBits : x[b].len > 0 => b # l /\ b \in Int
        BY <1>5, Sizes
    <2>3. \A b \in 1 .. MaxBits : x[b].len > 0 => b <= l - 1
        BY <1>3, <2>2, Sizes
    <2>4. \A b \in 1 .. MaxBits : x[b].len > 0 /\ Slots(b) <= -d => b = l - 1
        BY <1>3, <2>2
    <2>5. Retakeable(x, d, z, FALSE, l - 1)
        BY <2>3, <2>4 DEF Retakeable
    <2> QED BY <1>1, <2>1, <2>5 DEF RetakingAt
<1> QED BY <1>4, <1>5

LEMMA Entered ==
    ASSUME NEW x, NEW d, NEW a, RetakingAt(x, d, a, FALSE)
    PROVE  /\ Slots(a) <= -d => RetakingAt(x, d, a, TRUE)
           /\ \A z \in 1 .. MaxBits : RetakingAt(x, d, z, FALSE)
<1>1. d < 0 /\ -d < Slots(1) /\ a \in 1 .. MaxBits
    BY DEF RetakingAt
<1>2. PICK l \in 1 .. MaxBits : Retakeable(x, d, a, FALSE, l)
    BY DEF RetakingAt
<1>3. Retakeable(x, d, a, TRUE, l) /\ \A z \in 1 .. MaxBits : Retakeable(x, d, z, FALSE, l)
    BY <1>2 DEF Retakeable
<1> QED BY <1>1, <1>3 DEF RetakingAt

-----------------------------------------------------------------------------
(* Between the phases *)

\* Nothing can be made shorter only if one symbol has all the count.
LEMMA NothingShorter ==
    ASSUME NEW h, \A s \in Symbols : h[s] \in Nat,
           NEW n \in Nat, n = SumFunctionOnSet(h, Symbols),
           NEW t, InOrder(h, t), NEW x, NEW d, CodeOf(n, t, x, d), d < 0,
           \A b \in 2 .. MaxBits : x[b].len > 0 => Slots(b) >= 2 * (-d)
    PROVE  Cardinality({s \in Symbols : h[s] > 0}) = 1
<1>1. /\ t \in [Symbols -> Entries] /\ x \in [Lengths -> Extents] /\ Cover(Lens(t), x)
      /\ d = Used(Lens(t)) - MaxSlots
      /\ \A i \in Symbols : Fit(n, t[i].hgram, t[i].bitlen)
    BY DEF CodeOf
<1>2. /\ MaxBits \in Nat /\ MaxBits >= 2 /\ NSym \in Nat /\ NSym >= 2
      /\ Symbols = 0 .. NSym - 1 /\ IsFiniteSet(Symbols) /\ MaxSlots \in Nat
    BY Sizes
<1>3. Used(Lens(t)) \in Nat /\ d \in Int
    BY <1>1, <1>2, LensOf, UsedRange
<1>4. \A b \in 2 .. MaxBits : ~ (x[b].len > 0)
    <2> DEFINE S == {b \in 2 .. MaxBits : x[b].len > 0}
    <2> SUFFICES ASSUME S # {} PROVE FALSE
        OBVIOUS
    <2>1. S \in SUBSET (0 .. MaxBits)
        BY <1>2
    <2>2. PICK c \in S : \A y \in S : c >= y
        <3> HIDE DEF S
        <3> QED BY <1>2, <2>1, GreatestOf
    <2>3. c \in 1 .. MaxBits /\ c >= 2 /\ c \in 0 .. MaxBits
        BY <1>2
    <2>4. \A b \in 1 .. MaxBits : x[b].len > 0 => b <= c
        <3>1. \A b \in 1 .. MaxBits : b = 1 \/ b \in 2 .. MaxBits
            BY <1>2
        <3> QED BY <2>2, <2>3, <3>1
    <2>5. d \in Multiples(Slots(c)) /\ Slots(c) \in Nat \ {0}
        BY <2>3, <2>4, Divides, SlotsFacts
    <2>6. d + Slots(c) <= 0
        BY <2>5, MultiplesClosed
    <2>7. Slots(c) >= 2 * (-d)
        OBVIOUS
    <2> QED BY <1>3, <2>5, <2>6, <2>7
<1>5. \A i \in Symbols : t[i].bitlen = 1 \/ t[i].bitlen = Absent
    <2>1. \A i \in Symbols : t[i].bitlen \in 1 .. Absent /\ x[t[i].bitlen].len > 0
        BY <1>1, HasExtent DEF Fit
    <2>2. \A b \in 1 .. Absent : b = 1 \/ b = Absent \/ b \in 2 .. MaxBits
        BY Sizes
    <2> QED BY <1>4, <2>1, <2>2
<1>6. /\ \A i \in Symbols : t[i].sym \in Symbols /\ t[i].hgram = h[t[i].sym] /\ t[i].hgram \in Nat
      /\ \A s \in Symbols : \E i \in Symbols : t[i].sym = s
    BY DEF InOrder
<1>7. Absent # 1
    BY Sizes
<1>8. PICK p \in Symbols : t[p].bitlen = 1
    <2> SUFFICES ASSUME \A i \in Symbols : t[i].bitlen = Absent PROVE FALSE
        BY <1>5
    <2>1. n > 2
        <3>1. 0 \in Symbols
            BY <1>2
        <3> QED BY <1>1, <3>1 DEF Fit
    <2>2. \A i \in Symbols : t[i].hgram = 0
        BY <1>1, <1>6 DEF Fit
    <2>3. \A s \in Symbols : h[s] = 0
        BY <1>6, <2>2
    <2>4. n = 0
        BY <1>2, <2>3, SumZero
    <2> QED BY <2>1, <2>4
<1>9. \A q \in Symbols : t[q].bitlen = 1 => q = p
    <2> SUFFICES ASSUME NEW q \in Symbols, t[q].bitlen = 1, q # p PROVE FALSE
        OBVIOUS
    <2> DEFINE g == [i \in Symbols |-> Slots(Lens(t)[i])]
    <2>1. \A i \in Symbols : g[i] \in Nat
        BY <1>1, LensOf, SlotsRange
    <2>2. g[p] = Slots(1) /\ g[q] = Slots(1)
        BY <1>1, <1>8, LensOf
    <2>3. Used(Lens(t)) = SumFunctionOnSet(g, Symbols)
        BY UsedIsSum
    <2> HIDE DEF g
    <2>4. SumFunctionOnSet(g, Symbols) = g[p] + SumFunctionOnSet(g, Symbols \ {p})
        <3>1. \A i \in Symbols : g[i] \in Int
            BY <2>1
        <3>2. IsFiniteSet(Symbols) /\ p \in Symbols
            BY <1>2
        <3> QED BY ONLY <3>1, <3>2, SumElement
    <2>5. g[q] <= SumFunctionOnSet(g, Symbols \ {p}) /\ SumFunctionOnSet(g, Symbols \ {p}) \in Nat
        <3>1. IsFiniteSet(Symbols \ {p}) /\ q \in Symbols \ {p}
            BY <1>2, FS_RemoveElement
        <3> QED BY <2>1, <3>1, SumOfNumbers
    <2>6. MaxSlots = 2 * Slots(1) /\ Slots(1) \in Nat
        <3>1. 0 \in 0 .. MaxBits - 1 /\ 0 + 1 = 1 /\ 1 \in 0 .. MaxBits
            BY <1>2
        <3> QED BY <3>1, SlotsFacts
    <2>7. Used(Lens(t)) >= MaxSlots
        BY <2>2, <2>3, <2>4, <2>5, <2>6
    <2> QED BY <1>1, <1>2, <1>3, <2>7
<1>10. n > 2
    <2> SUFFICES ASSUME n <= 2 PROVE FALSE
        OBVIOUS
    <2>1. 0 \in Symbols /\ 1 \in Symbols
        BY <1>2
    <2>2. t[0].bitlen = 1 /\ t[1].bitlen = 1
        BY <1>1, <1>5, <2>1 DEF Fit
    <2> QED BY <1>9, <2>1, <2>2
<1>11. \A i \in Symbols : t[i].hgram > 0 <=> i = p
    <2>1. t[p].hgram > 0
        BY <1>1, <1>6, <1>7, <1>8, <1>10 DEF Fit
    <2>2. \A i \in Symbols : i # p => ~ (t[i].hgram > 0)
        BY <1>1, <1>5, <1>9 DEF Fit
    <2> QED BY <2>1, <2>2
<1>12. {s \in Symbols : h[s] > 0} = {t[p].sym}
    <2>1. h[t[p].sym] > 0 /\ t[p].sym \in Symbols
        BY <1>6, <1>11
    <2>2. ASSUME NEW s \in Symbols, h[s] > 0 PROVE s = t[p].sym
        <3>1. PICK i \in Symbols : t[i].sym = s
            BY <1>6
        <3>2. t[i].hgram > 0
            BY <1>6, <2>2, <3>1
        <3> QED BY <1>11, <3>1, <3>2
    <2> QED BY <2>1, <2>2
<1> QED BY <1>12, FS_Singleton

\* The first guess gives every symbol a length that fits.
LEMMA Guessed ==
    ASSUME hgram \in [Symbols -> Counts], NEW t \in [Symbols -> Entries], InOrder(hgram, t),
           NEW u, u = [i \in Symbols |-> [t[i] EXCEPT !.bitlen = FirstBitlen(t[i].hgram)]]
    PROVE  /\ CodeOf(Slen, u, ExtentsOf(u), SlotsUsed(u) - MaxSlots)
           /\ SameSymbols(t, u)
<1>1. /\ \A s \in Symbols : hgram[s] \in Nat
      /\ Slen \in Nat /\ Boundary \in Nat
      /\ Slen > 2 => Boundary >= 1
      /\ Slen <= 2 => Boundary = 0
    BY InputFacts
<1>2. \A i \in Symbols : t[i].hgram \in Nat
    BY <1>1 DEF InOrder
<1>3. \A i, j \in Symbols : i < j => t[i].hgram <= t[j].hgram
    BY <1>2 DEF InOrder, Precedes
<1>4. ASSUME NEW i \in Symbols
      PROVE  FirstBitlen(t[i].hgram) \in Lengths /\ Fit(Slen, t[i].hgram, FirstBitlen(t[i].hgram))
    <2>1. PICK c \in Nat : c = t[i].hgram
        BY <1>2
    <2>2. PICK b : b = FirstBitlen(c)
        OBVIOUS
    <2>3. /\ b \in 1 .. Absent
          /\ c > 0 => b \in 1 .. MaxBits
          /\ Boundary = 0 => b \in 1 .. MaxBits
          /\ Boundary >= 1 /\ c = 0 => b = Absent
        BY <1>1, <2>2, FirstBitlenFacts
    <2>4. Absent \notin 1 .. MaxBits
        BY Sizes
    <2>5. Fit(Slen, c, b)
        BY <1>1, <2>3, <2>4 DEF Fit
    <2>6. b \in Lengths
        BY <2>3, Sizes DEF Lengths
    <2> QED BY <2>1, <2>2, <2>5, <2>6
<1>5. ASSUME NEW i \in Symbols
      PROVE  /\ u[i] \in Entries /\ u[i].bitlen = FirstBitlen(t[i].hgram)
             /\ u[i].hgram = t[i].hgram /\ u[i].sym = t[i].sym
    <2>1. PICK e, b : e = t[i] /\ b = FirstBitlen(t[i].hgram)
        OBVIOUS
    <2>2. u[i] = [e EXCEPT !.bitlen = b]
        BY <2>1
    <2>3. e \in [hgram : Counts \union {0}, bitlen : Lengths, sym : Symbols] /\ b \in Lengths
        BY <1>4, <2>1 DEF Entries
    <2>4. [e EXCEPT !.bitlen = b] \in [hgram : Counts \union {0}, bitlen : Lengths, sym : Symbols]
          /\ [e EXCEPT !.bitlen = b].bitlen = b
          /\ [e EXCEPT !.bitlen = b].hgram = e.hgram /\ [e EXCEPT !.bitlen = b].sym = e.sym
        BY ONLY <2>3
    <2> QED BY <2>1, <2>2, <2>4 DEF Entries
<1>6. u \in [Symbols -> Entries] /\ SameSymbols(t, u)
    <2>1. u = [i \in Symbols |-> u[i]]
        OBVIOUS
    <2> QED BY <1>5, <2>1 DEF SameSymbols
<1>7. \A i \in Symbols : Fit(Slen, u[i].hgram, u[i].bitlen)
    BY <1>4, <1>5
<1>8. \A i, j \in Symbols : i < j => u[i].bitlen >= u[j].bitlen
    <2> SUFFICES ASSUME NEW i \in Symbols, NEW j \in Symbols, i < j
                 PROVE  u[i].bitlen >= u[j].bitlen
        OBVIOUS
    <2>1. PICK c \in Nat, e \in Nat : c = t[i].hgram /\ e = t[j].hgram /\ c <= e
        BY <1>2, <1>3
    <2>2. FirstBitlen(e) <= FirstBitlen(c) /\ FirstBitlen(e) \in 1 .. Absent
          /\ FirstBitlen(c) \in 1 .. Absent
        BY <1>1, <2>1, FirstBitlenFacts
    <2>3. u[i].bitlen = FirstBitlen(c) /\ u[j].bitlen = FirstBitlen(e)
        BY <1>5, <2>1
    <2> QED BY <2>2, <2>3, Sizes
<1> HIDE DEF SlotsUsed
<1>9. ExtentsOf(u) \in [Lengths -> Extents] /\ Cover(Lens(u), ExtentsOf(u))
    BY <1>6, <1>8, ExtentsCover, CoveredIsCover
<1>10. SlotsUsed(u) = Used(Lens(u))
    BY <1>6, LensOf
<1> QED BY <1>6, <1>7, <1>9, <1>10 DEF CodeOf

\* The entries of a sorted array are those of different symbols.
LEMMA OneEntry ==
    ASSUME NEW h, \A s \in Symbols : h[s] \in Nat, NEW t, InOrder(h, t),
           NEW i \in Symbols, NEW j \in Symbols, t[i].sym = t[j].sym
    PROVE  i = j
<1>1. t[i].sym \in Symbols /\ t[i].hgram = h[t[i].sym] /\ t[j].hgram = h[t[j].sym]
      /\ (i < j => Precedes(t[i], t[j])) /\ (j < i => Precedes(t[j], t[i]))
    BY DEF InOrder
<1>2. \A s \in Symbols : s \in Int
    BY Sizes
<1>3. ~ Precedes(t[i], t[j]) /\ ~ Precedes(t[j], t[i])
    BY <1>1, <1>2 DEF Precedes
<1> QED BY <1>1, <1>2, <1>3

LEMMA Outputs ==
    ASSUME NEW h, \A s \in Symbols : h[s] \in Nat, NEW t \in [Symbols -> Entries], InOrder(h, t),
           NEW r, r = [s \in Symbols |-> t[CHOOSE i \in Symbols : t[i].sym = s].bitlen]
    PROVE  r \in [Symbols -> Lengths] /\ \A i \in Symbols : r[t[i].sym] = t[i].bitlen
<1>1. \A s \in Symbols : \E i \in Symbols : t[i].sym = s
    BY DEF InOrder
<1> DEFINE p(s) == CHOOSE i \in Symbols : t[i].sym = s
<1>2. \A s \in Symbols : p(s) \in Symbols /\ t[p(s)].sym = s
    BY <1>1
<1>3. \A s \in Symbols : r[s] = t[p(s)].bitlen
    OBVIOUS
<1>4. r = [s \in Symbols |-> r[s]]
    OBVIOUS
<1> HIDE DEF p
<1>5. \A i \in Symbols : t[i].bitlen \in Lengths
    BY DEF Entries
<1>6. ASSUME NEW i \in Symbols PROVE r[t[i].sym] = t[i].bitlen
    <2>1. t[i].sym \in Symbols
        BY DEF InOrder
    <2>2. p(t[i].sym) = i
        BY <1>2, <2>1, OneEntry
    <2> QED BY <1>3, <2>1, <2>2
<1> QED BY <1>2, <1>3, <1>4, <1>5, <1>6

\* Then the code is complete.
LEMMA Complete ==
    ASSUME NEW h, \A s \in Symbols : h[s] \in Nat, NEW t, InOrder(h, t),
           NEW n \in Nat, NEW x, CodeOf(n, t, x, 0),
           NEW r, \A i \in Symbols : r[t[i].sym] = t[i].bitlen
    PROVE  /\ SumFunction([s \in Symbols |-> Slots(r[s])]) = MaxSlots
           /\ \A s \in Symbols : h[s] > 0 => r[s] \in 1 .. MaxBits
           /\ n > 2 => \A s \in Symbols : h[s] = 0 => r[s] = Absent
           /\ \A s, q \in Symbols : h[s] < h[q] => r[s] >= r[q]
<1>1. /\ t \in [Symbols -> Entries] /\ Cover(Lens(t), x)
      /\ 0 = Used(Lens(t)) - MaxSlots
      /\ \A i \in Symbols : Fit(n, t[i].hgram, t[i].bitlen)
    BY DEF CodeOf
<1>2. /\ \A i \in Symbols : t[i].sym \in Symbols /\ t[i].hgram = h[t[i].sym]
      /\ \A i, j \in Symbols : i < j => Precedes(t[i], t[j])
      /\ \A s \in Symbols : \E i \in Symbols : t[i].sym = s
    BY DEF InOrder
<1>3. \A s \in Symbols : \E i \in Symbols :
         t[i].sym = s /\ h[s] = t[i].hgram /\ r[s] = t[i].bitlen
    BY <1>2
<1> DEFINE p == [i \in Symbols |-> t[i].sym]
           f == [s \in Symbols |-> Slots(r[s])]
           g == [i \in Symbols |-> Slots(Lens(t)[i])]
<1>4. SumFunction(f) = MaxSlots
    <2>1. /\ p \in [Symbols -> Symbols]
          /\ \A y, z \in Symbols : p[y] = p[z] => y = z
          /\ \A z \in Symbols : \E y \in Symbols : p[y] = z
        BY <1>2, OneEntry
    <2>2. \A i \in Symbols : f[p[i]] = g[i] /\ g[i] \in Int
        BY <1>1, <1>2, LensOf, SlotsRange
    <2>3. IsFiniteSet(Symbols)
        BY Sizes
    <2>4. Used(Lens(t)) = SumFunctionOnSet(g, Symbols)
        BY UsedIsSum
    <2>5. SumFunction(f) = SumFunctionOnSet(f, Symbols)
        BY DEF SumFunction
    <2>6. Used(Lens(t)) \in Nat /\ MaxSlots \in Nat
        BY <1>1, LensOf, UsedRange, Sizes
    <2> HIDE DEF p, f, g
    <2>7. SumFunctionOnSet(f, Symbols) = SumFunctionOnSet(g, Symbols)
        BY <2>1, <2>2, <2>3, SumRenamed
    <2> QED BY <1>1, <2>4, <2>5, <2>6, <2>7
<1>5. ASSUME NEW s \in Symbols, h[s] > 0 PROVE r[s] \in 1 .. MaxBits
    <2>1. PICK i \in Symbols : h[s] = t[i].hgram /\ r[s] = t[i].bitlen
        BY <1>3
    <2>2. r[s] \in 1 .. Absent /\ r[s] # Absent
        BY <1>1, <1>5, <2>1 DEF Fit
    <2> QED BY <2>2, Sizes
<1>6. ASSUME n > 2, NEW s \in Symbols, h[s] = 0 PROVE r[s] = Absent
    BY <1>1, <1>3, <1>6 DEF Fit
<1>7. ASSUME NEW s \in Symbols, NEW q \in Symbols, h[s] < h[q] PROVE r[s] >= r[q]
    <2>1. PICK i \in Symbols : h[s] = t[i].hgram /\ r[s] = t[i].bitlen
        BY <1>3
    <2>2. PICK j \in Symbols : h[q] = t[j].hgram /\ r[q] = t[j].bitlen
        BY <1>3
    <2>3. ~ Precedes(t[j], t[i]) /\ i # j
        BY <1>7, <2>1, <2>2 DEF Precedes
    <2>4. i < j
        <3>1. i \in Int /\ j \in Int
            BY Sizes
        <3> QED BY <1>2, <2>3, <3>1
    <2>5. Lens(t)[i] >= Lens(t)[j]
        BY <1>1, <2>4 DEF Cover, Falling
    <2> QED BY <1>1, <2>1, <2>2, <2>5, LensOf
<1> QED BY <1>4, <1>5, <1>6, <1>7

-----------------------------------------------------------------------------
(* The invariant holds at the start *)

LEMMA TypeParts ==
    TypeOK <=>
        /\ hgram \in [Symbols -> Counts]
        /\ temp \in [Symbols -> Entries]
        /\ sym \in 0 .. NSym
        /\ debt \in -MaxSlots .. NSym * MaxSlots
        /\ extents \in [Lengths -> Extents]
        /\ at \in 0 .. MaxBits
        /\ bitlen \in [Symbols -> Lengths]
        /\ pc \in {"sort", "guess", "adjust", "repay", "retake", "retaking",
                   "output", "done", "refused", "undefined"}
BY DEF TypeOK, Entries, Extents

LEMMA InputOf ==
    ASSUME hgram \in [Symbols -> Counts]
    PROVE  /\ Input(hgram) /\ \A s \in Symbols : hgram[s] \in Nat
           /\ Slen \in Nat /\ Slen = SumFunctionOnSet(hgram, Symbols)
<1>1. DOMAIN hgram = Symbols
    OBVIOUS
<1>2. Slen = SumFunctionOnSet(hgram, Symbols)
    BY <1>1 DEF Slen, SumFunction
<1> QED BY <1>2, InputFacts DEF Input, Small

LEMMA NonePlaced ==
    ASSUME NEW h, Input(h), NEW t
    PROVE  Placed(h, t, 0)
<1>1. ASSUME NEW r \in Nat PROVE End(h, r, 0) = Base(h, r) /\ Base(h, r) \in Nat
    <2>1. 0 \in 0 .. NSym
        BY Sizes
    <2>2. Base(h, r) \in Nat
        BY <2>1, Bounds
    <2>3. {s \in 0 .. 0 - 1 : Rank(h[s]) = r} = {}
        <3>1. 0 .. 0 - 1 = {}
            OBVIOUS
        <3> QED BY <3>1
    <2>4. Cardinality({s \in 0 .. 0 - 1 : Rank(h[s]) = r}) = 0
        BY <2>3, FS_EmptySet
    <2> QED BY <2>2, <2>4 DEF End
<1>2. \A r \in Nat : Base(h, r) .. End(h, r, 0) - 1 = {}
    BY <1>1
<1>3. 0 .. 0 - 1 = {}
    OBVIOUS
<1> QED BY <1>2, <1>3 DEF Placed

LEMMA EngelInit == Init => EngelInv
<1> SUFFICES ASSUME NEW input \in [Symbols -> Counts], Start(input) PROVE EngelInv
    BY DEF Init
<1> USE DEF Start
<1>1. hgram \in [Symbols -> Counts]
    OBVIOUS
<1>2. /\ NSym \in Nat /\ NSym >= 2 /\ MaxSlots \in Nat /\ 0 \in Symbols /\ 0 \in Lengths
      /\ 0 \in 0 .. NSym /\ 0 \in 0 .. MaxBits /\ 0 \in -MaxSlots .. NSym * MaxSlots
    <2>1. NSym * MaxSlots >= 0
        BY Sizes, SMT
    <2> QED BY <2>1, Sizes DEF Lengths
<1>3. temp \in [Symbols -> Entries]
    BY <1>2 DEF Entries
<1>4. extents \in [Lengths -> Extents]
    BY <1>2 DEF Extents
<1>5. TypeOK
    BY <1>1, <1>2, <1>3, <1>4, TypeParts
<1>6. Placed(hgram, temp, 0)
    BY <1>1, InputOf, NonePlaced
<1>7. pc = "sort" /\ sym = 0 /\ sym < NSym
    BY <1>2
<1> QED BY <1>5, <1>6, <1>7 DEF EngelInv, Coded

-----------------------------------------------------------------------------
(* It is kept: sorting *)

\* sym is inserted at pos.
Inserted(pos, base, last) ==
    /\ IsPlace(pos, base, last)
    /\ temp' = [i \in Symbols |->
           IF i = pos
           THEN [temp[i] EXCEPT !.hgram = hgram[sym], !.sym = sym]
           ELSE IF i \in pos + 1 .. last THEN temp[i - 1] ELSE temp[i]]

LEMMA SortKeeps == ASSUME EngelInv, SortSym PROVE EngelInv'
<1>1. /\ hgram \in [Symbols -> Counts] /\ temp \in [Symbols -> Entries]
      /\ sym \in 0 .. NSym /\ sym < NSym /\ Placed(hgram, temp, sym)
      /\ pc = "sort"
    BY TypeParts DEF EngelInv, SortSym
<1>2. /\ Input(hgram) /\ NSym \in Nat /\ sym \in 0 .. NSym - 1 /\ sym \in Symbols
    BY <1>1, InputOf, Sizes
<1>3. PICK r : r = Rank(hgram[sym])
    OBVIOUS
<1>4. r \in Nat
    BY <1>2, <1>3, Ranks
<1>5. RankBase(r) = Base(hgram, r) /\ RankCur(r) = End(hgram, r, sym)
    BY DEF RankBase, RankCur, Base, End
<1>6. PICK b, l : b = Base(hgram, r) /\ l = End(hgram, r, sym)
    OBVIOUS
<1>7. PICK pos \in b .. l :
          /\ \A q \in pos .. l - 1 : hgram[sym] < temp[q].hgram
          /\ pos > b => hgram[sym] >= temp[pos - 1].hgram
          /\ temp' = [i \in Symbols |->
                 IF i = pos
                 THEN [temp[i] EXCEPT !.hgram = hgram[sym], !.sym = sym]
                 ELSE IF i \in pos + 1 .. l THEN temp[i - 1] ELSE temp[i]]
    <2>1. \E base \in {RankBase(Rank(hgram[sym]))}, last \in {RankCur(Rank(hgram[sym]))} :
              \E pos \in base .. last : Inserted(pos, base, last)
        BY DEF SortSym, Inserted
    <2>2. PICK base \in {RankBase(Rank(hgram[sym]))}, last \in {RankCur(Rank(hgram[sym]))} :
              \E pos \in base .. last : Inserted(pos, base, last)
        BY <2>1
    <2>3. base = b /\ last = l
        BY <1>3, <1>5, <1>6, <2>2
    <2>4. PICK pos \in b .. l : Inserted(pos, b, l)
        BY <2>2, <2>3
    <2> QED BY <2>4 DEF Inserted, IsPlace
<1>8. b \in Nat /\ l \in Nat /\ b <= l /\ l < NSym
    <2>1. b \in Nat /\ l \in Nat /\ b <= l
        BY <1>1, <1>4, <1>6, Bounds
    <2>2. sym + 1 \in 0 .. NSym
        BY <1>2
    <2>3. End(hgram, r, sym + 1) = l + 1
        BY <1>2, <1>3, <1>4, <1>6, EndStep
    <2>4. l + 1 <= NSym
        BY <1>4, <2>2, <2>3, Bounds
    <2> QED BY <1>2, <2>1, <2>4
<1>9. pos \in Symbols /\ \A i \in pos + 1 .. l : i \in Symbols /\ i - 1 \in Symbols /\ i # pos
    BY <1>2, <1>8, Sizes
<1>10. temp'[pos] \in Entries /\ temp'[pos].hgram = hgram[sym] /\ temp'[pos].sym = sym
    <2>1. PICK e : e = temp[pos]
        OBVIOUS
    <2>2. e \in [hgram : Counts \union {0}, bitlen : Lengths, sym : Symbols]
          /\ hgram[sym] \in Counts /\ sym \in Symbols
        BY <1>1, <1>2, <1>9, <2>1 DEF Entries
    <2>3. PICK c, s : c = hgram[sym] /\ s = sym
        OBVIOUS
    <2>4. PICK f : f = [e EXCEPT !.hgram = c, !.sym = s]
        OBVIOUS
    <2>5. f \in Entries /\ f.hgram = c /\ f.sym = s
        BY <2>2, <2>3, <2>4 DEF Entries
    <2>6. temp'[pos] = f
        BY <1>7, <1>9, <2>1, <2>3, <2>4
    <2> QED BY <2>3, <2>5, <2>6
<1>11. \A i \in pos + 1 .. l : temp'[i] = temp[i - 1]
    BY <1>7, <1>9
<1>12. \A i \in Symbols : i \notin pos .. l => temp'[i] = temp[i]
    <2>1. \A i \in Symbols : i \notin pos .. l => i # pos /\ i \notin pos + 1 .. l
        BY <1>8
    <2> QED BY <1>7, <2>1
<1>13. temp' \in [Symbols -> Entries]
    <2>1. \A i \in Symbols : temp'[i] \in Entries
        <3>1. \A i \in Symbols : i = pos \/ i \in pos + 1 .. l \/ i \notin pos .. l
            BY <1>8, Sizes
        <3>2. \A i \in Symbols : temp[i] \in Entries
            BY <1>1
        <3> QED BY <1>9, <1>10, <1>11, <1>12, <3>1, <3>2
    <2>2. temp' = [i \in Symbols |-> temp'[i]]
        BY <1>7
    <2> QED BY <2>1, <2>2
<1>14. Placed(hgram, temp', sym + 1)
    <2>1. PICK u : u = temp'
        OBVIOUS
    <2>2. \A q \in pos .. End(hgram, r, sym) - 1 : hgram[sym] < temp[q].hgram
        BY <1>6, <1>7
    <2>3. pos > Base(hgram, r) => hgram[sym] >= temp[pos - 1].hgram
        BY <1>6, <1>7
    <2>4. \A i \in pos + 1 .. End(hgram, r, sym) : u[i] = temp[i - 1]
        BY <1>6, <1>11, <2>1
    <2>5. \A i \in Symbols : i \notin pos .. End(hgram, r, sym) => u[i] = temp[i]
        BY <1>6, <1>12, <2>1
    <2>6. u[pos].hgram = hgram[sym] /\ u[pos].sym = sym
        BY <1>10, <2>1
    <2>7. pos \in Base(hgram, r) .. End(hgram, r, sym)
        BY <1>6
    <2>8. Placed(hgram, u, sym + 1)
        BY ONLY <1>1, <1>2, <1>3, <2>2, <2>3, <2>4, <2>5, <2>6, <2>7, Insertion
    <2> QED BY <2>1, <2>8
<1>15. hgram' = hgram /\ sym' = sym + 1 /\ sym' \in 0 .. NSym
       /\ pc' = IF sym' = NSym THEN "guess" ELSE "sort"
    <2>1. hgram' = hgram /\ sym' = sym + 1 /\ pc' = IF sym' = NSym THEN "guess" ELSE "sort"
        BY DEF SortSym
    <2> QED BY <1>2, <2>1
<1>16. TypeOK'
    <2>1. /\ hgram' \in [Symbols -> Counts] /\ pc' \in {"sort", "guess"}
        BY <1>1, <1>15
    <2>2. UNCHANGED <<debt, extents, at, bitlen>>
        BY DEF SortSym
    <2>3. TypeOK
        BY DEF EngelInv
    <2> QED BY <1>13, <1>15, <2>1, <2>2, <2>3 DEF TypeOK, Entries
<1>17. pc' = "sort" => sym' < NSym /\ Placed(hgram', temp', sym')
    <2>1. pc' = "sort" => sym' # NSym
        BY <1>15
    <2> QED BY <1>2, <1>14, <1>15, <2>1
<1>18. pc' # "sort" => InOrder(hgram', temp')
    <2> SUFFICES ASSUME pc' # "sort" PROVE InOrder(hgram', temp')
        OBVIOUS
    <2>1. sym + 1 = NSym
        BY <1>15
    <2>2. Placed(hgram, temp', NSym)
        BY <1>14, <2>1
    <2> QED BY <1>2, <1>15, <2>2, AllPlaced
<1>19. pc' \in {"sort", "guess"}
    BY <1>15
<1> QED BY <1>16, <1>17, <1>18, <1>19 DEF EngelInv, Coded

-----------------------------------------------------------------------------
(* It is kept: coding *)

LEMMA CodeTypes ==
    ASSUME NEW n, NEW t, NEW x, NEW d, CodeOf(n, t, x, d)
    PROVE  /\ t \in [Symbols -> Entries] /\ x \in [Lengths -> Extents]
           /\ d \in -MaxSlots .. NSym * MaxSlots /\ d \in Int
<1>1. t \in [Symbols -> Entries] /\ x \in [Lengths -> Extents] /\ d = Used(Lens(t)) - MaxSlots
    BY DEF CodeOf
<1>2. PICK a, m, p : a = Used(Lens(t)) /\ m = MaxSlots /\ p = NSym * MaxSlots
    OBVIOUS
<1>3. a \in Nat /\ a <= p
    BY <1>1, <1>2, LensOf, UsedRange
<1>4. m \in Nat /\ p \in Nat
    <2>1. NSym \in Nat /\ MaxSlots \in Nat
        BY Sizes
    <2> QED BY <1>2, <2>1
<1>5. a - m \in -m .. p /\ a - m \in Int
    BY <1>3, <1>4
<1> QED BY <1>1, <1>2, <1>5

\* What a step of a coding phase has to keep.
LEMMA CodedKeeps ==
    ASSUME EngelInv, pc # "sort", UNCHANGED <<hgram, sym, bitlen>>,
           CodeOf(Slen, temp', extents', debt'), SameSymbols(temp, temp'),
           at' \in 0 .. MaxBits,
           pc' \in {"adjust", "repay", "retake", "retaking", "output", "undefined"},
           pc' = "adjust" => debt' # 0, pc' = "output" => debt' = 0,
           pc' = "undefined" => Alone,
           pc' = "repay" => Repaying(extents', debt', at'),
           pc' \in {"retake", "retaking"} =>
               RetakingAt(extents', debt', at', pc' = "retaking")
    PROVE  EngelInv'
<1>1. TypeOK /\ InOrder(hgram, temp)
    BY DEF EngelInv
<1>2. hgram' = hgram /\ sym' = sym /\ bitlen' = bitlen
    OBVIOUS
<1>3. /\ temp' \in [Symbols -> Entries] /\ extents' \in [Lengths -> Extents]
      /\ debt' \in -MaxSlots .. NSym * MaxSlots
    BY CodeTypes
<1>4. TypeOK'
    <2>1. pc' \in {"sort", "guess", "adjust", "repay", "retake", "retaking",
                   "output", "done", "refused", "undefined"}
        OBVIOUS
    <2> QED BY <1>1, <1>2, <1>3, <2>1 DEF TypeOK, Entries, Extents
<1>5. InOrder(hgram', temp')
    BY <1>1, <1>2, StillInOrder
<1>6. Slen' = Slen
    BY <1>2 DEF Slen
<1>7. CodeOf(Slen', temp', extents', debt')
    BY <1>6
<1>8. pc' = "undefined" => Alone'
    BY <1>2 DEF Alone
<1>9. pc' # "sort" /\ pc' # "done"
    OBVIOUS
<1> QED BY <1>4, <1>5, <1>7, <1>8, <1>9 DEF EngelInv

LEMMA GuessKeeps == ASSUME EngelInv, Guess PROVE EngelInv'
<1>1. /\ hgram \in [Symbols -> Counts] /\ temp \in [Symbols -> Entries]
      /\ pc = "guess" /\ InOrder(hgram, temp) /\ at \in 0 .. MaxBits
    BY TypeParts DEF EngelInv, Guess
<1>2. /\ temp' = [i \in Symbols |-> [temp[i] EXCEPT !.bitlen = FirstBitlen(temp[i].hgram)]]
      /\ debt' = SlotsUsed(temp') - MaxSlots
      /\ extents' = ExtentsOf(temp')
      /\ pc' = IF debt' = 0 THEN "output" ELSE "adjust"
      /\ UNCHANGED <<hgram, sym, at, bitlen>>
    BY DEF Guess
<1>3. CodeOf(Slen, temp', extents', debt') /\ SameSymbols(temp, temp')
    <2>1. PICK u : u = temp'
        OBVIOUS
    <2>2. u = [i \in Symbols |-> [temp[i] EXCEPT !.bitlen = FirstBitlen(temp[i].hgram)]]
        BY <1>2, <2>1
    <2>3. CodeOf(Slen, u, ExtentsOf(u), SlotsUsed(u) - MaxSlots) /\ SameSymbols(temp, u)
        BY <1>1, <2>2, Guessed
    <2>4. extents' = ExtentsOf(u) /\ debt' = SlotsUsed(u) - MaxSlots
        BY <1>2, <2>1
    <2> QED BY ONLY <2>1, <2>3, <2>4, Zenon
<1>4. pc' \in {"output", "adjust"} /\ (pc' = "adjust" => debt' # 0) /\ (pc' = "output" => debt' = 0)
    BY <1>2
<1>5. pc # "sort" /\ at' \in 0 .. MaxBits /\ pc' # "undefined" /\ pc' # "repay"
      /\ pc' \notin {"retake", "retaking"}
      /\ pc' \in {"adjust", "repay", "retake", "retaking", "output", "undefined"}
    BY <1>1, <1>2, <1>4
<1> QED BY <1>2, <1>3, <1>4, <1>5, CodedKeeps

LEMMA RefuseKeeps == ASSUME EngelInv, Refuse PROVE EngelInv'
<1>1. TypeOK /\ InOrder(hgram, temp) /\ pc' = "refused"
      /\ UNCHANGED <<hgram, temp, sym, debt, extents, at, bitlen>>
    BY DEF EngelInv, Refuse
<1>2. TypeOK'
    BY <1>1 DEF TypeOK
<1> QED BY <1>1, <1>2 DEF EngelInv, Coded

LEMMA OutputKeeps == ASSUME EngelInv, Output PROVE EngelInv'
<1>1. /\ TypeOK /\ hgram \in [Symbols -> Counts] /\ temp \in [Symbols -> Entries]
      /\ InOrder(hgram, temp) /\ pc = "output" /\ debt = 0
      /\ CodeOf(Slen, temp, extents, debt)
    BY TypeParts DEF EngelInv, Output, Coded
<1>2. /\ bitlen' = [s \in Symbols |-> temp[CHOOSE i \in Symbols : temp[i].sym = s].bitlen]
      /\ pc' = "done"
      /\ UNCHANGED <<hgram, temp, sym, debt, extents, at>>
    BY DEF Output
<1>3. /\ bitlen' \in [Symbols -> Lengths]
      /\ \A i \in Symbols : bitlen'[temp[i].sym] = temp[i].bitlen
    BY <1>1, <1>2, InputOf, Outputs
<1>4. TypeOK'
    <2>1. pc' \in {"sort", "guess", "adjust", "repay", "retake", "retaking",
                   "output", "done", "refused", "undefined"}
        BY <1>2
    <2> QED BY <1>1, <1>2, <1>3, <2>1 DEF TypeOK
<1>5. Slen' = Slen
    BY <1>2 DEF Slen
<1>6. CodeOf(Slen', temp', extents', debt') /\ InOrder(hgram', temp')
    BY <1>1, <1>2, <1>5
<1>7. \A i \in Symbols : bitlen'[temp'[i].sym] = temp'[i].bitlen
    BY <1>2, <1>3
<1> QED BY <1>1, <1>2, <1>4, <1>6, <1>7 DEF EngelInv

-----------------------------------------------------------------------------
(* It is kept: adjusting *)

\* Of finitely many one has the greatest value.
LEMMA Greatest ==
    ASSUME NEW S, IsFiniteSet(S), S # {}, NEW f, \A x \in S : f[x] \in Int
    PROVE  \E b \in S : \A c \in S : f[c] <= f[b]
<1> DEFINE Above(b) == {c \in S : f[c] > f[b]}
           T == {Above(b) : b \in S}
<1>1. T \in SUBSET SUBSET S /\ T # {}
    OBVIOUS
<1>2. PICK X \in T : \A Y \in T : Y \subseteq X => Y = X
    <2> HIDE DEF T
    <2> QED BY <1>1, LeastSet
<1>3. PICK b \in S : X = Above(b)
    BY <1>2
<1>4. ASSUME NEW c \in S, f[c] > f[b] PROVE FALSE
    <2>1. Above(c) \in T
        OBVIOUS
    <2>2. Above(c) \subseteq Above(b) /\ c \in Above(b) /\ c \notin Above(c)
        BY <1>4
    <2>3. Above(c) = Above(b)
        BY <1>2, <1>3, <2>1, <2>2
    <2> QED BY <2>2, <2>3
<1> QED BY <1>4

LEMMA CodingFacts ==
    ASSUME EngelInv, pc \in Adjusting
    PROVE  /\ hgram \in [Symbols -> Counts] /\ \A s \in Symbols : hgram[s] \in Nat
           /\ temp \in [Symbols -> Entries] /\ extents \in [Lengths -> Extents]
           /\ InOrder(hgram, temp) /\ Slen \in Nat /\ Slen = SumFunctionOnSet(hgram, Symbols)
           /\ CodeOf(Slen, temp, extents, debt) /\ debt \in Int /\ at \in 0 .. MaxBits
           /\ Cover(Lens(temp), extents) /\ pc # "sort"
           /\ \A i \in Symbols : temp[i].hgram \in Nat /\ temp[i].bitlen \in Nat
<1>1. pc \in Coded /\ pc # "sort"
    BY DEF Adjusting, Coded
<1>2. /\ hgram \in [Symbols -> Counts] /\ temp \in [Symbols -> Entries]
      /\ extents \in [Lengths -> Extents] /\ at \in 0 .. MaxBits
      /\ InOrder(hgram, temp) /\ CodeOf(Slen, temp, extents, debt)
    BY <1>1, TypeParts DEF EngelInv
<1>3. \A s \in Symbols : hgram[s] \in Nat /\ Slen \in Nat /\ Slen = SumFunctionOnSet(hgram, Symbols)
    BY <1>2, InputOf
<1>4. debt \in Int
    BY <1>2, CodeTypes
<1>5. \A i \in Symbols : temp[i].hgram \in Nat /\ temp[i].bitlen \in Nat
    <2>1. \A i \in Symbols : temp[i].hgram \in Nat
        BY <1>2, <1>3 DEF InOrder
    <2>2. \A b \in Lengths : b \in Nat
        BY DEF Lengths
    <2>3. \A i \in Symbols : temp[i].bitlen \in Lengths
        BY <1>2 DEF Entries
    <2> QED BY <2>1, <2>2, <2>3
<1>6. Cover(Lens(temp), extents)
    BY <1>2 DEF CodeOf
<1>7. 0 \in Symbols
    BY Sizes
<1> QED BY <1>1, <1>2, <1>3, <1>4, <1>5, <1>6, <1>7, InputOf

\* The ends of an extent are entries.
LEMMA EntryEnds ==
    ASSUME NEW L, NEW x \in [Lengths -> Extents], Cover(L, x), NEW b \in Lengths, x[b].len > 0
    PROVE  x[b].ofs \in Symbols /\ x[b].ofs + x[b].len - 1 \in Symbols
<1>1. PICK o, l : o = x[b].ofs /\ l = x[b].len
    OBVIOUS
<1>2. o \in Nat /\ l \in Nat /\ l > 0 /\ NSym \in Nat
    <2>1. o \in Nat /\ l \in Nat
        BY <1>1, Parts
    <2> QED BY <1>1, <2>1, Sizes
<1>3. Within(L, b, o, l)
    BY <1>1 DEF Cover
<1>4. o + l <= NSym
    BY <1>3 DEF Within
<1>5. o \in Symbols /\ o + l - 1 \in Symbols
    BY <1>2, <1>4, Sizes
<1> QED BY <1>1, <1>5

LEMMA CostType ==
    ASSUME NEW i, temp[i].hgram \in Nat, temp[i].bitlen \in Nat
    PROVE  Cost(i) \in Int
<1>1. PICK c, p : c = temp[i].hgram /\ p = 2^temp[i].bitlen
    OBVIOUS
<1>2. c \in Nat /\ p \in Nat
    BY <1>1, PowerStep
<1>3. c * p \in Int
    BY <1>2
<1> QED BY <1>1, <1>3 DEF Cost

LEMMA CheapestIs ==
    ASSUME EngelInv, pc \in Adjusting, Lengthenable # {}
    PROVE  /\ Cheapest \in 1 .. MaxBits - 1 /\ extents[Cheapest].len > 0
           /\ Slots(Cheapest + 1) < 2 * debt
<1> DEFINE f == [b \in Lengthenable |-> - Cost(Foremost(b))]
           S == {b \in Lengthenable : \A c \in Lengthenable : Cost(Foremost(b)) <= Cost(Foremost(c))}
<1>1. Lengthenable \in SUBSET (0 .. MaxBits) /\ MaxBits \in Nat
    BY Sizes DEF Lengthenable
<1>2. \A b \in Lengthenable : b \in Lengths /\ extents[b].len > 0
    BY Sizes DEF Lengthenable, Lengths
<1>3. \A b \in Lengthenable : Cost(Foremost(b)) \in Int
    BY <1>2, CodingFacts, EntryEnds, CostType DEF Foremost
<1>4. \E b \in Lengthenable : \A c \in Lengthenable : f[c] <= f[b]
    <2>1. IsFiniteSet(Lengthenable)
        <3>1. IsFiniteSet(0 .. MaxBits)
            BY <1>1, FS_Interval
        <3> QED BY <1>1, <3>1, FS_Subset
    <2>2. \A b \in Lengthenable : f[b] \in Int
        BY <1>3
    <2> HIDE DEF f
    <2> QED BY <2>1, <2>2, Greatest
<1>5. S # {}
    BY <1>3, <1>4
<1>6. S \in SUBSET (0 .. MaxBits)
    BY <1>1
<1>7. Cheapest = Max(S)
    BY DEF Cheapest
<1>8. Cheapest \in S
    <2> HIDE DEF S
    <2> QED BY <1>1, <1>5, <1>6, <1>7, GreatestOf
<1>9. Cheapest \in Lengthenable
    BY <1>8
<1> QED BY <1>9 DEF Lengthenable

LEMMA DearestIs ==
    ASSUME EngelInv, pc \in Adjusting, Shortenable # {}
    PROVE  Dearest \in 2 .. MaxBits /\ extents[Dearest].len > 0
<1> DEFINE f == [b \in Shortenable |-> Cost(Hindmost(b))]
           S == {b \in Shortenable : \A c \in Shortenable : Cost(Hindmost(b)) >= Cost(Hindmost(c))}
<1>1. Shortenable \in SUBSET (0 .. MaxBits) /\ MaxBits \in Nat
    BY Sizes DEF Shortenable
<1>2. \A b \in Shortenable : b \in Lengths /\ extents[b].len > 0
    BY Sizes DEF Shortenable, Lengths
<1>3. \A b \in Shortenable : Cost(Hindmost(b)) \in Int
    BY <1>2, CodingFacts, EntryEnds, CostType DEF Hindmost
<1>4. \E b \in Shortenable : \A c \in Shortenable : f[c] <= f[b]
    <2>1. IsFiniteSet(Shortenable)
        <3>1. IsFiniteSet(0 .. MaxBits)
            BY <1>1, FS_Interval
        <3> QED BY <1>1, <3>1, FS_Subset
    <2>2. \A b \in Shortenable : f[b] \in Int
        BY <1>3
    <2> HIDE DEF f
    <2> QED BY <2>1, <2>2, Greatest
<1>5. S # {}
    BY <1>3, <1>4
<1>6. S \in SUBSET (0 .. MaxBits)
    BY <1>1
<1>7. Dearest = Max(S)
    BY DEF Dearest
<1>8. Dearest \in S
    <2> HIDE DEF S
    <2> QED BY <1>1, <1>5, <1>6, <1>7, GreatestOf
<1>9. Dearest \in Shortenable
    BY <1>8
<1> QED BY <1>9 DEF Shortenable

LEMMA LengthenFacts ==
    ASSUME EngelInv, pc \in Adjusting, NEW b \in 1 .. MaxBits - 1, extents[b].len > 0, Lengthen(b)
    PROVE  /\ CodeOf(Slen, temp', extents', debt') /\ SameSymbols(temp, temp')
           /\ \A c \in Lengths : c # b /\ c # b + 1 => extents'[c] = extents[c]
           /\ debt' = debt - Slots(b + 1) /\ UNCHANGED <<hgram, sym, bitlen>>
<1>1. LengthenedTo(temp, extents, b, temp', extents')
    BY DEF Lengthen, LengthenedTo, Foremost
<1>2. debt' = debt - Slots(b + 1) /\ UNCHANGED <<hgram, sym, bitlen>>
    BY DEF Lengthen
<1> QED BY <1>1, <1>2, CodingFacts, LongerCode

LEMMA ShortenFacts ==
    ASSUME EngelInv, pc \in Adjusting, NEW b \in 2 .. MaxBits, extents[b].len > 0, Shorten(b)
    PROVE  /\ CodeOf(Slen, temp', extents', debt') /\ SameSymbols(temp, temp')
           /\ \A c \in Lengths : c # b /\ c # b - 1 => extents'[c] = extents[c]
           /\ debt' = debt + Slots(b) /\ UNCHANGED <<hgram, sym, bitlen>>
<1>1. PICK a \in 1 .. MaxBits - 1 : a = b - 1 /\ b = a + 1
    <2>1. b - 1 \in 1 .. MaxBits - 1 /\ b = (b - 1) + 1
        BY Sizes
    <2> QED BY <2>1
<1>2. ShortenedTo(temp, extents, a, temp', extents')
    BY <1>1 DEF Shorten, ShortenedTo, Hindmost
<1>3. debt' = debt + Slots(b) /\ UNCHANGED <<hgram, sym, bitlen>>
    BY DEF Shorten
<1>4. extents[a + 1].len > 0 /\ Slots(b) = Slots(a + 1)
    BY <1>1
<1>5. /\ CodeOf(Slen, temp', extents', debt + Slots(a + 1)) /\ SameSymbols(temp, temp')
      /\ \A c \in Lengths : c # a /\ c # a + 1 => extents'[c] = extents[c]
    BY <1>2, <1>4, CodingFacts, ShorterCode
<1> QED BY <1>1, <1>3, <1>4, <1>5

LEMMA LongerKeeps == ASSUME EngelInv, Longer PROVE EngelInv'
<1>1. /\ pc = "adjust" /\ Lengthenable # {} /\ Lengthen(Cheapest)
      /\ pc' = IF debt' = 0 THEN "output" ELSE "adjust"
      /\ at' = at
    BY DEF Longer
<1>2. pc \in Adjusting
    BY <1>1 DEF Adjusting
<1>3. PICK b : b = Cheapest
    OBVIOUS
<1>4. b \in 1 .. MaxBits - 1 /\ extents[b].len > 0 /\ Lengthen(b)
    BY <1>1, <1>2, <1>3, CheapestIs
<1>5. /\ CodeOf(Slen, temp', extents', debt') /\ SameSymbols(temp, temp')
      /\ UNCHANGED <<hgram, sym, bitlen>>
    BY <1>2, <1>4, LengthenFacts
<1>6. at' \in 0 .. MaxBits
    BY <1>1, <1>2, CodingFacts
<1>7. /\ pc # "sort" /\ pc' \in {"adjust", "output"}
      /\ (pc' = "adjust" => debt' # 0) /\ (pc' = "output" => debt' = 0)
    BY <1>1
<1> QED BY <1>5, <1>6, <1>7, CodedKeeps

LEMMA ShorterKeeps == ASSUME EngelInv, Shorter PROVE EngelInv'
<1>1. /\ pc = "adjust" /\ Shortenable # {} /\ Shorten(Dearest)
      /\ pc' = IF debt' = 0 THEN "output" ELSE "adjust"
      /\ at' = at
    BY DEF Shorter
<1>2. pc \in Adjusting
    BY <1>1 DEF Adjusting
<1>3. PICK b : b = Dearest
    OBVIOUS
<1>4. b \in 2 .. MaxBits /\ extents[b].len > 0 /\ Shorten(b)
    BY <1>1, <1>2, <1>3, DearestIs
<1>5. /\ CodeOf(Slen, temp', extents', debt') /\ SameSymbols(temp, temp')
      /\ UNCHANGED <<hgram, sym, bitlen>>
    BY <1>2, <1>4, ShortenFacts
<1>6. at' \in 0 .. MaxBits
    BY <1>1, <1>2, CodingFacts
<1>7. /\ pc # "sort" /\ pc' \in {"adjust", "output"}
      /\ (pc' = "adjust" => debt' # 0) /\ (pc' = "output" => debt' = 0)
    BY <1>1
<1> QED BY <1>5, <1>6, <1>7, CodedKeeps

\* What an adjusting step that changes no symbol has to keep.
LEMMA StillKeeps ==
    ASSUME EngelInv, pc \in Adjusting, UNCHANGED <<hgram, temp, sym, debt, extents, bitlen>>,
           at' \in 0 .. MaxBits,
           pc' \in {"repay", "retake", "retaking", "undefined"},
           pc' = "undefined" => Alone,
           pc' = "repay" => Repaying(extents, debt, at'),
           pc' \in {"retake", "retaking"} => RetakingAt(extents, debt, at', pc' = "retaking")
    PROVE  EngelInv'
<1>1. CodeOf(Slen, temp', extents', debt') /\ extents' = extents /\ debt' = debt
    BY CodingFacts
<1>2. SameSymbols(temp, temp')
    BY DEF SameSymbols
<1>3. pc # "sort" /\ pc' # "adjust" /\ pc' # "output"
      /\ pc' \in {"adjust", "repay", "retake", "retaking", "output", "undefined"}
    BY CodingFacts
<1>4. /\ pc' = "repay" => Repaying(extents', debt', at')
      /\ pc' \in {"retake", "retaking"} => RetakingAt(extents', debt', at', pc' = "retaking")
    BY <1>1
<1> QED BY <1>1, <1>2, <1>3, <1>4, CodedKeeps

LEMMA GiveUpKeeps == ASSUME EngelInv, GiveUp PROVE EngelInv'
<1>1. /\ pc = "adjust" /\ debt > 0 /\ Lengthenable = {} /\ at' = MaxBits - 1 /\ pc' = "repay"
      /\ UNCHANGED <<hgram, temp, sym, debt, extents, bitlen>>
    BY DEF GiveUp
<1>2. pc \in Adjusting
    BY <1>1 DEF Adjusting
<1>3. debt \in Int /\ MaxBits - 1 \in 1 .. MaxBits - 1 /\ MaxBits - 1 \in 0 .. MaxBits
    BY <1>2, CodingFacts, Sizes
<1>4. \A b \in 1 .. MaxBits - 1 : extents[b].len > 0 => Slots(b + 1) >= 2 * debt
    <2> SUFFICES ASSUME NEW b \in 1 .. MaxBits - 1, extents[b].len > 0
                 PROVE  Slots(b + 1) >= 2 * debt
        OBVIOUS
    <2>1. ~ (Slots(b + 1) < 2 * debt)
        BY <1>1 DEF Lengthenable
    <2>2. Slots(b + 1) \in Nat
        <3>1. b + 1 \in 1 .. MaxBits
            BY Sizes
        <3> QED BY <3>1, SlotsOrder
    <2> QED BY <1>3, <2>1, <2>2
<1>5. (MaxBits - 1) + 1 .. MaxBits - 1 = {}
    BY Sizes
<1>6. Repaying(extents, debt, at')
    BY <1>1, <1>3, <1>4, <1>5 DEF Repaying
<1>7. pc' # "undefined" /\ pc' \notin {"retake", "retaking"} /\ at' \in 0 .. MaxBits
    BY <1>1, <1>3
<1> QED BY <1>1, <1>2, <1>6, <1>7, StillKeeps

\* Only a symbol that is alone leaves nothing to be made shorter.
LEMMA OutOfBoundsKeeps == ASSUME EngelInv, OutOfBounds PROVE EngelInv'
<1>1. /\ pc = "adjust" /\ (debt < 0 => Shortenable = {}) /\ pc' = "undefined"
      /\ (debt > 0 => Lengthenable = {} /\ extents[MaxBits - 1].len > 0)
      /\ UNCHANGED <<hgram, temp, sym, debt, extents, at, bitlen>>
    BY DEF OutOfBounds
<1>2. pc \in Adjusting /\ debt # 0
    BY <1>1 DEF Adjusting, EngelInv
<1>3. debt \in Int
    BY <1>2, CodingFacts
<1>4. ~ (debt > 0)
    <2> SUFFICES ASSUME debt > 0 PROVE FALSE
        OBVIOUS
    <2>1. PICK b : b = MaxBits - 1
        OBVIOUS
    <2>2. b \in 1 .. MaxBits - 1 /\ b + 1 = MaxBits
        BY <2>1, Sizes
    <2>3. Slots(b + 1) = 1
        BY <2>2, SlotsFacts
    <2>4. Slots(b + 1) < 2 * debt
        BY <1>3, <2>3
    <2>5. b \in Lengthenable
        BY <1>1, <2>1, <2>2, <2>4 DEF Lengthenable
    <2> QED BY <1>1, <2>5
<1>5. debt < 0 /\ Shortenable = {}
    BY <1>1, <1>2, <1>3, <1>4
<1>6. ASSUME NEW b \in 2 .. MaxBits, extents[b].len > 0 PROVE Slots(b) >= 2 * (-debt)
    <2>1. ~ (Slots(b) < 2 * (-debt))
        BY <1>5, <1>6 DEF Shortenable
    <2>2. Slots(b) \in Nat
        <3>1. b \in 1 .. MaxBits
            BY Sizes
        <3> QED BY <3>1, SlotsOrder
    <2> QED BY <1>3, <2>1, <2>2
<1>7. Alone
    BY <1>2, <1>5, <1>6, CodingFacts, NothingShorter DEF Alone
<1>8. at' \in 0 .. MaxBits
    BY <1>1, <1>2, CodingFacts
<1> QED BY <1>1, <1>2, <1>7, <1>8, StillKeeps

LEMMA RepayKeeps == ASSUME EngelInv, Repay PROVE EngelInv'
<1>1. /\ pc = "repay" /\ extents[at].len > 0 /\ Lengthen(at)
      /\ pc' = IF debt' > 0 THEN "repay" ELSE IF debt' = 0 THEN "output" ELSE "retake"
      /\ at' = IF debt' > 0 THEN at ELSE 1
    BY DEF Repay
<1>2. pc \in Adjusting
    BY <1>1 DEF Adjusting
<1>3. Repaying(extents, debt, at)
    BY <1>1 DEF EngelInv
<1>4. at \in 1 .. MaxBits - 1 /\ debt \in Int
    BY <1>2, <1>3, CodingFacts DEF Repaying
<1>5. /\ CodeOf(Slen, temp', extents', debt') /\ SameSymbols(temp, temp')
      /\ \A c \in Lengths : c # at /\ c # at + 1 => extents'[c] = extents[c]
      /\ debt' = debt - Slots(at + 1) /\ UNCHANGED <<hgram, sym, bitlen>>
    BY <1>1, <1>2, <1>4, LengthenFacts
<1>6. debt' \in Int /\ debt' < 0 /\ RetakingAt(extents', debt', 1, FALSE)
    <2>1. PICK y, e : y = extents' /\ e = debt'
        OBVIOUS
    <2>2. \A c \in Lengths : c # at /\ c # at + 1 => y[c] = extents[c]
        BY <1>5, <2>1
    <2>3. e = debt - Slots(at + 1)
        BY <1>5, <2>1
    <2>4. e \in Int /\ e < 0 /\ RetakingAt(y, e, 1, FALSE)
        BY <1>1, <1>3, <1>4, <2>2, <2>3, FirstRepay
    <2> QED BY <2>1, <2>4
<1>7. pc' = "retake" /\ at' = 1
    BY <1>1, <1>6
<1>8. (pc' = "retaking") = FALSE
    BY <1>7
<1>9. RetakingAt(extents', debt', at', pc' = "retaking")
    BY <1>6, <1>7, <1>8
<1>10. pc # "sort" /\ at' \in 0 .. MaxBits
       /\ pc' \in {"adjust", "repay", "retake", "retaking", "output", "undefined"}
       /\ pc' # "adjust" /\ pc' # "output" /\ pc' # "undefined" /\ pc' # "repay"
    BY <1>1, <1>7, Sizes
<1> QED BY <1>5, <1>9, <1>10, CodedKeeps

LEMMA RepayNextKeeps == ASSUME EngelInv, RepayNext PROVE EngelInv'
<1>1. /\ pc = "repay" /\ extents[at].len = 0 /\ pc' = pc
      /\ at' = IF at = 1 THEN MaxBits - 1 ELSE at - 1
      /\ UNCHANGED <<hgram, temp, sym, debt, extents, bitlen>>
    BY DEF RepayNext
<1>2. pc \in Adjusting
    BY <1>1 DEF Adjusting
<1>3. /\ debt > 0 /\ at \in 1 .. MaxBits - 1
      /\ \A b \in 1 .. MaxBits - 1 : extents[b].len > 0 => Slots(b + 1) >= 2 * debt
      /\ \A b \in at + 1 .. MaxBits - 1 : extents[b].len = 0
    BY <1>1 DEF EngelInv, Repaying
<1>4. at' \in 1 .. MaxBits - 1 /\ at' \in 0 .. MaxBits
    BY <1>1, <1>3, Sizes
<1>5. \A b \in at' + 1 .. MaxBits - 1 : extents[b].len = 0
    <2>1. CASE at = 1
        <3>1. at' + 1 .. MaxBits - 1 = {}
            BY <1>1, <2>1, Sizes
        <3> QED BY <3>1
    <2>2. CASE at # 1
        <3>1. \A b \in at' + 1 .. MaxBits - 1 : b = at \/ b \in at + 1 .. MaxBits - 1
            BY <1>1, <1>3, <2>2, Sizes
        <3> QED BY <1>1, <1>3, <3>1
    <2> QED BY <2>1, <2>2
<1>6. Repaying(extents, debt, at')
    BY <1>3, <1>4, <1>5 DEF Repaying
<1>7. pc' = "repay" /\ pc' # "undefined" /\ pc' \notin {"retake", "retaking"}
    BY <1>1
<1> QED BY <1>1, <1>2, <1>4, <1>6, <1>7, StillKeeps

LEMMA RetakeEnterKeeps == ASSUME EngelInv, RetakeEnter PROVE EngelInv'
<1>1. /\ pc = "retake" /\ Slots(at) <= -debt /\ pc' = "retaking"
      /\ UNCHANGED <<hgram, temp, sym, debt, extents, at, bitlen>>
    BY DEF RetakeEnter
<1>2. pc \in Adjusting /\ (pc = "retaking") = FALSE /\ (pc' = "retaking") = TRUE
    BY <1>1 DEF Adjusting
<1>3. RetakingAt(extents, debt, at, FALSE)
    BY <1>1, <1>2 DEF EngelInv
<1>4. RetakingAt(extents, debt, at', pc' = "retaking")
    BY <1>1, <1>2, <1>3, Entered
<1>5. at' \in 0 .. MaxBits /\ pc' # "repay" /\ pc' # "undefined"
    BY <1>1, <1>2, CodingFacts
<1> QED BY <1>1, <1>2, <1>4, <1>5, StillKeeps

LEMMA NextLength ==
    ASSUME at \in 1 .. MaxBits, RetakeNext
    PROVE  at' \in 1 .. MaxBits /\ at' \in 0 .. MaxBits
BY Sizes DEF RetakeNext

LEMMA RetakeSkipKeeps == ASSUME EngelInv, RetakeSkip PROVE EngelInv'
<1>1. /\ pc = "retake" /\ RetakeNext /\ pc' = pc
      /\ UNCHANGED <<hgram, temp, sym, debt, extents, bitlen>>
    BY DEF RetakeSkip
<1>2. pc \in Adjusting /\ (pc = "retaking") = FALSE /\ (pc' = "retaking") = FALSE
    BY <1>1 DEF Adjusting
<1>3. RetakingAt(extents, debt, at, FALSE)
    BY <1>1, <1>2 DEF EngelInv
<1>4. at' \in 1 .. MaxBits /\ at' \in 0 .. MaxBits
    BY <1>1, <1>3, NextLength DEF RetakingAt
<1>5. RetakingAt(extents, debt, at', pc' = "retaking")
    BY <1>2, <1>3, <1>4, Entered
<1>6. pc' = "retake" /\ pc' # "repay" /\ pc' # "undefined"
    BY <1>1
<1> QED BY <1>1, <1>2, <1>4, <1>5, <1>6, StillKeeps

LEMMA RetakeKeeps == ASSUME EngelInv, Retake PROVE EngelInv'
<1>1. /\ pc = "retaking" /\ extents[at].len > 0 /\ Shorten(at)
      /\ pc' = IF debt' >= 0 THEN "output" ELSE "retaking"
      /\ at' = at
    BY DEF Retake
<1>2. pc \in Adjusting /\ (pc = "retaking") = TRUE
    BY <1>1 DEF Adjusting
<1>3. RetakingAt(extents, debt, at, TRUE)
    BY <1>1, <1>2 DEF EngelInv
<1>4. at \in 2 .. MaxBits
    <2>1. -debt < Slots(1) /\ at \in 1 .. MaxBits /\ Slots(at) <= -debt
        BY <1>3 DEF RetakingAt
    <2>2. Slots(1) \in Nat /\ debt \in Int /\ MaxBits \in Nat
        <3>1. 1 \in 1 .. MaxBits
            BY Sizes
        <3> QED BY <1>2, <3>1, CodingFacts, SlotsOrder, Sizes
    <2>3. at # 1
        BY <2>1, <2>2
    <2> QED BY <2>1, <2>2, <2>3
<1>5. /\ CodeOf(Slen, temp', extents', debt') /\ SameSymbols(temp, temp')
      /\ \A c \in Lengths : c # at /\ c # at - 1 => extents'[c] = extents[c]
      /\ debt' = debt + Slots(at) /\ UNCHANGED <<hgram, sym, bitlen>>
    BY <1>1, <1>2, <1>4, ShortenFacts
<1>6. debt' \in Int /\ debt' <= 0 /\ (debt' < 0 => RetakingAt(extents', debt', at, TRUE))
    <2>1. PICK y, e, u : y = extents' /\ e = debt' /\ u = temp'
        OBVIOUS
    <2>2. \A c \in Lengths : c # at /\ c # at - 1 => y[c] = extents[c]
        BY <1>5, <2>1
    <2>3. e = debt + Slots(at) /\ CodeOf(Slen, u, y, e)
        BY <1>5, <2>1
    <2>4. CodeOf(Slen, temp, extents, debt)
        BY <1>2, CodingFacts
    <2>5. e \in Int /\ e <= 0 /\ (e < 0 => RetakingAt(y, e, at, TRUE))
        BY <1>1, <1>3, <2>2, <2>3, <2>4, Retaken
    <2> QED BY <2>1, <2>5
<1>7. /\ pc' = "output" => debt' = 0
      /\ pc' # "output" => pc' = "retaking" /\ debt' < 0
    BY <1>1, <1>6
<1>8. pc' \in {"retake", "retaking"} => RetakingAt(extents', debt', at', pc' = "retaking")
    <2> SUFFICES ASSUME pc' \in {"retake", "retaking"}
                 PROVE  RetakingAt(extents', debt', at', pc' = "retaking")
        OBVIOUS
    <2>1. pc' = "retaking" /\ debt' < 0 /\ (pc' = "retaking") = TRUE
        BY <1>7
    <2> QED BY <1>1, <1>6, <2>1
<1>9. pc # "sort" /\ at' \in 0 .. MaxBits /\ pc' \in {"retaking", "output"}
    BY <1>1, <1>2, <1>7, CodingFacts
<1> QED BY <1>5, <1>7, <1>8, <1>9, CodedKeeps

LEMMA RetakeLeaveKeeps == ASSUME EngelInv, RetakeLeave PROVE EngelInv'
<1>1. /\ pc = "retaking" /\ extents[at].len = 0 /\ RetakeNext /\ pc' = "retake"
      /\ UNCHANGED <<hgram, temp, sym, debt, extents, bitlen>>
    BY DEF RetakeLeave
<1>2. pc \in Adjusting /\ (pc = "retaking") = TRUE /\ (pc' = "retaking") = FALSE
    BY <1>1 DEF Adjusting
<1>3. RetakingAt(extents, debt, at, TRUE)
    BY <1>1, <1>2 DEF EngelInv
<1>4. at' \in 1 .. MaxBits /\ at' \in 0 .. MaxBits
    BY <1>1, <1>3, NextLength DEF RetakingAt
<1>5. RetakingAt(extents, debt, at', FALSE)
    BY <1>1, <1>2, <1>3, <1>4, CodingFacts, Left
<1>6. RetakingAt(extents, debt, at', pc' = "retaking") /\ pc' # "repay" /\ pc' # "undefined"
    BY <1>1, <1>2, <1>5
<1> QED BY <1>1, <1>2, <1>4, <1>6, StillKeeps

-----------------------------------------------------------------------------
(* The theorems *)

LEMMA EngelNext == EngelInv /\ [Next]_vars => EngelInv'
<1> SUFFICES ASSUME EngelInv, [Next]_vars PROVE EngelInv'
    OBVIOUS
<1>1. CASE UNCHANGED vars
    <2>1. UNCHANGED <<hgram, temp, sym, debt, extents, at, bitlen, pc>>
        BY <1>1 DEF vars
    <2>2. Slen' = Slen
        BY <2>1 DEF Slen
    <2>3. TypeOK'
        BY <2>1 DEF EngelInv, TypeOK
    <2> QED BY <2>1, <2>2, <2>3 DEF EngelInv, Alone
<1>2. CASE Next
    BY <1>2, SortKeeps, RefuseKeeps, GuessKeeps, LongerKeeps, ShorterKeeps, GiveUpKeeps,
       OutOfBoundsKeeps, RepayKeeps, RepayNextKeeps, RetakeEnterKeeps, RetakeSkipKeeps,
       RetakeKeeps, RetakeLeaveKeeps, OutputKeeps DEF Next
<1> QED BY <1>1, <1>2

\* The invariant holds for every number of symbols, bound and input.
THEOREM Inductive == Spec => []EngelInv
BY EngelInit, EngelNext, PTL DEF Spec

\* Types of engel_coding.c's state: no index or length leaves its array, and
\* debt, an int, stays within the code words of all symbols.
THEOREM EngelTyped == Spec => []TypeOK
<1>1. EngelInv => TypeOK
    BY DEF EngelInv
<1> QED BY <1>1, Inductive, PTL

\* sort_syms() sorts, whatever the counts: once every symbol is placed, temp[]
\* lists each of them once, by count and then by number.
THEOREM Sorts == Spec => []Sorted
<1>1. EngelInv => Sorted
    <2> SUFFICES ASSUME EngelInv, pc # "sort"
                 PROVE  /\ \A i \in Symbols : temp[i].hgram = hgram[temp[i].sym]
                        /\ \A i, j \in Symbols : i < j =>
                              \/ temp[i].hgram < temp[j].hgram
                              \/ temp[i].hgram = temp[j].hgram /\ temp[i].sym < temp[j].sym
        BY DEF Sorted
    <2>1. InOrder(hgram, temp)
        BY DEF EngelInv
    <2> QED BY <2>1 DEF InOrder, Precedes
<1> QED BY <1>1, Inductive, PTL

\* The extents of adjust_bitlen() cover the entries of their lengths after every
\* move of an entry from one to another.
THEOREM ExtentsHold == Spec => []ExtentInv
<1>1. EngelInv => ExtentInv
    <2> SUFFICES ASSUME EngelInv, pc \in Adjusting PROVE ExtentInv
        BY DEF ExtentInv
    <2>1. Covered(temp, extents)
        BY CodingFacts, CoveredIsCover
    <2> QED BY <2>1 DEF Covered, ExtentInv
<1> QED BY <1>1, Inductive, PTL

\* The program ends with a complete prefix code, whichever of its loops ends it.
THEOREM EndsComplete == Spec => []CompleteCode
<1>1. EngelInv => CompleteCode
    <2> SUFFICES ASSUME EngelInv, pc = "done" PROVE CompleteCode
        BY DEF CompleteCode
    <2>1. /\ hgram \in [Symbols -> Counts] /\ InOrder(hgram, temp)
          /\ CodeOf(Slen, temp, extents, 0)
          /\ \A i \in Symbols : bitlen[temp[i].sym] = temp[i].bitlen
        <3>1. pc # "sort" /\ pc \in Coded /\ debt = 0
            BY DEF EngelInv, Coded
        <3> QED BY <3>1, TypeParts DEF EngelInv
    <2>2. \A s \in Symbols : hgram[s] \in Nat
        BY <2>1, InputOf
    <2>3. Slen \in Nat
        BY <2>1, InputOf
    <2> QED BY <2>1, <2>2, <2>3, Complete DEF CompleteCode
<1> QED BY <1>1, Inductive, PTL

\* adjust_bitlen() only fails to find a symbol to change, and goes out of the
\* bounds of its arrays, for an input that repeats a single symbol.
THEOREM UndefinedAlone == Spec => []OnlyAloneUndefined
<1>1. EngelInv => OnlyAloneUndefined
    BY DEF EngelInv, OnlyAloneUndefined, Alone
<1> QED BY <1>1, Inductive, PTL
=============================================================================
