------------------------------ MODULE CodeProofs ------------------------------
(***************************************************************************)
(* Proofs about the programs that compute and use check bits: crc64.c, and *)
(* the two codes of ldpc.c, SECDED and alpha.                              *)
(***************************************************************************)
EXTENDS Crc64, Secded, ChipsApart, Induction, SequenceTheorems

-----------------------------------------------------------------------------
(* Crc64, for every length of the message and every alignment.             *)
(*                                                                         *)
(* The inductive invariant says which terms each register holds.  With c   *)
(* registers of w bytes, register k holds the bytes of every c-th block of *)
(* w bytes, so that the registers of the last c blocks are told apart by   *)
(* the exponent: in each register it is less than w modulo c * w.  That is *)
(* what the constants must achieve, and FoldAssumption says they do.       *)


\* The byte of the message at whose place a term stands.
Byte(i) == IF i < 0 THEN i + 8 ELSE i

Width == IF routine = "clmul" THEN 16 ELSE 64

\* How many registers are in use.
InUse ==
    IF stage = "loop8" THEN 8
    ELSE IF stage \in {"loop4", "more4", "chain4"} THEN 4
    ELSE IF stage \in {"more2", "chain2"} THEN 2
    ELSE 1

\* What register k of c registers holds when everything before d is read.
Register(d, k, c, w) ==
    {t \in (-8 .. d - 1) \X Nat :
        t[2] = d - (c - k) * w - 1 - Byte(t[1]) /\ t[2] % (c * w) < w}

\* c registers of w bytes hold what was read.
Holds(c, w) == \A k \in 1 .. c : acc[k] = Register(data, k, c, w)

Reading ==
    /\ acc \in [Registers -> SUBSET (Int \X Int)]
    /\ data \in Nat /\ n \in Nat /\ data + n = len /\ data >= 8

\* What is left of the message at each stage.
Limits ==
    /\ routine = "clmul" =>
         /\ stage # "loop4"
         /\ stage = "more4" => n < 128
         /\ stage \in {"chain4", "more2"} => n < 64
         /\ stage \in {"chain2", "more1"} => n < 32
         /\ stage = "tail" => n <= 24
    /\ routine = "pclmul" =>
         /\ stage \notin {"loop8", "more4", "chain4"}
         /\ stage = "more2" => n < 256
         /\ stage \in {"chain2", "more1"} => n < 128
         /\ stage = "tail" => n < 64

\* The inductive invariant.
CrcInv ==
    /\ CrcTypeOK
    /\ data + n = len
    /\ stage = "start" => data = 0
    /\ stage \notin {"start", "done"} => Reading /\ Holds(InUse, Width) /\ Limits
    /\ EachByteOnce

-----------------------------------------------------------------------------
(* Arithmetic *)

LEMMA Remainders ==
    ASSUME NEW m \in {16, 32, 64, 128, 256}, NEW e \in Nat
    PROVE  /\ (e + m) % m = e % m /\ e % m \in Nat
           /\ e < m => e % m = e
BY SMT

\* A residue modulo m is one of two modulo 2 * m.
LEMMA Halves ==
    ASSUME NEW m \in {16, 32, 64, 128}, NEW e \in Nat
    PROVE  /\ e % m \in {e % (2 * m), (e % (2 * m)) - m}
           /\ e % (2 * m) \in 0 .. 2 * m - 1
           /\ e % m \in 0 .. m - 1
BY SMT

LEMMA Moved ==
    ASSUME NEW S \in SUBSET (Int \X Int), NEW d \in Int
    PROVE  /\ Fold(S, {d}) \in SUBSET (Int \X Int)
           /\ \A i, e \in Int : <<i, e>> \in Fold(S, {d}) <=> <<i, e - d>> \in S
<1>1. Fold(S, {d}) = {<<t[1], t[2] + d>> : t \in S}
    BY DEF Fold
<1>2. \A t \in S : t = <<t[1], t[2]>> /\ t[1] \in Int /\ t[2] \in Int
    OBVIOUS
<1>3. Fold(S, {d}) \in SUBSET (Int \X Int)
    BY <1>1, <1>2
<1>4. ASSUME NEW i \in Int, NEW e \in Int PROVE <<i, e>> \in Fold(S, {d}) <=> <<i, e - d>> \in S
    <2>1. ASSUME <<i, e - d>> \in S PROVE <<i, e>> \in Fold(S, {d})
        <3>1. PICK t \in S : t = <<i, e - d>>
            BY <2>1
        <3>2. <<t[1], t[2] + d>> = <<i, e>>
            BY <3>1
        <3> QED BY <1>1, <3>2
    <2>2. ASSUME <<i, e>> \in Fold(S, {d}) PROVE <<i, e - d>> \in S
        <3>1. PICK t \in S : <<i, e>> = <<t[1], t[2] + d>>
            BY <1>1, <2>2
        <3>2. t = <<i, e - d>>
            BY <1>2, <3>1
        <3> QED BY <3>2
    <2> QED BY <2>1, <2>2
<1> QED BY <1>3, <1>4

LEMMA Loaded ==
    ASSUME NEW from \in Int, NEW w \in Nat
    PROVE  /\ Load(from, w) \in SUBSET (Int \X Int)
           /\ \A i, e \in Int : <<i, e>> \in Load(from, w)
                <=> e = from + w - 1 - i /\ e \in 0 .. w - 1
BY SMT DEF Load

-----------------------------------------------------------------------------
(* The registers *)

\* Registers as sets of pairs of integers.
LEMMA RegisterTerms ==
    ASSUME NEW d \in Nat, NEW k, NEW c, NEW w, NEW m \in Int, NEW x \in Int,
           c * w = m, (c - k) * w = x
    PROVE  /\ Register(d, k, c, w) \in SUBSET (Int \X Int)
           /\ \A i, e \in Int : <<i, e>> \in Register(d, k, c, w)
                <=> /\ i \in -8 .. d - 1 /\ e \in Nat
                    /\ e = d - x - 1 - Byte(i) /\ e % m < w
<1>1. Register(d, k, c, w) =
        {t \in (-8 .. d - 1) \X Nat : t[2] = d - x - 1 - Byte(t[1]) /\ t[2] % m < w}
    BY DEF Register
<1>2. -8 .. d - 1 \subseteq Int /\ Nat \subseteq Int
    OBVIOUS
<1>3. ASSUME NEW i \in Int, NEW e \in Int
      PROVE <<i, e>> \in Register(d, k, c, w)
                <=> /\ i \in -8 .. d - 1 /\ e \in Nat
                    /\ e = d - x - 1 - Byte(i) /\ e % m < w
    BY <1>1, Zenon
<1> QED BY <1>1, <1>2, <1>3

\* Two sets of pairs of integers are equal if they have the same pairs.
LEMMA SamePairs ==
    ASSUME NEW A \in SUBSET (Int \X Int), NEW B \in SUBSET (Int \X Int),
           \A i, e \in Int : <<i, e>> \in A <=> <<i, e>> \in B
    PROVE  A = B
<1>1. \A t \in Int \X Int : t = <<t[1], t[2]>> /\ t[1] \in Int /\ t[2] \in Int
    OBVIOUS
<1> QED BY <1>1

\* The numbers of registers and of bytes in one that occur.
Shape(c, w) == c \in {1, 2, 4, 8} /\ w \in {16, 64} /\ c * w <= 256

LEMMA Shapes ==
    ASSUME NEW c, NEW w, Shape(c, w), NEW k \in 1 .. c
    PROVE  /\ c * w \in {16, 32, 64, 128, 256} /\ c \in Nat /\ k \in Nat /\ w \in {16, 64}
           /\ (c - k) * w = c * w - k * w /\ (k - 1) * w = k * w - w
           /\ k * w \in w .. c * w
BY SMT DEF Shape

\* Every register moves over the blocks of the others and takes its next.
LEMMA FoldBlock ==
    ASSUME NEW d \in Nat, d >= 8, NEW c, NEW w, Shape(c, w), NEW k \in 1 .. c
    PROVE  Xor(Fold(Register(d, k, c, w), {c * w}), Load(d + (k - 1) * w, w))
             = Register(d + c * w, k, c, w)
<1>1. PICK m, x : m = c * w /\ x = k * w
    OBVIOUS
<1>2. /\ m \in {16, 32, 64, 128, 256} /\ w \in {16, 64} /\ x \in w .. m
      /\ (c - k) * w = m - x /\ (k - 1) * w = x - w
      /\ m \in Int /\ m - x \in Int
    BY <1>1, Shapes
<1>0. m \in Int /\ m - x \in Int /\ c * w = m /\ (c - k) * w = m - x
    BY <1>1, <1>2
<1>3. PICK A : A = Fold(Register(d, k, c, w), {m})
    OBVIOUS
<1>4. PICK B : B = Load(d + x - w, w)
    OBVIOUS
<1>5. /\ A \in SUBSET (Int \X Int)
      /\ \A i, e \in Int : <<i, e>> \in A
           <=> /\ i \in -8 .. d - 1 /\ e - m \in Nat
               /\ e - m = d - (m - x) - 1 - Byte(i) /\ (e - m) % m < w
    <2>1. Register(d, k, c, w) \in SUBSET (Int \X Int)
        BY <1>1, <1>2, RegisterTerms
    <2>2. A \in SUBSET (Int \X Int)
        BY ONLY <1>0, <1>3, <2>1, Moved
    <2>3. ASSUME NEW i \in Int, NEW e \in Int
          PROVE  <<i, e>> \in A <=> /\ i \in -8 .. d - 1 /\ e - m \in Nat
                                    /\ e - m = d - (m - x) - 1 - Byte(i) /\ (e - m) % m < w
        <3>1. <<i, e>> \in A <=> <<i, e - m>> \in Register(d, k, c, w)
            BY <1>2, <1>3, <2>1, Moved
        <3>2. e - m \in Int
            BY <1>2
        <3> QED BY <1>1, <1>2, <3>1, <3>2, RegisterTerms
    <2> QED BY <2>2, <2>3
<1>6. /\ B \in SUBSET (Int \X Int)
      /\ \A i, e \in Int : <<i, e>> \in B <=> e = d + x - 1 - i /\ e \in 0 .. w - 1
    BY <1>2, <1>4, Loaded
<1>7. PICK R : R = Register(d + m, k, c, w)
    OBVIOUS
<1>8. /\ R \in SUBSET (Int \X Int)
      /\ \A i, e \in Int : <<i, e>> \in R
           <=> /\ i \in -8 .. d + m - 1 /\ e \in Nat
               /\ e = d + x - 1 - Byte(i) /\ e % m < w
    <2>1. PICK f \in Nat : f = d + m
        BY <1>2
    <2>2. /\ R \in SUBSET (Int \X Int)
          /\ \A i, e \in Int : <<i, e>> \in R
               <=> /\ i \in -8 .. f - 1 /\ e \in Nat
                   /\ e = f - (m - x) - 1 - Byte(i) /\ e % m < w
        BY ONLY <1>0, <1>7, <2>1, RegisterTerms
    <2>3. \A i \in Int : f - (m - x) - 1 - Byte(i) = d + x - 1 - Byte(i)
        BY <1>2, <2>1 DEF Byte
    <2>4. -8 .. f - 1 = -8 .. d + m - 1
        BY <1>2, <2>1
    <2> QED BY <2>2, <2>3, <2>4
<1>9. Xor(A, B) \in SUBSET (Int \X Int)
    BY <1>5, <1>6 DEF Xor
<1>10. ASSUME NEW i \in Int, NEW e \in Int
       PROVE  <<i, e>> \in Xor(A, B) <=> <<i, e>> \in R
    <2>1. <<i, e>> \in A <=> /\ i \in -8 .. d - 1 /\ e >= m
                             /\ e = d + x - 1 - Byte(i) /\ e % m < w
        <3>1. ASSUME e >= m PROVE (e - m) % m = e % m
            <4>1. e - m \in Nat /\ (e - m) + m = e
                BY <1>2, <3>1
            <4> QED BY <1>2, <4>1, Remainders
        <3> QED BY <1>2, <1>5, <3>1 DEF Byte
    <2>2. <<i, e>> \in B <=> /\ i \in d .. d + m - 1 /\ e \in 0 .. m - 1
                             /\ e = d + x - 1 - Byte(i) /\ e % m < w
        <3>1. ASSUME e \in 0 .. m - 1 PROVE e % m = e
            BY <1>2, <3>1, Remainders
        <3> QED BY <1>2, <1>6, <3>1 DEF Byte
    <2>3. <<i, e>> \in R <=> /\ i \in -8 .. d + m - 1 /\ e \in Nat
                             /\ e = d + x - 1 - Byte(i) /\ e % m < w
        BY <1>8
    <2>4. e \in 0 .. m - 1 /\ e = d + x - 1 - Byte(i) /\ e % m < w => i >= d
        <3>1. ASSUME e \in 0 .. m - 1 PROVE e % m = e
            BY <1>2, <3>1, Remainders
        <3> QED BY <1>2, <3>1 DEF Byte
    <2>5. e >= m /\ e = d + x - 1 - Byte(i) => i < d
        BY <1>2 DEF Byte
    <2> QED BY <1>2, <2>1, <2>2, <2>3, <2>4, <2>5 DEF Xor
<1>11. Xor(A, B) = R
    BY <1>8, <1>9, <1>10, SamePairs
<1>12. d + (k - 1) * w = d + x - w
    BY <1>2
<1> QED BY <1>1, <1>3, <1>4, <1>7, <1>11, <1>12

\* Twice as many registers, folded in pairs.
LEMMA FoldPair ==
    ASSUME NEW d \in Nat, d >= 8, NEW c, NEW w, Shape(c, w), Shape(2 * c, w), NEW k \in 1 .. c
    PROVE  Xor(Fold(Register(d, k, 2 * c, w), {c * w}), Register(d, k + c, 2 * c, w))
             = Register(d, k, c, w)
<1>1. PICK m, x : m = c * w /\ x = k * w
    OBVIOUS
<1>2. /\ m \in {16, 32, 64, 128} /\ w \in {16, 64} /\ x \in w .. m
      /\ (c - k) * w = m - x /\ (2 * c - k) * w = 2 * m - x
      /\ (2 * c) * w = 2 * m /\ (2 * c - (k + c)) * w = m - x
      /\ m \in Int /\ m - x \in Int /\ 2 * m \in Int /\ 2 * m - x \in Int
    BY <1>1, SMT DEF Shape
<1>0. m \in Int /\ m - x \in Int /\ c * w = m /\ (c - k) * w = m - x
    BY <1>1, <1>2
<1>3. PICK A : A = Fold(Register(d, k, 2 * c, w), {m})
    OBVIOUS
<1>4. PICK B : B = Register(d, k + c, 2 * c, w)
    OBVIOUS
<1>5. PICK R : R = Register(d, k, c, w)
    OBVIOUS
<1>6. /\ B \in SUBSET (Int \X Int)
      /\ \A i, e \in Int : <<i, e>> \in B
           <=> /\ i \in -8 .. d - 1 /\ e \in Nat
               /\ e = d - (m - x) - 1 - Byte(i) /\ e % (2 * m) < w
    BY <1>2, <1>4, RegisterTerms
<1>7. /\ R \in SUBSET (Int \X Int)
      /\ \A i, e \in Int : <<i, e>> \in R
           <=> /\ i \in -8 .. d - 1 /\ e \in Nat
               /\ e = d - (m - x) - 1 - Byte(i) /\ e % m < w
    BY ONLY <1>0, <1>5, d \in Nat, RegisterTerms
<1>8. /\ A \in SUBSET (Int \X Int)
      /\ \A i, e \in Int : <<i, e>> \in A
           <=> /\ i \in -8 .. d - 1 /\ e - m \in Nat
               /\ e - m = d - (2 * m - x) - 1 - Byte(i) /\ (e - m) % (2 * m) < w
    <2>1. Register(d, k, 2 * c, w) \in SUBSET (Int \X Int)
        BY <1>2, RegisterTerms
    <2>2. A \in SUBSET (Int \X Int)
        BY ONLY <1>0, <1>3, <2>1, Moved
    <2>3. ASSUME NEW i \in Int, NEW e \in Int
          PROVE  <<i, e>> \in A
           <=> /\ i \in -8 .. d - 1 /\ e - m \in Nat
               /\ e - m = d - (2 * m - x) - 1 - Byte(i) /\ (e - m) % (2 * m) < w
        <3>1. <<i, e>> \in A <=> <<i, e - m>> \in Register(d, k, 2 * c, w)
            BY <1>2, <1>3, <2>1, Moved
        <3>2. e - m \in Int
            BY <1>2
        <3> QED BY <1>2, <3>1, <3>2, RegisterTerms
    <2> QED BY <2>2, <2>3
<1>9. Xor(A, B) \in SUBSET (Int \X Int)
    BY <1>6, <1>8 DEF Xor
<1>10. ASSUME NEW i \in Int, NEW e \in Int
       PROVE  <<i, e>> \in Xor(A, B) <=> <<i, e>> \in R
    <2>1. <<i, e>> \in A <=> /\ i \in -8 .. d - 1 /\ e - m \in Nat
                             /\ e = d - (m - x) - 1 - Byte(i) /\ (e - m) % (2 * m) < w
        BY <1>2, <1>8 DEF Byte
    <2>2. e \in Nat => /\ e % (2 * m) \in 0 .. 2 * m - 1 /\ e % m \in 0 .. m - 1
                       /\ e % m \in {e % (2 * m), (e % (2 * m)) - m}
        BY <1>2, Halves
    <2>3. ASSUME e - m \in Nat
          PROVE  (e - m) % (2 * m) < w <=> e % (2 * m) \in m .. m + w - 1
        BY <1>2, <2>3, SMT
    <2>4. e \in Nat /\ e % (2 * m) >= m => e - m \in Nat
        BY <1>2, Remainders
    <2>5. w <= m
        BY <1>2
    <2> QED BY <1>2, <1>6, <1>7, <2>1, <2>2, <2>3, <2>4, <2>5 DEF Xor
<1>11. Xor(A, B) = R
    BY <1>7, <1>9, <1>10, SamePairs
<1> QED BY <1>1, <1>3, <1>4, <1>5, <1>11

LEMMA FirstLoaded ==
    ASSUME NEW from \in Int, NEW w \in Nat
    PROVE  /\ LoadFirst(from, w) \in SUBSET (Int \X Int)
           /\ \A i, e \in Int : <<i, e>> \in LoadFirst(from, w)
                <=> i >= -8 /\ e = from + w - 1 - Byte(i) /\ e \in 0 .. w - 1
<1>1. PICK L : L = Load(from, w)
    OBVIOUS
<1>2. /\ L \in SUBSET (Int \X Int)
      /\ \A i, e \in Int : <<i, e>> \in L <=> e = from + w - 1 - i /\ e \in 0 .. w - 1
    BY <1>1, Loaded
<1>3. LoadFirst(from, w) = {t \in L : t[1] >= 0} \union {<<t[1] - 8, t[2]>> : t \in {u \in L : u[1] \in 0 .. 7}}
    BY <1>1 DEF LoadFirst
<1>4. \A t \in L : t = <<t[1], t[2]>> /\ t[1] \in Int /\ t[2] \in Int
    BY <1>2
<1>5. LoadFirst(from, w) \in SUBSET (Int \X Int)
    BY <1>3, <1>4
<1>6. ASSUME NEW i \in Int, NEW e \in Int
      PROVE <<i, e>> \in LoadFirst(from, w)
              <=> i >= -8 /\ e = from + w - 1 - Byte(i) /\ e \in 0 .. w - 1
    <2>1. <<i, e>> \in LoadFirst(from, w)
            <=> (i >= 0 /\ <<i, e>> \in L) \/ (i + 8 \in 0 .. 7 /\ <<i + 8, e>> \in L)
        <3>1. ASSUME i + 8 \in 0 .. 7, <<i + 8, e>> \in L PROVE <<i, e>> \in LoadFirst(from, w)
            <4>1. PICK t \in L : t = <<i + 8, e>>
                BY <3>1
            <4>2. t[1] \in 0 .. 7 /\ <<t[1] - 8, t[2]>> = <<i, e>>
                BY <3>1, <4>1
            <4> QED BY <1>3, <4>2
        <3>2. ASSUME NEW t \in L, t[1] \in 0 .. 7, <<i, e>> = <<t[1] - 8, t[2]>>
              PROVE  i + 8 \in 0 .. 7 /\ <<i + 8, e>> \in L
            <4>1. t = <<i + 8, e>>
                BY <1>4, <3>2
            <4> QED BY <3>2, <4>1
        <3>3. ASSUME i >= 0, <<i, e>> \in L PROVE <<i, e>> \in LoadFirst(from, w)
            BY <1>3, <3>3
        <3>4. ASSUME <<i, e>> \in LoadFirst(from, w), ~ (i >= 0 /\ <<i, e>> \in L)
              PROVE  i + 8 \in 0 .. 7 /\ <<i + 8, e>> \in L
            <4>1. \E t \in L : t[1] \in 0 .. 7 /\ <<i, e>> = <<t[1] - 8, t[2]>>
                BY <1>3, <3>4
            <4> QED BY <3>2, <4>1
        <3> QED BY <3>1, <3>3, <3>4
    <2> QED BY <1>2, <2>1 DEF Byte
<1> QED BY <1>5, <1>6

\* The first registers, s bytes before the message: the initial crc meets the
\* first eight bytes, in two registers if s is large.
LEMMA FirstBlock ==
    ASSUME NEW c, NEW w, Shape(c, w), c > 1, NEW k \in 1 .. c, NEW s \in 0 .. w - 1
    PROVE  Register(c * w - s, k, c, w) =
             IF k = 1 \/ (k = 2 /\ s > 0) THEN LoadFirst((k - 1) * w - s, w)
             ELSE Load((k - 1) * w - s, w)
<1>1. PICK m, x : m = c * w /\ x = k * w
    OBVIOUS
<1>2. /\ m \in {16, 32, 64, 128, 256} /\ w \in {16, 64} /\ x \in w .. m
      /\ (c - k) * w = m - x /\ (k - 1) * w = x - w /\ s \in 0 .. w - 1
      /\ m \in Int /\ m - x \in Int
    BY <1>1, Shapes
<1>3. /\ m >= 2 * w /\ (k = 1 => x = w) /\ (k = 2 => x = 2 * w) /\ (k > 2 => x >= 3 * w)
    BY <1>1, SMT DEF Shape
<1>4. PICK d \in Nat : d = m - s
    BY <1>2, <1>3
<1>5. PICK R : R = Register(d, k, c, w)
    OBVIOUS
<1>6. /\ R \in SUBSET (Int \X Int)
      /\ \A i, e \in Int : <<i, e>> \in R
           <=> /\ i \in -8 .. d - 1 /\ e \in Nat
               /\ e = d - (m - x) - 1 - Byte(i) /\ e % m < w
    <2>1. m \in Int /\ m - x \in Int /\ c * w = m /\ (c - k) * w = m - x
        BY <1>1, <1>2
    <2> QED BY ONLY <1>5, <2>1, d \in Nat, RegisterTerms
<1>7. ASSUME NEW i \in Int, NEW e \in Int
      PROVE  <<i, e>> \in R <=> i >= -8 /\ e = x - s - 1 - Byte(i) /\ e \in 0 .. w - 1
    <2>1. d - (m - x) - 1 - Byte(i) = x - s - 1 - Byte(i)
        BY <1>2, <1>4 DEF Byte
    <2>2. ASSUME e \in 0 .. m - 1 PROVE e % m = e
        BY <1>2, <2>2, Remainders
    <2>3. ASSUME i >= -8, e = x - s - 1 - Byte(i)
          PROVE  e < m /\ (e \in Nat => i \in -8 .. d - 1)
        BY <1>2, <1>3, <1>4, <2>3 DEF Byte
    <2>4. w <= m /\ w \in Nat
        BY <1>2
    <2>5. <<i, e>> \in R <=> /\ i \in -8 .. d - 1 /\ e \in Nat
                             /\ e = x - s - 1 - Byte(i) /\ e % m < w
        BY <1>6, <2>1
    <2> QED BY <1>2, <2>2, <2>3, <2>4, <2>5
<1>8. CASE k = 1 \/ (k = 2 /\ s > 0)
    <2>1. PICK f \in Int : f = x - w - s
        BY <1>2
    <2>2. f + w = x - s
        BY <1>2, <2>1
    <2>3. LoadFirst(f, w) \in SUBSET (Int \X Int)
        BY <1>2, FirstLoaded
    <2>4. ASSUME NEW i \in Int, NEW e \in Int PROVE <<i, e>> \in LoadFirst(f, w) <=> <<i, e>> \in R
        <3>1. <<i, e>> \in LoadFirst(f, w)
                <=> i >= -8 /\ e = f + w - 1 - Byte(i) /\ e \in 0 .. w - 1
            BY <1>2, FirstLoaded
        <3>2. f + w - 1 - Byte(i) = x - s - 1 - Byte(i)
            BY <1>2, <2>2 DEF Byte
        <3>3. <<i, e>> \in R <=> i >= -8 /\ e = x - s - 1 - Byte(i) /\ e \in 0 .. w - 1
            BY <1>7
        <3> QED BY ONLY <3>1, <3>2, <3>3, Zenon
    <2>5. R = LoadFirst(f, w)
        BY <1>6, <2>3, <2>4, SamePairs
    <2> QED BY <1>1, <1>2, <1>4, <1>5, <1>8, <2>1, <2>5
<1>9. CASE ~ (k = 1 \/ (k = 2 /\ s > 0))
    <2>1. PICK f \in Int : f = x - w - s
        BY <1>2
    <2>2. f + w = x - s
        BY <1>2, <2>1
    <2>3. Load(f, w) \in SUBSET (Int \X Int)
        BY <1>2, Loaded
    <2>4. ASSUME NEW i \in Int, NEW e \in Int PROVE <<i, e>> \in Load(f, w) <=> <<i, e>> \in R
        <3>1. <<i, e>> \in Load(f, w) <=> e = x - s - 1 - i /\ e \in 0 .. w - 1
            BY <1>2, <2>2, Loaded
        <3>2. x - s >= 2 * w
            BY <1>2, <1>3, <1>9
        <3> QED BY <1>2, <1>7, <3>1, <3>2 DEF Byte
    <2>5. R = Load(f, w)
        BY <1>6, <2>3, <2>4, SamePairs
    <2> QED BY <1>1, <1>2, <1>4, <1>5, <1>9, <2>1, <2>5
<1> QED BY <1>8, <1>9

-----------------------------------------------------------------------------
(* Pieces of code *)

LEMMA RegisterType ==
    ASSUME NEW d \in Nat, NEW c, NEW w, Shape(c, w), NEW k \in 1 .. c
    PROVE  Register(d, k, c, w) \in SUBSET (Int \X Int)
<1>1. PICK m, x : m = c * w /\ x = (c - k) * w
    OBVIOUS
<1>2. m \in Int /\ x \in Int
    BY <1>1, Shapes
<1> QED BY ONLY <1>1, <1>2, d \in Nat, RegisterTerms

LEMMA FoldLoadStep ==
    ASSUME Reading, len' = len, NEW c, NEW w, Shape(c, w), Holds(c, w),
           n >= c * w, FoldLoad(c, {c * w}, w)
    PROVE  Reading' /\ Holds(c, w)' /\ n' = n - c * w
<1>1. PICK m : m = c * w
    OBVIOUS
<1>2. m \in {16, 32, 64, 128, 256} /\ c \in 1 .. 8
    BY <1>1, SMT DEF Shape
<1>3. /\ data' = data + m /\ n' = n - m
    BY <1>1 DEF FoldLoad
<1>4. data' \in Nat /\ n' \in Nat /\ data' + n' = len' /\ data' >= 8
    BY <1>1, <1>2, <1>3 DEF Reading
<1>5. ASSUME NEW k \in 1 .. c PROVE acc'[k] = Register(data', k, c, w)
    <2>1. k \in Registers /\ k <= c
        BY <1>2 DEF Registers
    <2>2. acc'[k] = Xor(Fold(acc[k], {c * w}), Load(data + (k - 1) * w, w))
        BY <2>1 DEF FoldLoad
    <2> QED BY <1>1, <1>3, <2>2, FoldBlock DEF Holds, Reading
<1>6. \A k \in 1 .. c : acc'[k] \in SUBSET (Int \X Int)
    BY <1>4, <1>5, RegisterType
<1>7. acc' \in [Registers -> SUBSET (Int \X Int)]
    <2>1. DOMAIN acc' = Registers /\ acc' = [k \in Registers |-> acc'[k]]
        BY DEF FoldLoad
    <2>2. \A k \in Registers : k <= c \/ acc'[k] = {}
        BY DEF FoldLoad
    <2>3. \A k \in Registers : k <= c => k \in 1 .. c
        BY <1>2 DEF Registers
    <2> QED BY <1>6, <2>1, <2>2, <2>3
<1> QED BY <1>1, <1>3, <1>4, <1>5, <1>7 DEF Reading, Holds

LEMMA FoldPairsStep ==
    ASSUME Reading, len' = len, NEW c, NEW w, Shape(c, w), Shape(2 * c, w), Holds(2 * c, w),
           FoldPairs(c, {c * w})
    PROVE  Reading' /\ Holds(c, w)' /\ n' = n
<1>1. c \in 1 .. 4
    BY DEF Shape
<1>2. data' = data /\ n' = n
    BY DEF FoldPairs
<1>3. ASSUME NEW k \in 1 .. c PROVE acc'[k] = Register(data', k, c, w)
    <2>1. k \in Registers /\ k <= c /\ k \in 1 .. 2 * c /\ k + c \in 1 .. 2 * c
        BY <1>1 DEF Registers
    <2>2. acc'[k] = Xor(Fold(acc[k], {c * w}), acc[k + c])
        BY <2>1 DEF FoldPairs
    <2>3. acc[k] = Register(data, k, 2 * c, w) /\ acc[k + c] = Register(data, k + c, 2 * c, w)
        BY <2>1 DEF Holds
    <2> QED BY <1>2, <2>2, <2>3, FoldPair DEF Reading
<1>4. \A k \in 1 .. c : acc'[k] \in SUBSET (Int \X Int)
    BY <1>2, <1>3, RegisterType DEF Reading
<1>5. acc' \in [Registers -> SUBSET (Int \X Int)]
    <2>1. DOMAIN acc' = Registers /\ acc' = [k \in Registers |-> acc'[k]]
        BY DEF FoldPairs
    <2>2. \A k \in Registers : k <= c \/ acc'[k] = {}
        BY DEF FoldPairs
    <2>3. \A k \in Registers : k <= c => k \in 1 .. c
        BY <1>1 DEF Registers
    <2> QED BY <1>4, <2>1, <2>2, <2>3
<1> QED BY <1>2, <1>3, <1>5 DEF Reading, Holds

\* The start of each of the routines.
LEMMA FirstStep ==
    ASSUME data = 0, n \in Nat, data + n = len, len' = len, NEW c, NEW w, Shape(c, w), c > 1,
           NEW s \in 0 .. w - 1, n >= c * w,
           acc' = [k \in Registers |->
                     IF k = 1 \/ (k = 2 /\ s > 0) THEN LoadFirst((k - 1) * w - s, w)
                     ELSE IF k <= c THEN Load((k - 1) * w - s, w)
                     ELSE {}],
           n' = n + s - c * w, data' = c * w - s
    PROVE  Reading' /\ Holds(c, w)'
<1>1. PICK m : m = c * w
    OBVIOUS
<1>2. m \in {32, 64, 128, 256} /\ c \in 2 .. 8 /\ w \in {16, 64} /\ w <= m - 16
    BY <1>1, SMT DEF Shape
<1>3. data' \in Nat /\ n' \in Nat /\ data' + n' = len' /\ data' >= 8
    BY <1>1, <1>2
<1>4. ASSUME NEW k \in 1 .. c PROVE acc'[k] = Register(data', k, c, w)
    <2>1. k \in Registers /\ k <= c
        BY <1>2 DEF Registers
    <2>2. acc'[k] = IF k = 1 \/ (k = 2 /\ s > 0) THEN LoadFirst((k - 1) * w - s, w)
                    ELSE Load((k - 1) * w - s, w)
        BY <2>1
    <2> QED BY <2>2, FirstBlock
<1>5. ASSUME NEW k \in 1 .. c PROVE acc'[k] \in SUBSET (Int \X Int)
    <2>1. Register(data', k, c, w) \in SUBSET (Int \X Int)
        BY <1>3, RegisterType
    <2> QED BY <1>4, <2>1
<1>6. acc' \in [Registers -> SUBSET (Int \X Int)]
    <2>1. DOMAIN acc' = Registers /\ acc' = [k \in Registers |-> acc'[k]]
        OBVIOUS
    <2>2. \A k \in Registers : k <= c \/ acc'[k] = {}
        BY <1>2 DEF Registers
    <2>3. \A k \in Registers : k <= c => k \in 1 .. c
        BY <1>2 DEF Registers
    <2> QED BY <1>5, <2>1, <2>2, <2>3
<1> QED BY <1>3, <1>4, <1>6 DEF Reading, Holds

\* The one register left.
LEMMA LastRegister ==
    ASSUME Reading, NEW w \in {16, 64}, Holds(1, w), NEW d \in Int
    PROVE  /\ Fold(acc[1], {d}) \in SUBSET (Int \X Int)
           /\ \A i, e \in Int : <<i, e>> \in Fold(acc[1], {d})
                <=> i \in -8 .. data - 1 /\ e = data - 1 - Byte(i) + d
<1>1. Shape(1, w) /\ acc[1] = Register(data, 1, 1, w)
    BY DEF Shape, Holds
<1>2. PICK m, x, k : m = w /\ x = 0 /\ k = 1
    OBVIOUS
<1>3. 1 * w = m /\ (1 - k) * w = x /\ m \in Int /\ x \in Int /\ data \in Nat /\ data >= 8
    BY <1>2 DEF Reading
<1>4. PICK R : R = Register(data, k, 1, w)
    OBVIOUS
<1>5. /\ R \in SUBSET (Int \X Int)
      /\ \A i, e \in Int : <<i, e>> \in R
           <=> /\ i \in -8 .. data - 1 /\ e \in Nat
               /\ e = data - x - 1 - Byte(i) /\ e % m < w
    BY ONLY <1>3, <1>4, RegisterTerms
<1>6. /\ Fold(R, {d}) \in SUBSET (Int \X Int)
      /\ \A i, e \in Int : <<i, e>> \in Fold(R, {d}) <=> <<i, e - d>> \in R
    BY <1>5, Moved
<1>7. ASSUME NEW i \in Int, NEW e \in Int
      PROVE  <<i, e>> \in Fold(R, {d}) <=> i \in -8 .. data - 1 /\ e = data - 1 - Byte(i) + d
    <2>1. \A a \in Nat : a % m < w
        BY <1>2, SMT
    <2>2. <<i, e - d>> \in R
            <=> i \in -8 .. data - 1 /\ e - d \in Nat /\ e - d = data - x - 1 - Byte(i)
        <3>1. e - d \in Int
            OBVIOUS
        <3> QED BY <1>5, <2>1, <3>1
    <2>3. e - d = data - x - 1 - Byte(i) <=> e = data - 1 - Byte(i) + d
        BY <1>2, <1>3 DEF Byte
    <2>4. i \in -8 .. data - 1 => data - 1 - Byte(i) \in Nat
        BY <1>3 DEF Byte
    <2>5. e = data - 1 - Byte(i) + d => e - d = data - 1 - Byte(i)
        BY <1>3 DEF Byte
    <2> QED BY <1>6, <2>2, <2>3, <2>4, <2>5
<1> QED BY <1>1, <1>2, <1>4, <1>6, <1>7

\* The CRC of the message.
Crc(l) == {<<i, l - 1 - i + 8>> : i \in 0 .. l - 1}
          \union {<<j - 8, l - 1 - j + 8>> : j \in 0 .. 7}

LEMMA CrcTerms ==
    ASSUME NEW l \in Nat
    PROVE  /\ Crc(l) \in SUBSET (Int \X Int)
           /\ \A i, e \in Int : <<i, e>> \in Crc(l)
                <=> (i \in 0 .. l - 1 \/ i \in -8 .. -1) /\ e = l + 7 - Byte(i)
<1>1. Crc(l) \in SUBSET (Int \X Int)
    BY DEF Crc
<1>2. ASSUME NEW i \in Int, NEW e \in Int
      PROVE  <<i, e>> \in Crc(l)
                <=> (i \in 0 .. l - 1 \/ i \in -8 .. -1) /\ e = l + 7 - Byte(i)
    <2>1. <<i, e>> \in {<<a, l - 1 - a + 8>> : a \in 0 .. l - 1}
            <=> i \in 0 .. l - 1 /\ e = l - 1 - i + 8
        OBVIOUS
    <2>2. <<i, e>> \in {<<j - 8, l - 1 - j + 8>> : j \in 0 .. 7}
            <=> i + 8 \in 0 .. 7 /\ e = l - 1 - (i + 8) + 8
        <3>1. ASSUME i + 8 \in 0 .. 7, e = l - 1 - (i + 8) + 8
              PROVE  \E j \in 0 .. 7 : <<i, e>> = <<j - 8, l - 1 - j + 8>>
            <4> WITNESS i + 8 \in 0 .. 7
            <4> QED BY <3>1
        <3> QED BY <3>1
    <2> QED BY <2>1, <2>2 DEF Crc, Byte
<1> QED BY <1>1, <1>2

\* Every byte of the buffer is multiplied for its distance from the end.
LEMMA Weights == ASSUME NEW p \in Int PROVE Weight(p) = {47 - p}
<1>1. CASE p < 16
    <2>1. Weight(p) = {15 - p + d : d \in {32}}
        BY <1>1, FoldAssumption DEF Weight
    <2>2. 15 - p + 32 = 47 - p
        OBVIOUS
    <2> QED BY <2>1, <2>2
<1>2. CASE p >= 16 /\ p < 32
    <2>1. Weight(p) = {31 - p + d : d \in {16}}
        BY <1>2, FoldAssumption DEF Weight
    <2>2. 31 - p + 16 = 47 - p
        OBVIOUS
    <2> QED BY <2>1, <2>2
<1>3. CASE p >= 32
    BY <1>3 DEF Weight
<1> QED BY <1>1, <1>2, <1>3

\* The rest of the message, in the buffer of 48 bytes.
LEMMA RestTerms ==
    ASSUME data \in Nat, n \in Nat, NEW start \in Int
    PROVE  /\ Rest(start) \in SUBSET (Int \X Int)
           /\ \A i, e \in Int : <<i, e>> \in Rest(start)
                <=> i - data \in 0 .. n - 1 /\ e = 47 - (start + (i - data))
<1>1. \A i \in 0 .. n - 1 : Weight(start + i) = {47 - (start + i)}
    BY Weights
<1>2. Rest(start) = {<<data + i, 47 - (start + i)>> : i \in 0 .. n - 1}
    BY <1>1 DEF Rest
<1>3. Rest(start) \in SUBSET (Int \X Int)
    BY <1>2
<1>4. ASSUME NEW i \in Int, NEW e \in Int
      PROVE  <<i, e>> \in Rest(start) <=> i - data \in 0 .. n - 1 /\ e = 47 - (start + (i - data))
    <2>1. ASSUME i - data \in 0 .. n - 1, e = 47 - (start + (i - data))
          PROVE  \E j \in 0 .. n - 1 : <<i, e>> = <<data + j, 47 - (start + j)>>
        <3> WITNESS i - data \in 0 .. n - 1
        <3> QED BY <2>1
    <2>2. ASSUME NEW j \in 0 .. n - 1, <<i, e>> = <<data + j, 47 - (start + j)>>
          PROVE  i - data = j
        BY <2>2
    <2> QED BY <1>2, <2>1, <2>2
<1> QED BY <1>3, <1>4

LEMMA LastPartStep ==
    ASSUME Reading, Holds(1, 16), n <= 24, LastPart
    PROVE  crc' = Crc(len)
<1>1. n \in Nat /\ data \in Nat /\ data >= 8 /\ data + n = len
    BY DEF Reading
<1>2. PICK start \in Int : start = 48 - 8 - n
    BY <1>1
<1>3. PICK A, B : A = Fold(acc[1], Before(start)) /\ B = Rest(start)
    OBVIOUS
<1>4. crc' = A \union B
    BY <1>2, <1>3 DEF LastPart
<1>5. Before(start) = {n + 8}
    <2>1. ASSUME NEW s \in 0 .. 47, NEW k \in 0 .. 15
          PROVE  Weight(start - 16 + k) = {15 - k + s} <=> s = n + 8
        <3>1. start - 16 + k \in Int
            BY <1>2
        <3>2. Weight(start - 16 + k) = {47 - (start - 16 + k)}
            BY <3>1, Weights
        <3> QED BY <1>1, <1>2, <3>2
    <2>2. n + 8 \in 0 .. 47 /\ 0 \in 0 .. 15
        BY <1>1
    <2> QED BY <2>1, <2>2 DEF Before
<1>6. /\ A \in SUBSET (Int \X Int)
      /\ \A i, e \in Int : <<i, e>> \in A <=> i \in -8 .. data - 1 /\ e = data - 1 - Byte(i) + (n + 8)
    <2>1. A = Fold(acc[1], {n + 8}) /\ n + 8 \in Int
        BY <1>1, <1>3, <1>5
    <2> QED BY <2>1, LastRegister
<1>7. /\ B \in SUBSET (Int \X Int)
      /\ \A i, e \in Int : <<i, e>> \in B <=> i - data \in 0 .. n - 1 /\ e = 47 - (start + (i - data))
    BY <1>1, <1>2, <1>3, RestTerms
<1>8. A \union B \in SUBSET (Int \X Int)
    BY <1>6, <1>7
<1>9. ASSUME NEW i \in Int, NEW e \in Int PROVE <<i, e>> \in A \union B <=> <<i, e>> \in Crc(len)
    <2>1. len \in Nat
        BY <1>1
    <2>2. <<i, e>> \in Crc(len) <=> (i \in 0 .. len - 1 \/ i \in -8 .. -1) /\ e = len + 7 - Byte(i)
        BY <2>1, CrcTerms
    <2>3. <<i, e>> \in A <=> i \in -8 .. data - 1 /\ e = len + 7 - Byte(i)
        BY <1>1, <1>6 DEF Byte
    <2>4. <<i, e>> \in B <=> i \in data .. len - 1 /\ e = len + 7 - Byte(i)
        BY <1>1, <1>2, <1>7 DEF Byte
    <2> QED BY <1>1, <2>2, <2>3, <2>4
<1> QED BY <1>1, <1>4, <1>8, <1>9, CrcTerms, SamePairs

LEMMA ShortStep ==
    ASSUME data = 0, n \in Nat, n = len, Short
    PROVE  crc' = Crc(len)
<1>1. PICK start \in Int : start = 48 - 8 - n
    OBVIOUS
<1>2. PICK A, B : A = InitialCrc(start) /\ B = Rest(start)
    OBVIOUS
<1>3. crc' = A \union B /\ n < 32
    BY <1>1, <1>2 DEF Short
<1>4. /\ B \in SUBSET (Int \X Int)
      /\ \A i, e \in Int : <<i, e>> \in B <=> i - data \in 0 .. n - 1 /\ e = 47 - (start + (i - data))
    BY <1>1, <1>2, RestTerms
<1>5. /\ A \in SUBSET (Int \X Int)
      /\ \A i, e \in Int : <<i, e>> \in A <=> i + 8 \in 0 .. 7 /\ e = 47 - (start + (i + 8))
    <2>1. \A i \in 0 .. 7 : Weight(start + i) = {47 - (start + i)}
        BY <1>1, Weights
    <2>2. A = {<<i - 8, 47 - (start + i)>> : i \in 0 .. 7}
        BY <1>2, <2>1 DEF InitialCrc
    <2>3. A \in SUBSET (Int \X Int)
        BY <1>1, <2>2
    <2>4. ASSUME NEW i \in Int, NEW e \in Int
          PROVE  <<i, e>> \in A <=> i + 8 \in 0 .. 7 /\ e = 47 - (start + (i + 8))
        <3>1. ASSUME i + 8 \in 0 .. 7, e = 47 - (start + (i + 8))
              PROVE  \E j \in 0 .. 7 : <<i, e>> = <<j - 8, 47 - (start + j)>>
            <4> WITNESS i + 8 \in 0 .. 7
            <4> QED BY <3>1
        <3> QED BY <2>2, <3>1
    <2> QED BY <2>3, <2>4
<1>6. ASSUME NEW i \in Int, NEW e \in Int PROVE <<i, e>> \in A \union B <=> <<i, e>> \in Crc(len)
    <2>1. <<i, e>> \in Crc(len) <=> (i \in 0 .. len - 1 \/ i \in -8 .. -1) /\ e = len + 7 - Byte(i)
        BY CrcTerms
    <2>2. <<i, e>> \in A <=> i \in -8 .. -1 /\ e = len + 7 - Byte(i)
        BY <1>1, <1>5 DEF Byte
    <2>3. <<i, e>> \in B <=> i \in 0 .. len - 1 /\ e = len + 7 - Byte(i)
        BY <1>1, <1>4 DEF Byte
    <2> QED BY <2>1, <2>2, <2>3
<1>7. A \union B \in SUBSET (Int \X Int)
    BY <1>4, <1>5
<1> QED BY <1>3, <1>6, <1>7, CrcTerms, SamePairs

LEMMA WideTailStep ==
    ASSUME Reading, Holds(1, 64), n < 64, WideTail
    PROVE  crc' = Crc(len)
<1>1. n \in Nat /\ data \in Nat /\ data >= 8 /\ data + n = len
    BY DEF Reading
<1>2. PICK start \in Int : start = 128 - n
    BY <1>1
<1>3. PICK A, B : /\ A = Fold(acc[1], {n + 8})
                  /\ B = {<<data + i, 127 - (start + i) + 8>> : i \in 0 .. n - 1}
    OBVIOUS
<1>4. crc' = A \union B
    <2>1. crc' = Fold(acc[1], {127 - ((128 - n) - 1) + 8})
                 \union {<<data + i, 127 - ((128 - n) + i) + 8>> : i \in 0 .. n - 1}
        BY Zenon DEF WideTail
    <2>2. 127 - ((128 - n) - 1) + 8 = n + 8
        BY <1>1
    <2> QED BY ONLY <1>2, <1>3, <2>1, <2>2, Zenon
<1>5. /\ A \in SUBSET (Int \X Int)
      /\ \A i, e \in Int : <<i, e>> \in A <=> i \in -8 .. data - 1 /\ e = data - 1 - Byte(i) + (n + 8)
    <2>1. n + 8 \in Int /\ A = Fold(acc[1], {n + 8})
        BY <1>1, <1>3
    <2> QED BY <2>1, LastRegister
<1>6. /\ B \in SUBSET (Int \X Int)
      /\ \A i, e \in Int : <<i, e>> \in B <=> i - data \in 0 .. n - 1 /\ e = 127 - (start + (i - data)) + 8
    <2>1. B \in SUBSET (Int \X Int)
        BY <1>1, <1>2, <1>3
    <2>2. ASSUME NEW i \in Int, NEW e \in Int
          PROVE  <<i, e>> \in B <=> i - data \in 0 .. n - 1 /\ e = 127 - (start + (i - data)) + 8
        <3>1. ASSUME i - data \in 0 .. n - 1, e = 127 - (start + (i - data)) + 8
              PROVE  \E j \in 0 .. n - 1 : <<i, e>> = <<data + j, 127 - (start + j) + 8>>
            <4> WITNESS i - data \in 0 .. n - 1
            <4> QED BY <1>1, <3>1
        <3>2. ASSUME NEW j \in 0 .. n - 1, <<i, e>> = <<data + j, 127 - (start + j) + 8>>
              PROVE  i - data = j
            BY <1>1, <3>2
        <3> QED BY <1>3, <3>1, <3>2
    <2> QED BY <2>1, <2>2
<1>7. A \union B \in SUBSET (Int \X Int)
    BY <1>5, <1>6
<1>8. ASSUME NEW i \in Int, NEW e \in Int PROVE <<i, e>> \in A \union B <=> <<i, e>> \in Crc(len)
    <2>1. len \in Nat
        BY <1>1
    <2>2. <<i, e>> \in Crc(len) <=> (i \in 0 .. len - 1 \/ i \in -8 .. -1) /\ e = len + 7 - Byte(i)
        BY <2>1, CrcTerms
    <2>3. <<i, e>> \in A <=> i \in -8 .. data - 1 /\ e = len + 7 - Byte(i)
        BY <1>1, <1>5 DEF Byte
    <2>4. <<i, e>> \in B <=> i \in data .. len - 1 /\ e = len + 7 - Byte(i)
        BY <1>1, <1>2, <1>6 DEF Byte
    <2> QED BY <1>1, <2>2, <2>3, <2>4
<1> QED BY <1>1, <1>4, <1>7, <1>8, CrcTerms, SamePairs

-----------------------------------------------------------------------------
(* The inductive invariant *)

\* A step inside one of the routines.
LEMMA InsideStep ==
    ASSUME CrcInv, UNCHANGED <<len, align, routine, crc>>,
           stage' \in {"loop8", "loop4", "more4", "chain4", "more2", "chain2", "more1", "tail"},
           NEW c, NEW w, Reading', Holds(c, w)', InUse' = c, Width' = w, Limits'
    PROVE  CrcInv'
<1>1. Holds(InUse, Width)'
    <2>1. \A k \in 1 .. c : acc'[k] = Register(data', k, c, w)
        BY DEF Holds
    <2>2. \A k \in 1 .. InUse' : acc'[k] = Register(data', k, InUse', Width')
        BY <2>1
    <2> QED BY <2>2 DEF Holds
<1>2. CrcTypeOK'
    BY DEF CrcInv, CrcTypeOK, Reading
<1> QED BY <1>1, <1>2 DEF CrcInv, EachByteOnce, Reading

\* The end of one.
LEMMA DoneStep ==
    ASSUME CrcInv, UNCHANGED <<len, align, routine, data, n, acc>>, stage' = "done",
           crc' = Crc(len)
    PROVE  CrcInv'
<1>1. len \in Nat
    BY DEF CrcInv, CrcTypeOK
<1>2. crc' \in SUBSET (Int \X Int)
    BY <1>1, CrcTerms
<1>3. CrcTypeOK'
    BY <1>2 DEF CrcInv, CrcTypeOK
<1> QED BY <1>3 DEF CrcInv, EachByteOnce, Crc

LEMMA Skipped == ASSUME CrcTypeOK PROVE Skip(16) \in 0 .. 15 /\ Skip(64) \in 0 .. 63
BY SMT DEF Skip, CrcTypeOK

LEMMA StartStep ==
    ASSUME CrcInv, Start8 \/ Start4 \/ Start2 \/ WideStart4 \/ WideStart2
    PROVE  CrcInv'
<1> USE DEF Enter
<1>1. CrcTypeOK /\ data = 0 /\ n \in Nat /\ data + n = len /\ stage = "start"
    BY DEF CrcInv, CrcTypeOK, Start8, Start4, Start2, WideStart4, WideStart2
<1>2. UNCHANGED <<len, align, routine, crc>>
    BY DEF Start8, Start4, Start2, WideStart4, WideStart2
<1>3. CASE Start8
    <2>1. Shape(8, 16) /\ Skip(16) \in 0 .. 15
        BY <1>1, Skipped DEF Shape
    <2>2. PICK s \in 0 .. 15 : s = Skip(16)
        BY <2>1
    <2>3. /\ acc' = [k \in Registers |->
                       IF k = 1 \/ (k = 2 /\ s > 0) THEN LoadFirst((k - 1) * 16 - s, 16)
                       ELSE IF k <= 8 THEN Load((k - 1) * 16 - s, 16)
                       ELSE {}]
          /\ n' = n + s - 8 * 16 /\ data' = 8 * 16 - s /\ n >= 8 * 16
        BY <1>3, <2>2 DEF Start8, FirstLoads
    <2>4. Reading' /\ Holds(8, 16)'
        BY <1>1, <1>2, <2>1, <2>3, FirstStep
    <2>5. stage' = "loop8" /\ routine' = "clmul"
        BY <1>3 DEF Start8
    <2>6. InUse' = 8 /\ Width' = 16 /\ Limits'
        BY <1>2, <2>4, <2>5 DEF InUse, Width, Limits
    <2> QED BY <1>2, <2>4, <2>5, <2>6, InsideStep
<1>4. CASE WideStart4
    <2>1. Shape(4, 64) /\ Skip(64) \in 0 .. 63
        BY <1>1, Skipped DEF Shape
    <2>2. PICK s \in 0 .. 63 : s = Skip(64)
        BY <2>1
    <2>3. /\ acc' = [k \in Registers |->
                       IF k = 1 \/ (k = 2 /\ s > 0) THEN LoadFirst((k - 1) * 64 - s, 64)
                       ELSE IF k <= 4 THEN Load((k - 1) * 64 - s, 64)
                       ELSE {}]
          /\ n' = n + s - 4 * 64 /\ data' = 4 * 64 - s /\ n >= 4 * 64
        BY <1>4, <2>2 DEF WideStart4, FirstLoads
    <2>4. Reading' /\ Holds(4, 64)'
        BY <1>1, <1>2, <2>1, <2>3, FirstStep
    <2>5. stage' = "loop4" /\ routine' = "pclmul"
        BY <1>4 DEF WideStart4
    <2>6. InUse' = 4 /\ Width' = 64 /\ Limits'
        BY <1>2, <2>4, <2>5 DEF InUse, Width, Limits
    <2> QED BY <1>2, <2>4, <2>5, <2>6, InsideStep
<1>5. ASSUME NEW c \in {2, 4}, NEW w \in {16, 64}, n >= c * w,
             acc' = [k \in Registers |-> IF k = 1 THEN LoadFirst(0, w)
                                         ELSE IF k <= c THEN Load((k - 1) * w, w) ELSE {}],
             n' = n - c * w, data' = data + c * w
      PROVE  Reading' /\ Holds(c, w)'
    <2>1. Shape(c, w) /\ 0 \in 0 .. w - 1
        BY SMT DEF Shape
    <2>2. acc' = [k \in Registers |->
                    IF k = 1 \/ (k = 2 /\ 0 > 0) THEN LoadFirst((k - 1) * w - 0, w)
                    ELSE IF k <= c THEN Load((k - 1) * w - 0, w)
                    ELSE {}]
        <3>1. \A k \in Registers : (k - 1) * w - 0 = (k - 1) * w /\ (k = 1 => (k - 1) * w - 0 = 0)
            BY SMT DEF Registers
        <3> QED BY <1>5, <3>1
    <2>3. n' = n + 0 - c * w /\ data' = c * w - 0 /\ c > 1
        BY <1>1, <1>5, SMT
    <2> QED BY <1>1, <1>2, <1>5, <2>1, <2>2, <2>3, FirstStep
<1>6. CASE Start4
    <2>1. n >= 4 * 16 /\ n' = n - 4 * 16 /\ data' = data + 4 * 16 /\ n' < 64
          /\ stage' = "chain4" /\ routine' = "clmul"
        BY <1>1, <1>6 DEF Start4
    <2>2. Reading' /\ Holds(4, 16)'
        BY <1>5, <1>6, <2>1 DEF Start4
    <2>3. InUse' = 4 /\ Width' = 16 /\ Limits'
        BY <1>2, <2>1, <2>2 DEF InUse, Width, Limits
    <2> QED BY <1>2, <2>1, <2>2, <2>3, InsideStep
<1>7. CASE Start2
    <2>1. n >= 2 * 16 /\ n' = n - 2 * 16 /\ data' = data + 2 * 16 /\ n' < 32
          /\ stage' = "chain2" /\ routine' = "clmul"
        BY <1>1, <1>7 DEF Start2
    <2>2. acc' = [k \in Registers |-> IF k = 1 THEN LoadFirst(0, 16)
                                      ELSE IF k <= 2 THEN Load((k - 1) * 16, 16) ELSE {}]
        <3>1. \A k \in Registers : k # 1 => (k <= 2 <=> k = 2)
            BY DEF Registers
        <3>2. (2 - 1) * 16 = 16
            OBVIOUS
        <3> QED BY <1>7, <3>1, <3>2 DEF Start2
    <2>3. Reading' /\ Holds(2, 16)'
        BY <1>5, <2>1, <2>2
    <2>4. InUse' = 2 /\ Width' = 16 /\ Limits'
        BY <1>2, <2>1, <2>3 DEF InUse, Width, Limits
    <2> QED BY <1>2, <2>1, <2>3, <2>4, InsideStep
<1>8. CASE WideStart2
    <2>1. n >= 2 * 64 /\ n' = n - 2 * 64 /\ data' = data + 2 * 64 /\ n' < 128
          /\ stage' = "chain2" /\ routine' = "pclmul"
        BY <1>1, <1>8 DEF WideStart2
    <2>2. acc' = [k \in Registers |-> IF k = 1 THEN LoadFirst(0, 64)
                                      ELSE IF k <= 2 THEN Load((k - 1) * 64, 64) ELSE {}]
        <3>1. \A k \in Registers : k # 1 => (k <= 2 <=> k = 2)
            BY DEF Registers
        <3>2. (2 - 1) * 64 = 64
            OBVIOUS
        <3> QED BY <1>8, <3>1, <3>2 DEF WideStart2
    <2>3. Reading' /\ Holds(2, 64)'
        BY <1>5, <2>1, <2>2
    <2>4. InUse' = 2 /\ Width' = 64 /\ Limits'
        BY <1>2, <2>1, <2>3 DEF InUse, Width, Limits
    <2> QED BY <1>2, <2>1, <2>3, <2>4, InsideStep
<1> QED BY <1>3, <1>4, <1>6, <1>7, <1>8

\* The loads of the narrow routine and of the wide one.
LEMMA LoadStep ==
    ASSUME CrcInv, Loop8 \/ More4 \/ More2 \/ More1 \/ WideLoop4 \/ WideMore2 \/ WideMore1
    PROVE  CrcInv'
<1> USE DEF Enter
<1>1. stage \notin {"start", "done"} /\ UNCHANGED <<len, align, routine, crc>>
    BY DEF Loop8, More4, More2, More1, WideLoop4, WideMore2, WideMore1
<1>2. Reading /\ Holds(InUse, Width) /\ Limits /\ n \in Nat
    BY <1>1 DEF CrcInv, Reading
<1>3. \A c \in {1, 2, 4, 8} : Shape(c, 16)
    BY DEF Shape
<1>4. \A c \in {1, 2, 4} : Shape(c, 64)
    BY DEF Shape
<1>5. ASSUME UNCHANGED <<data, n, acc>>, NEW c, NEW w, Holds(c, w)
      PROVE  Reading' /\ Holds(c, w)'
    BY <1>1, <1>2, <1>5 DEF Reading, Holds
<1>6. CASE Loop8
    <2>1. Holds(8, 16) /\ n >= 8 * 16 /\ FoldLoad(8, {8 * 16}, 16)
        BY <1>2, <1>6, FoldAssumption DEF Loop8, InUse, Width
    <2>2. Reading' /\ Holds(8, 16)'
        BY <1>1, <1>2, <1>3, <2>1, FoldLoadStep
    <2>3. InUse' = 8 /\ Width' = 16 /\ Limits'
        BY <1>1, <1>6, <2>2 DEF Loop8, InUse, Width, Limits
    <2> QED BY <1>1, <1>6, <2>2, <2>3, InsideStep DEF Loop8
<1>7. CASE More4
    <2>1. Holds(4, 16) /\ n < 128
        BY <1>2, <1>7 DEF More4, InUse, Width, Limits
    <2>2. Reading' /\ Holds(4, 16)' /\ n' < 64
        <3>1. CASE n >= 64 /\ FoldLoad(4, By4, 16)
            <4>1. n >= 4 * 16 /\ FoldLoad(4, {4 * 16}, 16)
                BY <3>1, FoldAssumption
            <4>2. Reading' /\ Holds(4, 16)' /\ n' = n - 4 * 16
                BY <1>1, <1>2, <1>3, <2>1, <4>1, FoldLoadStep
            <4> QED BY <1>2, <2>1, <4>2
        <3>2. CASE n < 64 /\ UNCHANGED <<data, n, acc>>
            BY <1>5, <2>1, <3>2
        <3> QED BY <1>7, <3>1, <3>2 DEF More4
    <2>3. InUse' = 4 /\ Width' = 16 /\ Limits'
        BY <1>1, <1>7, <2>2 DEF More4, InUse, Width, Limits
    <2> QED BY <1>1, <1>7, <2>2, <2>3, InsideStep DEF More4
<1>8. CASE More2
    <2>1. Holds(2, 16) /\ n < 64
        BY <1>2, <1>8 DEF More2, InUse, Width, Limits
    <2>2. Reading' /\ Holds(2, 16)' /\ n' < 32
        <3>1. CASE n >= 32 /\ FoldLoad(2, By2, 16)
            <4>1. n >= 2 * 16 /\ FoldLoad(2, {2 * 16}, 16)
                BY <3>1, FoldAssumption
            <4>2. Reading' /\ Holds(2, 16)' /\ n' = n - 2 * 16
                BY <1>1, <1>2, <1>3, <2>1, <4>1, FoldLoadStep
            <4> QED BY <1>2, <2>1, <4>2
        <3>2. CASE n < 32 /\ UNCHANGED <<data, n, acc>>
            BY <1>5, <2>1, <3>2
        <3> QED BY <1>8, <3>1, <3>2 DEF More2
    <2>3. InUse' = 2 /\ Width' = 16 /\ Limits'
        BY <1>1, <1>8, <2>2 DEF More2, InUse, Width, Limits
    <2> QED BY <1>1, <1>8, <2>2, <2>3, InsideStep DEF More2
<1>9. CASE More1
    <2>1. Holds(1, 16) /\ n < 32
        BY <1>2, <1>9 DEF More1, InUse, Width, Limits
    <2>2. Reading' /\ Holds(1, 16)' /\ n' <= 24
        <3>1. CASE n > 24 /\ FoldLoad(1, By1, 16)
            <4>1. n >= 1 * 16 /\ FoldLoad(1, {1 * 16}, 16)
                BY <1>2, <3>1, FoldAssumption
            <4>2. Reading' /\ Holds(1, 16)' /\ n' = n - 1 * 16
                BY <1>1, <1>2, <1>3, <2>1, <4>1, FoldLoadStep
            <4> QED BY <1>2, <2>1, <4>2
        <3>2. CASE n <= 24 /\ UNCHANGED <<data, n, acc>>
            BY <1>5, <2>1, <3>2
        <3> QED BY <1>9, <3>1, <3>2 DEF More1
    <2>3. InUse' = 1 /\ Width' = 16 /\ Limits'
        BY <1>1, <1>9, <2>2 DEF More1, InUse, Width, Limits
    <2> QED BY <1>1, <1>9, <2>2, <2>3, InsideStep DEF More1
<1>10. CASE WideLoop4
    <2>1. Holds(4, 64) /\ n >= 4 * 64 /\ FoldLoad(4, {4 * 64}, 64)
        BY <1>2, <1>10, FoldAssumption DEF WideLoop4, InUse, Width
    <2>2. Reading' /\ Holds(4, 64)'
        BY <1>1, <1>2, <1>4, <2>1, FoldLoadStep
    <2>3. InUse' = 4 /\ Width' = 64 /\ Limits'
        BY <1>1, <1>10, <2>2 DEF WideLoop4, InUse, Width, Limits
    <2> QED BY <1>1, <1>10, <2>2, <2>3, InsideStep DEF WideLoop4
<1>11. CASE WideMore2
    <2>1. Holds(2, 64) /\ n < 256
        BY <1>2, <1>11 DEF WideMore2, InUse, Width, Limits
    <2>2. Reading' /\ Holds(2, 64)' /\ n' < 128
        <3>1. CASE n >= 128 /\ FoldLoad(2, WideBy2, 64)
            <4>1. n >= 2 * 64 /\ FoldLoad(2, {2 * 64}, 64)
                BY <3>1, FoldAssumption
            <4>2. Reading' /\ Holds(2, 64)' /\ n' = n - 2 * 64
                BY <1>1, <1>2, <1>4, <2>1, <4>1, FoldLoadStep
            <4> QED BY <1>2, <2>1, <4>2
        <3>2. CASE n < 128 /\ UNCHANGED <<data, n, acc>>
            BY <1>5, <2>1, <3>2
        <3> QED BY <1>11, <3>1, <3>2 DEF WideMore2
    <2>3. InUse' = 2 /\ Width' = 64 /\ Limits'
        BY <1>1, <1>11, <2>2 DEF WideMore2, InUse, Width, Limits
    <2> QED BY <1>1, <1>11, <2>2, <2>3, InsideStep DEF WideMore2
<1>12. CASE WideMore1
    <2>1. Holds(1, 64) /\ n < 128
        BY <1>2, <1>12 DEF WideMore1, InUse, Width, Limits
    <2>2. Reading' /\ Holds(1, 64)' /\ n' < 64
        <3>1. CASE n >= 64 /\ FoldLoad(1, WideBy1, 64)
            <4>1. n >= 1 * 64 /\ FoldLoad(1, {1 * 64}, 64)
                BY <3>1, FoldAssumption
            <4>2. Reading' /\ Holds(1, 64)' /\ n' = n - 1 * 64
                BY <1>1, <1>2, <1>4, <2>1, <4>1, FoldLoadStep
            <4> QED BY <1>2, <2>1, <4>2
        <3>2. CASE n < 64 /\ UNCHANGED <<data, n, acc>>
            BY <1>5, <2>1, <3>2
        <3> QED BY <1>12, <3>1, <3>2 DEF WideMore1
    <2>3. InUse' = 1 /\ Width' = 64 /\ Limits'
        BY <1>1, <1>12, <2>2 DEF WideMore1, InUse, Width, Limits
    <2> QED BY <1>1, <1>12, <2>2, <2>3, InsideStep DEF WideMore1
<1> QED BY <1>6, <1>7, <1>8, <1>9, <1>10, <1>11, <1>12

LEMMA PairsStep ==
    ASSUME CrcInv, Reduce8 \/ Chain4 \/ Chain2 \/ WideReduce4 \/ WideChain2
    PROVE  CrcInv'
<1> USE DEF Enter
<1>1. stage \notin {"start", "done"} /\ UNCHANGED <<len, align, routine, crc>>
    BY DEF Reduce8, Chain4, Chain2, WideReduce4, WideChain2
<1>2. Reading /\ Holds(InUse, Width) /\ Limits
    BY <1>1 DEF CrcInv
<1>3. /\ Shape(1, 16) /\ Shape(2 * 1, 16) /\ Shape(2, 16) /\ Shape(2 * 2, 16)
      /\ Shape(4, 16) /\ Shape(2 * 4, 16)
      /\ Shape(1, 64) /\ Shape(2 * 1, 64) /\ Shape(2, 64) /\ Shape(2 * 2, 64)
    BY DEF Shape
<1>4. CASE Reduce8
    <2>1. Holds(2 * 4, 16) /\ FoldPairs(4, {4 * 16}) /\ n < 128
        BY <1>2, <1>4, FoldAssumption DEF Reduce8, InUse, Width
    <2>2. Reading' /\ Holds(4, 16)' /\ n' = n
        BY <1>1, <1>2, <1>3, <2>1, FoldPairsStep
    <2>3. InUse' = 4 /\ Width' = 16 /\ Limits'
        BY <1>1, <1>4, <2>1, <2>2 DEF Reduce8, InUse, Width, Limits
    <2> QED BY <1>1, <1>4, <2>1, <2>2, <2>3, InsideStep DEF Reduce8
<1>5. CASE Chain4
    <2>1. Holds(2 * 2, 16) /\ FoldPairs(2, {2 * 16}) /\ n < 64
        BY <1>2, <1>5, FoldAssumption DEF Chain4, InUse, Width, Limits
    <2>2. Reading' /\ Holds(2, 16)' /\ n' = n
        BY <1>1, <1>2, <1>3, <2>1, FoldPairsStep
    <2>3. InUse' = 2 /\ Width' = 16 /\ Limits'
        BY <1>1, <1>5, <2>1, <2>2 DEF Chain4, InUse, Width, Limits
    <2> QED BY <1>1, <1>5, <2>1, <2>2, <2>3, InsideStep DEF Chain4
<1>6. CASE Chain2
    <2>1. Holds(2 * 1, 16) /\ FoldPairs(1, {1 * 16}) /\ n < 32
        BY <1>2, <1>6, FoldAssumption DEF Chain2, InUse, Width, Limits
    <2>2. Reading' /\ Holds(1, 16)' /\ n' = n
        BY <1>1, <1>2, <1>3, <2>1, FoldPairsStep
    <2>3. InUse' = 1 /\ Width' = 16 /\ Limits'
        BY <1>1, <1>6, <2>1, <2>2 DEF Chain2, InUse, Width, Limits
    <2> QED BY <1>1, <1>6, <2>1, <2>2, <2>3, InsideStep DEF Chain2
<1>7. CASE WideReduce4
    <2>1. Holds(2 * 2, 64) /\ FoldPairs(2, {2 * 64}) /\ n < 256
        BY <1>2, <1>7, FoldAssumption DEF WideReduce4, InUse, Width
    <2>2. Reading' /\ Holds(2, 64)' /\ n' = n
        BY <1>1, <1>2, <1>3, <2>1, FoldPairsStep
    <2>3. InUse' = 2 /\ Width' = 64 /\ Limits'
        BY <1>1, <1>7, <2>1, <2>2 DEF WideReduce4, InUse, Width, Limits
    <2> QED BY <1>1, <1>7, <2>1, <2>2, <2>3, InsideStep DEF WideReduce4
<1>8. CASE WideChain2
    <2>1. Holds(2 * 1, 64) /\ FoldPairs(1, {1 * 64}) /\ n < 128
        BY <1>2, <1>8, FoldAssumption DEF WideChain2, InUse, Width, Limits
    <2>2. Reading' /\ Holds(1, 64)' /\ n' = n
        BY <1>1, <1>2, <1>3, <2>1, FoldPairsStep
    <2>3. InUse' = 1 /\ Width' = 64 /\ Limits'
        BY <1>1, <1>8, <2>1, <2>2 DEF WideChain2, InUse, Width, Limits
    <2> QED BY <1>1, <1>8, <2>1, <2>2, <2>3, InsideStep DEF WideChain2
<1> QED BY <1>4, <1>5, <1>6, <1>7, <1>8

LEMMA EndStep ==
    ASSUME CrcInv, LastPart \/ Short \/ WideTail
    PROVE  CrcInv'
<1> USE DEF Enter
<1>1. /\ UNCHANGED <<len, align, routine, data, n, acc>> /\ stage' = "done"
    BY DEF LastPart, Short, WideTail
<1>2. CASE LastPart
    <2>1. Reading /\ Holds(1, 16) /\ n <= 24
        BY <1>2 DEF CrcInv, LastPart, InUse, Width, Limits
    <2> QED BY <1>1, <1>2, <2>1, LastPartStep, DoneStep
<1>3. CASE Short
    <2>1. data = 0 /\ n \in Nat /\ n = len
        BY <1>3 DEF CrcInv, CrcTypeOK, Short
    <2> QED BY <1>1, <1>3, <2>1, ShortStep, DoneStep
<1>4. CASE WideTail
    <2>1. Reading /\ Holds(1, 64) /\ n < 64
        BY <1>4 DEF CrcInv, WideTail, InUse, Width, Limits
    <2> QED BY <1>1, <1>4, <2>1, WideTailStep, DoneStep
<1> QED BY <1>2, <1>3, <1>4

LEMMA CrcInitial == CrcInit => CrcInv
<1> SUFFICES ASSUME CrcInit PROVE CrcInv
    OBVIOUS
<1>1. PICK r \in {"clmul", "pclmul"}, l \in MessageLengths, a \in Alignments : CrcCall(r, l, a)
    BY DEF CrcInit
<1>2. l \in Nat /\ a \in 0 .. 63
    BY MessageAssumption
<1>3. acc \in [Registers -> SUBSET (Int \X Int)]
    BY <1>1 DEF CrcCall
<1> QED BY <1>1, <1>2, <1>3 DEF CrcCall, CrcInv, CrcTypeOK, EachByteOnce

LEMMA CrcInductive == CrcInv /\ [CrcNext]_crc_vars => CrcInv'
<1> SUFFICES ASSUME CrcInv, [CrcNext]_crc_vars PROVE CrcInv'
    OBVIOUS
<1>1. CASE UNCHANGED crc_vars
    BY <1>1 DEF crc_vars, CrcInv, CrcTypeOK, Reading, Holds, InUse, Width, Limits, EachByteOnce
<1>2. CASE WideShort
    BY <1>2 DEF WideShort, CrcInv, CrcTypeOK, EachByteOnce
<1> QED BY <1>1, <1>2, StartStep, LoadStep, PairsStep, EndStep DEF CrcNext

-----------------------------------------------------------------------------
(* What follows from it *)

LEMMA CrcInvariance == CrcSpec => []CrcInv
BY CrcInitial, CrcInductive, PTL DEF CrcSpec

\* Types.
THEOREM CrcTyped == CrcSpec => []CrcTypeOK
<1>1. CrcInv => CrcTypeOK
    BY DEF CrcInv
<1> QED BY <1>1, CrcInvariance, PTL

\* The rest of the message fits behind the last register into the buffer, for
\* every length: the loops and the tests after them leave no more than that.
THEOREM RestFits == CrcSpec => []TailFits
<1>1. CrcInv => TailFits
    BY DEF CrcInv, CrcTypeOK, TailFits, Limits
<1> QED BY <1>1, CrcInvariance, PTL

\* For every length and alignment, each byte of the message and of the initial
\* crc enters the result exactly once, with the power of x that is its own.
THEOREM EveryByteOnce == CrcSpec => []EachByteOnce
<1>1. CrcInv => EachByteOnce
    BY DEF CrcInv
<1> QED BY <1>1, CrcInvariance, PTL

-----------------------------------------------------------------------------
(* Secded, for every number of words and every damage.                    *)

LEMMA PairOf ==
    ASSUME NEW A, IsFiniteSet(A), Cardinality(A) = 2
    PROVE  \E a \in A, b \in A : a # b /\ A = {a, b}
<1>1. A # {}
  BY FS_EmptySet
<1>2. PICK a \in A : TRUE
  BY <1>1
<1>3. IsFiniteSet(A \ {a}) /\ Cardinality(A \ {a}) = 1
  BY FS_RemoveElement
<1>4. PICK b : A \ {a} = {b}
  BY Zenon, <1>3, FS_Singleton
<1>5. b \in A /\ a # b /\ A = {a, b}
  BY <1>4
<1> QED BY <1>5

LEMMA TripleOf ==
    ASSUME NEW A, IsFiniteSet(A), Cardinality(A) = 3
    PROVE  \E a \in A, b \in A, c \in A : a # b /\ a # c /\ b # c /\ A = {a, b, c}
<1>1. A # {}
  BY FS_EmptySet
<1>2. PICK a \in A : TRUE
  BY <1>1
<1>3. IsFiniteSet(A \ {a}) /\ Cardinality(A \ {a}) = 2
  BY FS_RemoveElement
<1>4. PICK b \in A \ {a}, c \in A \ {a} : b # c /\ A \ {a} = {b, c}
  BY Zenon, <1>3, PairOf
<1>5. A = {a, b, c}
  BY <1>4
<1> QED BY <1>4, <1>5

-----------------------------------------------------------------------------
(* The SECDED code is linear.                                              *)

SecdedBits == DataBits \union CheckBits

\* The parts of secded_encode().
LowBits == 0 .. 56
HighBits == 57 .. 63
HighPlace == [b \in HighBits |-> HighPlaces[b - 57]]
Lo(d) == ImageOf(LowPlaces, d \intersect LowBits)
Hi(d) == ImageOf(HighPlace, d \intersect HighBits)
Both(d) == Xor(Hi(d), Lo(d))
Parities(d) ==
    {j \in 0 .. 5 : Odd(Both(d) \intersect CheckMask[j])} \union {j \in {6} : Odd(Hi(d))}
Overall(d) == {j \in {7} : Odd(Xor(Parities(d), Both(d)))}

LEMMA PlaceFacts ==
    /\ DOMAIN LowPlaces = LowBits
    /\ \A b \in LowBits : LowPlaces[b] \in DataBits
    /\ \A b, c \in LowBits : LowPlaces[b] = LowPlaces[c] => b = c
    /\ \A b \in HighBits : HighPlace[b] \in DataBits
    /\ \A b, c \in HighBits : HighPlace[b] = HighPlace[c] => b = c
<1>1. /\ DOMAIN LowPlaces = LowBits
      /\ \A b \in LowBits : LowPlaces[b] \in DataBits
      /\ \A b, c \in LowBits : LowPlaces[b] = LowPlaces[c] => b = c
  BY Zenon, PlacesAssumption DEF LowBits
<1>2. \A b \in HighBits : b \in Int /\ b - 57 \in 0 .. 6
  BY DEF HighBits
<1>3. ASSUME NEW b \in HighBits PROVE HighPlace[b] \in DataBits
  BY Zenon, <1>2, PlacesAssumption DEF HighPlace
<1>4. ASSUME NEW b \in HighBits, NEW c \in HighBits, HighPlace[b] = HighPlace[c] PROVE b = c
  <2>1. HighPlaces[b - 57] = HighPlaces[c - 57]
    BY Zenon, <1>4 DEF HighPlace
  <2>2. b - 57 = c - 57
    BY Zenon, <1>2, <2>1, PlacesAssumption
  <2> QED BY <1>2, <2>2
<1> QED BY Zenon, <1>1, <1>3, <1>4

LEMMA EncodeParts ==
    ASSUME NEW d
    PROVE  Encode(d) = Parities(d) \union Overall(d)
<1>1. {LowPlaces[b] : b \in d \intersect DOMAIN LowPlaces} = Lo(d)
  BY Zenon, PlaceFacts DEF Lo, ImageOf
<1>2. {HighPlaces[b - 57] : b \in d \intersect (57 .. 63)} = Hi(d)
  <2>1. \A b \in d \intersect HighBits : HighPlace[b] = HighPlaces[b - 57]
    BY Zenon DEF HighPlace
  <2>2. {HighPlaces[b - 57] : b \in d \intersect HighBits} = {HighPlace[b] : b \in d \intersect HighBits}
    BY Zenon, <2>1
  <2> QED BY Zenon, <2>2 DEF Hi, ImageOf, HighBits
<1> QED BY Zenon, <1>1, <1>2 DEF Encode, Parities, Overall, Both

LEMMA DataFinite == \A d \in SUBSET DataBits : IsFiniteSet(d)
<1>1. 0 \in Int /\ 63 \in Int
  OBVIOUS
<1>2. IsFiniteSet(0 .. 63)
  BY Zenon, <1>1, FS_Interval
<1> QED BY Zenon, <1>2, FS_Subset DEF DataBits

LEMMA SecdedFinite == \A bits \in SUBSET SecdedBits : IsFiniteSet(bits)
<1>1. 64 \in Int /\ 71 \in Int
  OBVIOUS
<1>2. IsFiniteSet(CheckBits)
  BY Zenon, <1>1, FS_Interval DEF CheckBits
<1>3. IsFiniteSet(DataBits)
  BY Zenon, DataFinite
<1>4. IsFiniteSet(SecdedBits)
  BY Zenon, <1>2, <1>3, FS_Union DEF SecdedBits
<1> QED BY Zenon, <1>4, FS_Subset

LEMMA PartsInData ==
    ASSUME NEW d
    PROVE  Lo(d) \in SUBSET DataBits /\ Hi(d) \in SUBSET DataBits /\ Both(d) \in SUBSET DataBits
<1>1. \A x \in Lo(d) : x \in DataBits
  BY PlaceFacts DEF Lo, ImageOf
<1>2. \A x \in Hi(d) : x \in DataBits
  BY PlaceFacts DEF Hi, ImageOf
<1> QED BY <1>1, <1>2 DEF Both, Xor

LEMMA LoLinear ==
    ASSUME NEW A, NEW B
    PROVE  Lo(Xor(A, B)) = Xor(Lo(A), Lo(B))
BY PlaceFacts DEF Lo, ImageOf, Xor

LEMMA HiLinear ==
    ASSUME NEW A, NEW B
    PROVE  Hi(Xor(A, B)) = Xor(Hi(A), Hi(B))
BY PlaceFacts DEF Hi, ImageOf, Xor

LEMMA BothLinear ==
    ASSUME NEW A, NEW B
    PROVE  Both(Xor(A, B)) = Xor(Both(A), Both(B))
BY LoLinear, HiLinear, XorXor DEF Both

LEMMA ParitiesLinear ==
    ASSUME NEW A, NEW B
    PROVE  Parities(Xor(A, B)) = Xor(Parities(A), Parities(B))
<1>1. ASSUME NEW j PROVE Odd(Both(Xor(A, B)) \intersect CheckMask[j])
                  <=> ~ (Odd(Both(A) \intersect CheckMask[j]) <=> Odd(Both(B) \intersect CheckMask[j]))
  <2>1. Both(Xor(A, B)) = Xor(Both(A), Both(B))
    BY BothLinear
  <2>2. IsFiniteSet(Both(A)) /\ IsFiniteSet(Both(B))
    BY Zenon, PartsInData, DataFinite
  <2> QED BY Zenon, <2>1, <2>2, MaskOdd
<1>2. Odd(Hi(Xor(A, B))) <=> ~ (Odd(Hi(A)) <=> Odd(Hi(B)))
  <2>1. IsFiniteSet(Hi(A)) /\ IsFiniteSet(Hi(B))
    BY Zenon, PartsInData, DataFinite
  <2>2. Hi(Xor(A, B)) = Xor(Hi(A), Hi(B))
    BY HiLinear
  <2> QED BY Zenon, <2>1, <2>2, SumOdd
<1>3. ASSUME NEW X, NEW j
      PROVE  j \in Parities(X) <=> ((j \in 0 .. 5 /\ Odd(Both(X) \intersect CheckMask[j]))
                                  \/ (j = 6 /\ Odd(Hi(X))))
  BY Zenon DEF Parities
<1>4. ASSUME NEW j, j \in 0 .. 5
      PROVE  j \in Parities(Xor(A, B)) <=> ~ (j \in Parities(A) <=> j \in Parities(B))
  <2>1. j # 6
    BY <1>4
  <2>2. \A X : j \in Parities(X) <=> Odd(Both(X) \intersect CheckMask[j])
    BY <1>3, <1>4, <2>1
  <2> QED BY Zenon, <1>1, <2>2
<1>5. 6 \in Parities(Xor(A, B)) <=> ~ (6 \in Parities(A) <=> 6 \in Parities(B))
  <2>1. ~ (6 \in 0 .. 5)
    OBVIOUS
  <2>2. \A X : 6 \in Parities(X) <=> Odd(Hi(X))
    BY Zenon, <1>3, <2>1
  <2> QED BY Zenon, <1>2, <2>2
<1>6. ASSUME NEW j, j \notin 0 .. 5, j # 6
      PROVE  j \notin Parities(Xor(A, B)) /\ j \notin Parities(A) /\ j \notin Parities(B)
  <2>1. ASSUME NEW X PROVE j \notin Parities(X)
    BY Zenon, <1>6 DEF Parities
  <2> QED BY Zenon, <2>1
<1>7. ASSUME NEW j PROVE j \in Parities(Xor(A, B)) <=> j \in Xor(Parities(A), Parities(B))
  <2>1. j \in Xor(Parities(A), Parities(B)) <=> ~ (j \in Parities(A) <=> j \in Parities(B))
    BY DEF Xor
  <2> QED BY Zenon, <1>4, <1>5, <1>6, <2>1
<1> QED BY <1>7

\* Among the check bits of a word, 0 .. 7.
LEMMA CodeBits ==
    ASSUME NEW d
    PROVE  /\ Parities(d) \in SUBSET (0 .. 6) /\ IsFiniteSet(Parities(d))
           /\ Overall(d) \in SUBSET {7}
           /\ Encode(d) \in SUBSET (0 .. 7) /\ IsFiniteSet(Encode(d))
<1>1. Parities(d) \in SUBSET (0 .. 6)
  BY DEF Parities
<1>2. Overall(d) \in SUBSET {7}
  BY Zenon DEF Overall
<1>3. Encode(d) \in SUBSET (0 .. 7)
  <2>1. (0 .. 6) \union {7} \in SUBSET (0 .. 7)
    OBVIOUS
  <2> QED BY Zenon, <1>1, <1>2, <2>1, EncodeParts
<1>4. 0 \in Int /\ 6 \in Int /\ 7 \in Int
  OBVIOUS
<1>5. IsFiniteSet(0 .. 6) /\ IsFiniteSet(0 .. 7)
  BY Zenon, <1>4, FS_Interval
<1> QED BY Zenon, <1>1, <1>2, <1>3, <1>5, FS_Subset

\* The last check bit is a parity of all the others and the data.
LEMMA OverallLinear ==
    ASSUME NEW A, NEW B
    PROVE  Overall(Xor(A, B)) = Xor(Overall(A), Overall(B))
<1> DEFINE Seen(d) == Xor(Parities(d), Both(d))
<1>1. Seen(Xor(A, B)) = Xor(Seen(A), Seen(B))
  BY ParitiesLinear, BothLinear, XorXor
<1>2. IsFiniteSet(Seen(A)) /\ IsFiniteSet(Seen(B))
  BY CodeBits, PartsInData, DataFinite, XorCardinality
<1>3. Odd(Seen(Xor(A, B))) <=> ~ (Odd(Seen(A)) <=> Odd(Seen(B)))
  <2> HIDE DEF Seen
  <2> QED BY <1>1, <1>2, SumOdd
<1>4. \A d, j : j \in Overall(d) <=> (j = 7 /\ Odd(Seen(d)))
  BY Zenon DEF Overall
<1> HIDE DEF Seen
<1>5. ASSUME NEW j PROVE j \in Overall(Xor(A, B)) <=> ~ (j \in Overall(A) <=> j \in Overall(B))
  BY Zenon, <1>3, <1>4
<1>6. ASSUME NEW j PROVE j \in Overall(Xor(A, B)) <=> j \in Xor(Overall(A), Overall(B))
  BY <1>5 DEF Xor
<1> QED BY <1>6

\* secded_encode() of a sum of words is the sum of what it makes of each.
LEMMA EncodeLinear ==
    ASSUME NEW A, NEW B
    PROVE  Encode(Xor(A, B)) = Xor(Encode(A), Encode(B))
<1>1. \A d, e : Parities(d) \intersect Overall(e) = {}
  <2>1. ~ (7 \in 0 .. 6)
    OBVIOUS
  <2> QED BY Zenon, <2>1, CodeBits
<1>2. Encode(Xor(A, B)) = Xor(Parities(A), Parities(B)) \union Xor(Overall(A), Overall(B))
  BY Zenon, EncodeParts, ParitiesLinear, OverallLinear
<1>3. Encode(A) = Parities(A) \union Overall(A) /\ Encode(B) = Parities(B) \union Overall(B)
  BY Zenon, EncodeParts
<1> QED BY <1>1, <1>2, <1>3 DEF Xor

\* The same for the syndromes.
LEMMA SyndromeLinear ==
    ASSUME NEW A, NEW B
    PROVE  SyndromeOf(Xor(A, B)) = Xor(SyndromeOf(A), SyndromeOf(B))
<1> DEFINE f == [b \in CheckBits |-> b - 64]
           C(d) == ImageOf(f, d \intersect CheckBits)
<1>1. \A d : {b - 64 : b \in d \intersect CheckBits} = C(d)
  BY DEF ImageOf
<1>2. \A b, c \in CheckBits : f[b] = f[c] => b = c
  BY DEF CheckBits
<1>3. \A d : SyndromeOf(d) = Xor(Encode(d \intersect DataBits), C(d))
  BY Zenon, <1>1 DEF SyndromeOf
<1>4. Encode(Xor(A, B) \intersect DataBits)
        = Xor(Encode(A \intersect DataBits), Encode(B \intersect DataBits))
  <2>1. Xor(A, B) \intersect DataBits = Xor(A \intersect DataBits, B \intersect DataBits)
    BY XorMask
  <2> QED BY Zenon, <2>1, EncodeLinear
<1>5. C(Xor(A, B)) = Xor(C(A), C(B))
  <2> HIDE DEF f
  <2> QED BY <1>2 DEF Xor, ImageOf
<1> HIDE DEF C
<1>6. Xor(Xor(Encode(A \intersect DataBits), Encode(B \intersect DataBits)), Xor(C(A), C(B)))
        = Xor(Xor(Encode(A \intersect DataBits), C(A)), Xor(Encode(B \intersect DataBits), C(B)))
  BY XorXor
<1> QED BY Zenon, <1>3, <1>4, <1>5, <1>6

LEMMA SyndromeBits ==
    ASSUME NEW d
    PROVE  SyndromeOf(d) \in SUBSET (0 .. 7) /\ IsFiniteSet(SyndromeOf(d))
<1>1. \A x \in {b - 64 : b \in d \intersect CheckBits} : x \in 0 .. 7
  BY DEF CheckBits
<1>2. SyndromeOf(d) \in SUBSET (0 .. 7)
  <2>1. \A x \in Encode(d \intersect DataBits) : x \in 0 .. 7
    BY Zenon, CodeBits
  <2> DEFINE U == Encode(d \intersect DataBits)
             V == {b - 64 : b \in d \intersect CheckBits}
  <2>2. \A x \in Xor(U, V) : x \in 0 .. 7
    <3> HIDE DEF U, V
    <3>1. \A x \in Xor(U, V) : x \in U \/ x \in V
      BY Zenon DEF Xor
    <3> QED BY Zenon, <1>1, <2>1, <3>1 DEF U, V
  <2> QED BY Zenon, <2>2 DEF SyndromeOf
<1>3. 0 \in Int /\ 7 \in Int
  OBVIOUS
<1>4. IsFiniteSet(0 .. 7)
  BY Zenon, <1>3, FS_Interval
<1> QED BY Zenon, <1>2, <1>4, FS_Subset

-----------------------------------------------------------------------------
(* What the decoder makes of up to three flipped bits.                     *)

LEMMA NamedType ==
    ASSUME NEW s
    PROVE  Named(s) \in Nat
BY DEF Named

LEMMA SingleSyndrome ==
    ASSUME NEW a \in SecdedBits
    PROVE  /\ Odd(SyndromeOf({a})) /\ SyndromeOf({a}) # {}
           /\ Verdict(SyndromeOf({a})) = 1 /\ BitTable[Named(SyndromeOf({a})) + 1] = a
<1>1. /\ Odd(SyndromeOf({a})) /\ Named(SyndromeOf({a})) < 72 /\ Len(BitTable) = 72
      /\ BitTable[Named(SyndromeOf({a})) + 1] = a
  BY Zenon, TableAssumption DEF SecdedBits
<1>2. SyndromeOf({a}) # {}
  BY Zenon, <1>1, OddEmpty
<1>3. ~ (Named(SyndromeOf({a})) >= Len(BitTable))
  BY <1>1, NamedType
<1> QED BY Zenon, <1>1, <1>2, <1>3 DEF Verdict

LEMMA NoSyndrome == SyndromeOf({}) = {}
<1>1. Xor({}, {}) = {}
  BY DEF Xor
<1>2. \A X : Xor(X, X) = {}
  BY DEF Xor
<1> QED BY Zenon, <1>1, <1>2, SyndromeLinear

LEMMA DoubleSyndrome ==
    ASSUME NEW a \in SecdedBits, NEW b \in SecdedBits, a # b
    PROVE  ~ Odd(SyndromeOf({a, b})) /\ SyndromeOf({a, b}) # {}
<1>1. {a, b} = Xor({a}, {b})
  BY DEF Xor
<1>2. SyndromeOf({a, b}) = Xor(SyndromeOf({a}), SyndromeOf({b}))
  BY Zenon, <1>1, SyndromeLinear
<1>3. ~ Odd(SyndromeOf({a, b}))
  BY Zenon, <1>2, SyndromeBits, SingleSyndrome, SumOdd
<1>4. SyndromeOf({a}) # SyndromeOf({b})
  BY Zenon, SingleSyndrome
<1>5. \A X, Y : X # Y => Xor(X, Y) # {}
  BY DEF Xor
<1> QED BY Zenon, <1>2, <1>3, <1>4, <1>5

LEMMA TripleSyndrome ==
    ASSUME NEW a \in SecdedBits, NEW b \in SecdedBits, NEW c \in SecdedBits,
           a # b, a # c, b # c
    PROVE  Odd(SyndromeOf({a, b, c})) /\ SyndromeOf({a, b, c}) # {}
<1>1. {a, b, c} = Xor({a, b}, {c})
  BY DEF Xor
<1>2. SyndromeOf({a, b, c}) = Xor(SyndromeOf({a, b}), SyndromeOf({c}))
  BY Zenon, <1>1, SyndromeLinear
<1>3. IsFiniteSet(SyndromeOf({a, b})) /\ IsFiniteSet(SyndromeOf({c}))
  BY Zenon, SyndromeBits
<1>4. ~ Odd(SyndromeOf({a, b})) /\ Odd(SyndromeOf({c}))
  BY Zenon, SingleSyndrome, DoubleSyndrome
<1>5. Odd(SyndromeOf({a, b, c}))
  BY Zenon, <1>2, <1>3, <1>4, SumOdd
<1> QED BY Zenon, <1>5, OddEmpty

-----------------------------------------------------------------------------
(* The invariant of secded_repair().                                       *)

Answer(bits) == Verdict(SyndromeOf(bits))

\* The word after secded_decode().
Decoded(bits) ==
    IF Answer(bits) = 1 THEN Xor(bits, {BitTable[Named(SyndromeOf(bits)) + 1]}) ELSE bits

\* What the words so far have contributed.
SecdedSums ==
    LET done == 0 .. word - 1 IN
    /\ failed <=> \E w \in done : Answer(corrupted[w]) > 1
    /\ (\A w \in done : Answer(corrupted[w]) <= 1)
         => ret = Cardinality({w \in done : Answer(corrupted[w]) = 1})
    /\ (\E w \in done : Answer(corrupted[w]) # 0) => ret # 0

SecdedWords ==
    \A w \in 0 .. Words - 1 :
        flipped[w] = IF w < word THEN Decoded(corrupted[w]) ELSE corrupted[w]

SecdedTypes ==
    /\ corrupted \in [0 .. Words - 1 -> SUBSET SecdedBits]
    /\ flipped \in [0 .. Words - 1 -> SUBSET SecdedBits]
    /\ word \in 0 .. Words
    /\ ret \in Nat /\ ret <= 3 * word
    /\ failed \in BOOLEAN

SecdedInv == SecdedTypes /\ SecdedWords /\ SecdedSums

LEMMA AnswerType ==
    ASSUME NEW bits
    PROVE  /\ Answer(bits) \in 0 .. 3
           /\ Answer(bits) = 0 <=> SyndromeOf(bits) = {}
<1>1. CASE SyndromeOf(bits) = {}
  BY <1>1 DEF Answer, Verdict
<1>2. CASE SyndromeOf(bits) # {}
  <2>1. Answer(bits) = 1 \/ Answer(bits) = 2 \/ Answer(bits) = 3
    BY Zenon, <1>2 DEF Answer, Verdict
  <2> QED BY <1>2, <2>1
<1> QED BY <1>1, <1>2

LEMMA DecodedType ==
    ASSUME NEW bits \in SUBSET SecdedBits
    PROVE  Decoded(bits) \in SUBSET SecdedBits
<1>1. CASE Answer(bits) = 1
  <2>1. SyndromeOf(bits) # {} /\ ~ (Named(SyndromeOf(bits)) >= Len(BitTable))
    <3>1. \A s : Verdict(s) = 1 => s # {} /\ ~ (Named(s) >= Len(BitTable))
      BY DEF Verdict
    <3> QED BY Zenon, <1>1, <3>1 DEF Answer
  <2>2. Named(SyndromeOf(bits)) + 1 \in 1 .. 72
    <3>1. Named(SyndromeOf(bits)) \in Nat /\ Len(BitTable) = 72
      BY Zenon, NamedType, TableAssumption
    <3> QED BY <2>1, <3>1
  <2>3. \A i \in 1 .. 72 : BitTable[i] \in SecdedBits
    BY Zenon, TableAssumption DEF SecdedBits
  <2>4. PICK e \in SecdedBits : e = BitTable[Named(SyndromeOf(bits)) + 1]
    BY Zenon, <2>2, <2>3
  <2>5. Xor(bits, {e}) \in SUBSET SecdedBits
    BY DEF Xor
  <2>6. Decoded(bits) = Xor(bits, {e})
    BY Zenon, <1>1, <2>4 DEF Decoded
  <2> QED BY Zenon, <2>5, <2>6
<1>2. CASE Answer(bits) # 1
  BY Zenon, <1>2 DEF Decoded
<1> QED BY Zenon, <1>1, <1>2

LEMMA SecdedInitially == SecdedInit => SecdedInv
<1> SUFFICES ASSUME NEW input \in SecdedInputs, SecdedCall(input) PROVE SecdedInv
  BY Zenon DEF SecdedInit
<1>1. SecdedTypes
  <2>1. Words \in Nat /\ input \in [0 .. Words - 1 -> SUBSET SecdedBits]
    BY Zenon, SecdedAssumption DEF SecdedBits
  <2>2. 0 \in 0 .. Words /\ 0 \in Nat /\ 0 <= 3 * 0
    BY <2>1
  <2> QED BY Zenon, <2>1, <2>2 DEF SecdedTypes, SecdedCall
<1>2. SecdedWords
  BY DEF SecdedWords, SecdedCall
<1>3. SecdedSums
  <2>1. word = 0 /\ ret = 0 /\ failed = FALSE /\ 0 .. word - 1 = {}
    BY DEF SecdedCall
  <2>2. Cardinality({}) = 0
    BY FS_EmptySet
  <2> QED BY Zenon, <2>1, <2>2 DEF SecdedSums
<1> QED BY <1>1, <1>2, <1>3 DEF SecdedInv

\* One word more.
LEMMA SecdedStep == SecdedInv /\ Decode => SecdedInv'
<1> SUFFICES ASSUME SecdedInv, Decode PROVE SecdedInv'
  OBVIOUS
<1> USE DEF SecdedInv
<1>1. Words \in Nat /\ word \in Nat /\ word < Words /\ word' = word + 1
  BY SecdedAssumption DEF SecdedTypes, Decode
<1>2. word \in 0 .. Words - 1 /\ word \in DOMAIN flipped
  BY <1>1 DEF SecdedTypes
<1>3. PICK bits, r :
        /\ bits = corrupted[word] /\ bits = flipped[word] /\ r = Answer(bits)
        /\ flipped' = [flipped EXCEPT ![word] = Decoded(bits)]
        /\ failed' = (failed \/ r > 1)
        /\ ret' = ret + r /\ corrupted' = corrupted
  <2>1. flipped[word] = corrupted[word]
    BY <1>1, <1>2 DEF SecdedWords
  <2>2. /\ flipped' = [flipped EXCEPT ![word] = Decoded(flipped[word])]
        /\ failed' = (failed \/ Answer(flipped[word]) > 1)
        /\ ret' = ret + Answer(flipped[word]) /\ corrupted' = corrupted
    BY Zenon, <1>2 DEF Decode, Answer, Decoded
  <2> QED BY Zenon, <2>1, <2>2
<1>4. bits \in SUBSET SecdedBits /\ Decoded(bits) \in SUBSET SecdedBits /\ r \in 0 .. 3
  BY <1>2, <1>3, DecodedType, AnswerType DEF SecdedTypes
<1>5. SecdedTypes'
  <2>1. flipped' \in [0 .. Words - 1 -> SUBSET SecdedBits]
    BY Zenon, <1>3, <1>4 DEF SecdedTypes
  <2>2. word' \in 0 .. Words /\ ret' \in Nat /\ ret' <= 3 * word'
    BY <1>1, <1>3, <1>4 DEF SecdedTypes
  <2>3. failed' \in BOOLEAN
    BY Zenon, <1>3
  <2> QED BY Zenon, <1>3, <2>1, <2>2, <2>3 DEF SecdedTypes
<1>6. SecdedWords'
  <2> SUFFICES ASSUME NEW w \in 0 .. Words - 1
               PROVE  flipped'[w] = IF w < word' THEN Decoded(corrupted[w]) ELSE corrupted[w]
    BY Zenon, <1>3 DEF SecdedWords
  <2>1. w \in DOMAIN flipped
    BY DEF SecdedTypes
  <2>2. CASE w = word
    <3>1. flipped'[w] = Decoded(corrupted[w])
      BY Zenon, <1>3, <2>1, <2>2
    <3>2. w < word'
      BY <1>1, <2>2
    <3> QED BY Zenon, <3>1, <3>2
  <2>3. CASE w # word
    <3>1. flipped'[w] = flipped[w]
      BY <1>3, <2>1, <2>3
    <3>2. w < word' <=> w < word
      BY <1>1, <2>3
    <3> QED BY Zenon, <3>1, <3>2 DEF SecdedWords
  <2> QED BY <2>2, <2>3
<1>7. SecdedSums'
  <2> DEFINE done == 0 .. word - 1
             ones == {w \in done : Answer(corrupted[w]) = 1}
  <2>1. 0 .. word' - 1 = done \union {word} /\ word \notin done
    BY <1>1
  <2>2. corrupted' = corrupted /\ r = Answer(corrupted[word])
    BY <1>3
  <2>3. failed' <=> \E w \in done \union {word} : Answer(corrupted[w]) > 1
    <3>1. failed <=> \E w \in done : Answer(corrupted[w]) > 1
      BY Zenon DEF SecdedSums
    <3> QED BY Zenon, <1>3, <2>2, <3>1
  <2>4. ASSUME \A w \in done \union {word} : Answer(corrupted[w]) <= 1
        PROVE  ret' = Cardinality({w \in done \union {word} : Answer(corrupted[w]) = 1})
    <3>1. ret = Cardinality(ones)
      BY Zenon, <2>4 DEF SecdedSums
    <3>2. IsFiniteSet(ones)
      <4>1. IsFiniteSet(done)
        BY <1>1, FS_Interval
      <4> QED BY Zenon, <4>1, FS_Subset
    <3>3. r = 0 \/ r = 1
      <4>1. r <= 1
        BY Zenon, <2>2, <2>4
      <4> QED BY <1>4, <4>1
    <3>4. CASE r = 0
      <4>1. {w \in done \union {word} : Answer(corrupted[w]) = 1} = ones
        <5>1. ~ (Answer(corrupted[word]) = 1)
          BY <2>2, <3>4
        <5> QED BY Zenon, <5>1
      <4>2. ret' = ret
        BY <1>3, <3>4 DEF SecdedTypes
      <4> QED BY Zenon, <3>1, <4>1, <4>2
    <3>5. CASE r = 1
      <4>1. {w \in done \union {word} : Answer(corrupted[w]) = 1} = ones \union {word}
        BY Zenon, <2>2, <3>5
      <4>2. word \notin ones
        BY Zenon, <2>1
      <4>3. Cardinality(ones \union {word}) = Cardinality(ones) + 1
        BY Zenon, <3>2, <4>2, FS_AddElement
      <4> QED BY <1>3, <3>1, <3>5, <4>1, <4>3
    <3> QED BY <3>3, <3>4, <3>5
  <2>5. ASSUME \E w \in done \union {word} : Answer(corrupted[w]) # 0 PROVE ret' # 0
    <3>1. ret # 0 \/ r # 0
      BY Zenon, <2>2, <2>5 DEF SecdedSums
    <3> QED BY <1>3, <1>4, <3>1 DEF SecdedTypes
  <2> QED BY Zenon, <2>1, <2>2, <2>3, <2>4, <2>5 DEF SecdedSums
<1> QED BY <1>5, <1>6, <1>7

\* Every word done so far got the answer and the repair that its flips call
\* for: the loop of secded_decode() keeps it word by word.
THEOREM SecdedInductive == SecdedSpec => []SecdedInv
<1>1. SecdedInv /\ [SecdedNext]_secded_vars => SecdedInv'
  <2>1. SecdedInv /\ UNCHANGED secded_vars => SecdedInv'
    BY DEF secded_vars, SecdedInv, SecdedTypes, SecdedWords, SecdedSums
  <2> QED BY <2>1, SecdedStep DEF SecdedNext
<1> QED BY <1>1, SecdedInitially, PTL DEF SecdedSpec

-----------------------------------------------------------------------------
(* What it means.                                                          *)

LEMMA SingleDecoded ==
    ASSUME NEW bits \in SUBSET SecdedBits, Cardinality(bits) = 1
    PROVE  Answer(bits) = 1 /\ Decoded(bits) = {}
<1>1. IsFiniteSet(bits)
  BY SecdedFinite
<1>2. PICK a : bits = {a}
  BY Zenon, <1>1, FS_Singleton
<1>3. a \in SecdedBits
  BY Zenon, <1>2
<1>4. Xor({a}, {a}) = {}
  BY DEF Xor
<1> QED BY Zenon, <1>2, <1>3, <1>4, SingleSyndrome DEF Answer, Decoded

LEMMA CleanDecoded ==
    ASSUME NEW bits, bits = {}
    PROVE  Answer(bits) = 0 /\ Decoded(bits) = {}
<1>1. Answer(bits) = 0
  BY Zenon, NoSyndrome DEF Answer, Verdict
<1>2. Answer(bits) # 1
  BY <1>1
<1> QED BY Zenon, <1>1, <1>2 DEF Decoded

LEMMA DoubleDecoded ==
    ASSUME NEW bits \in SUBSET SecdedBits, Cardinality(bits) = 2
    PROVE  Answer(bits) = 2 /\ Decoded(bits) = bits
<1>1. PICK a \in bits, b \in bits : a # b /\ bits = {a, b}
  BY SecdedFinite, PairOf
<1>2. Answer(bits) = 2
  BY Zenon, <1>1, DoubleSyndrome DEF Answer, Verdict
<1>3. Answer(bits) # 1
  BY <1>2
<1> QED BY Zenon, <1>2, <1>3 DEF Decoded

LEMMA TripleNoticed ==
    ASSUME NEW bits \in SUBSET SecdedBits, Cardinality(bits) <= 3, bits # {}
    PROVE  Answer(bits) # 0
<1>1. IsFiniteSet(bits) /\ Cardinality(bits) \in Nat
  BY Zenon, SecdedFinite, FS_CardinalityType
<1>2. Cardinality(bits) # 0
  BY Zenon, <1>1, FS_EmptySet
<1>3. CASE Cardinality(bits) = 1
  BY <1>3, SingleDecoded
<1>4. CASE Cardinality(bits) = 2
  BY <1>4, DoubleDecoded
<1>5. CASE Cardinality(bits) = 3
  <2>1. PICK a \in bits, b \in bits, c \in bits :
           a # b /\ a # c /\ b # c /\ bits = {a, b, c}
    BY Zenon, <1>1, <1>5, TripleOf
  <2>2. SyndromeOf(bits) # {}
    BY Zenon, <2>1, TripleSyndrome
  <2> QED BY Zenon, <2>2, AnswerType
<1> QED BY <1>1, <1>2, <1>3, <1>4, <1>5

\* The types of secded_repair()'s state, for every number of words.
THEOREM SecdedTyped == SecdedSpec => []SecdedTypeOK
<1>1. SecdedInv => SecdedTypeOK
  <2> SUFFICES ASSUME SecdedTypes PROVE SecdedTypeOK
    BY DEF SecdedInv
  <2>1. ret \in 0 .. 3 * Words
    BY SecdedAssumption DEF SecdedTypes
  <2> QED BY Zenon, <2>1 DEF SecdedTypes, SecdedTypeOK, SecdedBits
<1> QED BY <1>1, SecdedInductive, PTL

\* secded_repair() repairs each word with one flipped bit, leaves and reports
\* each with two, and returns the number of repairs if there are no others.
THEOREM Repairs == SecdedSpec => []Repaired
<1>1. SecdedInv => Repaired
  <2> SUFFICES ASSUME SecdedInv, SecdedEnded PROVE Repaired
    BY Zenon DEF Repaired
  <2> DEFINE all == 0 .. Words - 1
             single == {w \in all : Cardinality(corrupted[w]) = 1}
             double == {w \in all : Cardinality(corrupted[w]) = 2}
             clean == {w \in all : corrupted[w] = {}}
  <2>1. /\ DOMAIN corrupted = all /\ \A w \in all : corrupted[w] \in SUBSET SecdedBits
        /\ 0 .. word - 1 = all
    BY DEF SecdedInv, SecdedTypes, SecdedEnded
  <2>2. \A w \in all : flipped[w] = Decoded(corrupted[w])
    BY SecdedAssumption DEF SecdedInv, SecdedWords, SecdedEnded
  <2> HIDE DEF all
  <2>3. \A w \in single : Answer(corrupted[w]) = 1 /\ flipped[w] = {}
    BY Zenon, <2>1, <2>2, SingleDecoded
  <2>4. \A w \in double : Answer(corrupted[w]) = 2 /\ flipped[w] = corrupted[w]
    BY Zenon, <2>1, <2>2, DoubleDecoded
  <2>5. \A w \in clean : Answer(corrupted[w]) = 0 /\ flipped[w] = {}
    BY Zenon, <2>2, CleanDecoded
  <2>6. double # {} => SecdedResult = -1
    <3>1. ASSUME NEW w \in double PROVE failed
      <4>1. Answer(corrupted[w]) > 1
        BY <2>4
      <4> QED BY Zenon, <2>1, <4>1 DEF SecdedInv, SecdedSums
    <3> QED BY Zenon, <3>1 DEF SecdedResult
  <2>7. ASSUME single \union clean = all PROVE SecdedResult = Cardinality(single)
    <3>1. \A w \in all : Answer(corrupted[w]) = 1 \/ Answer(corrupted[w]) = 0
      BY Zenon, <2>3, <2>5, <2>7
    <3>2. \A w \in all : Answer(corrupted[w]) <= 1 /\ ~ (Answer(corrupted[w]) > 1)
      BY <3>1
    <3>3. {w \in all : Answer(corrupted[w]) = 1} = single
      <4>1. \A w \in clean : ~ (Answer(corrupted[w]) = 1)
        BY <2>5
      <4> QED BY Zenon, <2>3, <2>7, <4>1
    <3>4. ~ failed /\ ret = Cardinality({w \in all : Answer(corrupted[w]) = 1})
      BY Zenon, <2>1, <3>2 DEF SecdedInv, SecdedSums
    <3> QED BY Zenon, <3>3, <3>4 DEF SecdedResult
  <2>8. \A w \in single \union clean : flipped[w] = {}
    BY Zenon, <2>3, <2>5
  <2>9. \A w \in double : flipped[w] = corrupted[w]
    BY Zenon, <2>4
  <2> HIDE DEF single, double, clean
  <2>10. /\ {w \in DOMAIN corrupted : Cardinality(corrupted[w]) = 1} = single
         /\ {w \in DOMAIN corrupted : Cardinality(corrupted[w]) = 2} = double
         /\ {w \in DOMAIN corrupted : corrupted[w] = {}} = clean
    BY Zenon, <2>1 DEF single, double, clean
  <2> QED BY Zenon, <2>1, <2>6, <2>7, <2>8, <2>9, <2>10 DEF Repaired
<1> QED BY <1>1, SecdedInductive, PTL

\* secded_repair() does not return zero while a word with up to three flipped
\* bits is wrong.
THEOREM Noticed == SecdedSpec => []NeverSilent
<1>1. SecdedInv => NeverSilent
  <2> SUFFICES ASSUME SecdedInv, SecdedEnded, \A w \in DOMAIN corrupted : Cardinality(corrupted[w]) <= 3,
                      NEW w \in DOMAIN corrupted, flipped[w] # {}
               PROVE  SecdedResult # 0
    BY Zenon DEF NeverSilent
  <2>1. /\ w \in 0 .. Words - 1 /\ corrupted[w] \in SUBSET SecdedBits /\ Cardinality(corrupted[w]) <= 3
        /\ 0 .. word - 1 = 0 .. Words - 1
    BY DEF SecdedInv, SecdedTypes, SecdedEnded
  <2>2. flipped[w] = Decoded(corrupted[w])
    BY <2>1, SecdedAssumption DEF SecdedInv, SecdedWords, SecdedEnded
  <2>3. corrupted[w] # {}
    BY Zenon, <2>2, CleanDecoded
  <2>4. Answer(corrupted[w]) # 0
    BY Zenon, <2>1, <2>3, TripleNoticed
  <2>5. ret # 0
    BY Zenon, <2>1, <2>4 DEF SecdedInv, SecdedSums
  <2> QED BY <2>5 DEF SecdedResult
<1> QED BY <1>1, SecdedInductive, PTL

-----------------------------------------------------------------------------
(* AlphaCode, for every set of flipped bits.                               *)
(*                                                                         *)
(* The code is linear, so that what holds of the errors of one bit holds   *)
(* of the errors of a chip.  The inductive invariant names the data that   *)
(* each call of the search began with: there is one flipped bit between a  *)
(* call and the next, and so a call that fails leaves what its caller had, *)
(* and one that succeeds has changed no more bits than the first budget.   *)

(* The alpha code is linear.                                               *)

WordBits == 0 .. 63
Turns16 == {0, 16, 32, 48}

LEMMA BitsFinite ==
    /\ \A A \in SUBSET AllBits : IsFiniteSet(A)
    /\ \A s \in SUBSET WordBits : IsFiniteSet(s)
<1>1. 0 \in Int /\ 63 \in Int /\ 575 \in Int
  OBVIOUS
<1>2. IsFiniteSet(0 .. 63) /\ IsFiniteSet(0 .. 575)
  BY Zenon, <1>1, FS_Interval
<1> QED BY Zenon, <1>2, FS_Subset DEF AllBits, WordBits

LEMMA TabledColumn == \A p \in 0 .. 511 : Column[p] = Pattern[p]
BY Zenon, TablesAssumption

LEMMA ColumnType == \A p \in AllBits : Column[p] \in SUBSET WordBits
<1> SUFFICES ASSUME NEW p \in AllBits PROVE Column[p] \in SUBSET WordBits
  OBVIOUS
<1>1. CASE p < 512
  <2>1. Column[p] = Rotl({0} \union AlphaBit[p \div 64 + 1], p % 64)
    BY <1>1 DEF Column
  <2>2. p \div 64 + 1 \in 1 .. 8 /\ p % 64 \in 0 .. 63
    BY <1>1 DEF AllBits
  <2>3. \A i \in 1 .. 8 : AlphaBit[i] \in SUBSET Int
    BY DEF AlphaBit
  <2>4. \A A \in SUBSET Int, r \in 0 .. 63 : Rotl(A, r) \in SUBSET WordBits
    BY DEF Rotl, WordBits
  <2> QED BY <2>1, <2>2, <2>3, <2>4
<1>2. CASE ~ (p < 512)
  <2>1. Column[p] = {p - 512}
    BY <1>2 DEF Column
  <2> QED BY <2>1, <1>2 DEF AllBits, WordBits
<1> QED BY <1>1, <1>2

LEMMA CheckColumn == \A p \in 512 .. 575 : Column[p] = {p - 512}
BY DEF Column, AllBits

LEMMA SyndromeType == \A A : Syndrome(A) \in SUBSET WordBits
BY DEF Syndrome, WordBits

\* The bits whose syndrome has the bit k.
Having(A, k) == {p \in A : k \in Column[p]}

LEMMA SyndromeOdd == \A A : \A k : k \in Syndrome(A) <=> k \in WordBits /\ Odd(Having(A, k))
BY DEF Syndrome, Having, WordBits

LEMMA HavingFinite ==
    ASSUME NEW A \in SUBSET AllBits, NEW k
    PROVE  IsFiniteSet(Having(A, k))
<1>1. Having(A, k) \in SUBSET AllBits
  BY DEF Having
<1> QED BY <1>1, BitsFinite

\* alpha_syndrome() of a sum is the sum of the syndromes.
LEMMA SyndromeXor ==
    ASSUME NEW A \in SUBSET AllBits, NEW B \in SUBSET AllBits
    PROVE  Syndrome(Xor(A, B)) = Xor(Syndrome(A), Syndrome(B))
<1>1. ASSUME NEW k \in WordBits
      PROVE  k \in Syndrome(Xor(A, B)) <=> k \in Xor(Syndrome(A), Syndrome(B))
  <2>1. Having(Xor(A, B), k) = Xor(Having(A, k), Having(B, k))
    BY DEF Having, Xor
  <2>2. Odd(Having(Xor(A, B), k)) <=> ~ (Odd(Having(A, k)) <=> Odd(Having(B, k)))
    BY <2>1, HavingFinite, SumOdd
  <2>3. k \in Syndrome(Xor(A, B)) <=> ~ (k \in Syndrome(A) <=> k \in Syndrome(B))
    BY <2>2, SyndromeOdd
  <2> QED BY <2>3 DEF Xor
<1>2. Syndrome(Xor(A, B)) \in SUBSET WordBits /\ Xor(Syndrome(A), Syndrome(B)) \in SUBSET WordBits
  BY SyndromeType, XorSubset
<1> QED BY <1>1, <1>2

LEMMA OddSingle == \A x : Odd({x})
<1>1. \A x : Cardinality({x}) = 1
  BY Zenon, FS_Singleton
<1> QED BY <1>1 DEF Odd

LEMMA SyndromeNone == Syndrome({}) = {}
<1>1. \A k : Having({}, k) = {}
  BY DEF Having
<1> QED BY <1>1, SyndromeOdd, OddEmpty

LEMMA SyndromeOne == \A p \in AllBits : Syndrome({p}) = Column[p]
<1> SUFFICES ASSUME NEW p \in AllBits PROVE Syndrome({p}) = Column[p]
  OBVIOUS
<1>1. \A k : Having({p}, k) = IF k \in Column[p] THEN {p} ELSE {}
  BY DEF Having
<1>2. \A k : k \in Syndrome({p}) <=> k \in WordBits /\ k \in Column[p]
  BY <1>1, SyndromeOdd, OddEmpty, OddSingle
<1> QED BY <1>2, ColumnType

\* Check bits that are flipped are their own syndrome.
LEMMA ParityBits ==
    ASSUME NEW s \in SUBSET WordBits
    PROVE  /\ InParity(s) \in SUBSET (512 .. 575)
           /\ InParity(s) \in SUBSET AllBits
           /\ Syndrome(InParity(s)) = s
           /\ Cardinality(InParity(s)) = Cardinality(s)
<1>1. InParity(s) \in SUBSET (512 .. 575) /\ InParity(s) \in SUBSET AllBits
  BY DEF InParity, Shifted, WordBits, AllBits
<1>2. \A k \in WordBits : Having(InParity(s), k) = IF k \in s THEN {k + 512} ELSE {}
  <2>1. \A p \in InParity(s) : Column[p] = {p - 512}
    BY <1>1, CheckColumn
  <2>2. \A p : p \in InParity(s) <=> p \in 512 .. 575 /\ p - 512 \in s
    BY DEF InParity, Shifted, WordBits
  <2> QED BY <2>1, <2>2 DEF Having, WordBits
<1>3. ASSUME NEW k \in WordBits PROVE k \in Syndrome(InParity(s)) <=> k \in s
  <2>1. k \in Syndrome(InParity(s)) <=> Odd(Having(InParity(s), k))
    BY SyndromeOdd
  <2>2. CASE k \in s
    BY <1>2, <2>1, <2>2, OddSingle
  <2>3. CASE k \notin s
    BY <1>2, <2>1, <2>3, OddEmpty
  <2> QED BY <2>2, <2>3
<1>4. Syndrome(InParity(s)) = s
  BY <1>3, SyndromeType
<1>5. Cardinality(InParity(s)) = Cardinality(s)
  <2> DEFINE f == [b \in s |-> b + 512]
  <2>1. f \in Bijection(s, InParity(s))
    BY DEF Bijection, Injection, Surjection, IsInjective, InParity, Shifted, WordBits
  <2>2. IsFiniteSet(s)
    BY BitsFinite
  <2> HIDE DEF f
  <2>3. ExistsBijection(s, InParity(s))
    BY Zenon, <2>1 DEF ExistsBijection
  <2> QED BY Zenon, <2>2, <2>3, FS_Bijection
<1> QED BY <1>1, <1>4, <1>5

\* What a repair that flips X leaves.
LEMMA Flipping ==
    ASSUME NEW A \in SUBSET AllBits, NEW X \in SUBSET AllBits, Syndrome(X) = Syndrome(A)
    PROVE  Xor(A, X) \in SUBSET AllBits /\ Syndrome(Xor(A, X)) = {}
BY XorSubset, SyndromeXor DEF Xor

-----------------------------------------------------------------------------
(* Rotations and products are linear, too.                                 *)

LEMMA RotlMember ==
    ASSUME NEW S \in SUBSET WordBits, NEW r \in Turns16, NEW m
    PROVE  m \in Rotl(S, r) <=> m \in WordBits /\ (m - r) % 64 \in S
<1>1. ASSUME NEW b \in WordBits PROVE (b + r) % 64 \in WordBits /\ (((b + r) % 64) - r) % 64 = b
  BY DEF WordBits, Turns16
<1>2. ASSUME m \in WordBits PROVE (m - r) % 64 \in WordBits /\ (((m - r) % 64) + r) % 64 = m
  BY <1>2 DEF WordBits, Turns16
<1>3. ASSUME m \in Rotl(S, r) PROVE m \in WordBits /\ (m - r) % 64 \in S
  <2>1. PICK b \in S : m = (b + r) % 64
    BY <1>3 DEF Rotl
  <2> QED BY <2>1, <1>1
<1>4. ASSUME m \in WordBits, (m - r) % 64 \in S PROVE m \in Rotl(S, r)
  BY <1>4, <1>2 DEF Rotl
<1> QED BY <1>3, <1>4

LEMMA RotlType ==
    ASSUME NEW S \in SUBSET WordBits, NEW r \in Turns16
    PROVE  Rotl(S, r) \in SUBSET WordBits
BY RotlMember

LEMMA RotlXor ==
    ASSUME NEW A \in SUBSET WordBits, NEW B \in SUBSET WordBits, NEW r \in Turns16
    PROVE  Rotl(Xor(A, B), r) = Xor(Rotl(A, r), Rotl(B, r))
<1>1. Xor(A, B) \in SUBSET WordBits
  BY XorSubset
<1>2. \A m : /\ m \in Rotl(Xor(A, B), r) <=> m \in WordBits /\ (m - r) % 64 \in Xor(A, B)
             /\ m \in Rotl(A, r) <=> m \in WordBits /\ (m - r) % 64 \in A
             /\ m \in Rotl(B, r) <=> m \in WordBits /\ (m - r) % 64 \in B
  BY <1>1, RotlMember
<1> QED BY <1>2, Zenon DEF Xor

LEMMA RotlNone == \A r : Rotl({}, r) = {}
BY DEF Rotl

LEMMA RotlSame ==
    ASSUME NEW A \in SUBSET WordBits, NEW B \in SUBSET WordBits, NEW r \in Turns16,
           Rotl(A, r) = Rotl(B, r)
    PROVE  A = B
<1>1. ASSUME NEW b \in WordBits PROVE b \in A <=> b \in B
  <2> DEFINE m == (b + r) % 64
  <2>1. m \in WordBits /\ (m - r) % 64 = b
    BY DEF WordBits, Turns16
  <2> HIDE DEF m
  <2>2. (m \in Rotl(A, r) <=> b \in A) /\ (m \in Rotl(B, r) <=> b \in B)
    BY <2>1, RotlMember
  <2> QED BY <2>2
<1> QED BY <1>1

LEMMA ProductXor ==
    ASSUME NEW A \in SUBSET WordBits, NEW B \in SUBSET WordBits, NEW M, NEW from, NEW to
    PROVE  Product(Xor(A, B), M, from, to) = Xor(Product(A, M, from, to), Product(B, M, from, to))
<1> DEFINE Part(S, k) == {a \in S : k - a \in M}
<1>1. ASSUME NEW k
      PROVE  Odd(Part(Xor(A, B), k)) <=> ~ (Odd(Part(A, k)) <=> Odd(Part(B, k)))
  <2>1. Part(Xor(A, B), k) = Xor(Part(A, k), Part(B, k))
    BY DEF Xor
  <2>2. IsFiniteSet(Part(A, k)) /\ IsFiniteSet(Part(B, k))
    <3>1. Part(A, k) \in SUBSET WordBits /\ Part(B, k) \in SUBSET WordBits
      OBVIOUS
    <3> QED BY <3>1, BitsFinite
  <2> HIDE DEF Part
  <2> QED BY <2>1, <2>2, SumOdd
<1>2. \A S : Product(S, M, from, to) = {k \in from .. to : Odd(Part(S, k))}
  BY DEF Product
<1> HIDE DEF Part
<1> QED BY <1>1, <1>2, Zenon DEF Xor

LEMMA ProductNone == \A M, from, to : Product({}, M, from, to) = {}
<1>1. \A M, k : {a \in {} : k - a \in M} = {}
  OBVIOUS
<1> QED BY <1>1, OddEmpty DEF Product

-----------------------------------------------------------------------------
(* The errors of one chip.                                                 *)

ChipBits == 0 .. 15

\* The bits of an error in one of the cases.
Err(k, e) == {ChipBit(k, j) : j \in e}

LEMMA CaseType == \A k \in Cases : k % 9 \in 0 .. 8 /\ Rotation(k) \in Turns16
BY DEF Cases, Rotation, Turns16

LEMMA ChipBitType ==
    /\ \A k \in Cases, j \in WordBits : ChipBit(k, j) \in AllBits
    /\ \A k \in Cases, i, j \in WordBits : ChipBit(k, i) = ChipBit(k, j) => i = j
<1> SUFFICES ASSUME NEW k \in Cases, NEW i \in WordBits, NEW j \in WordBits
             PROVE  ChipBit(k, j) \in AllBits /\ (ChipBit(k, i) = ChipBit(k, j) => i = j)
  OBVIOUS
<1>1. PICK c, r : c = k % 9 /\ r = Rotation(k) /\ c \in 0 .. 8 /\ r \in Turns16
  BY CaseType
<1>2. \A d \in WordBits : ChipBit(k, d) = (IF c = 0 THEN 512 ELSE 64 * (c - 1)) + ((d - r) % 64)
  BY <1>1 DEF ChipBit
<1>3. \A d \in WordBits : (d - r) % 64 \in 0 .. 63
  BY <1>1 DEF WordBits, Turns16
<1>4. (i - r) % 64 = (j - r) % 64 => i = j
  BY <1>1 DEF WordBits, Turns16
<1> QED BY <1>1, <1>2, <1>3, <1>4 DEF AllBits

LEMMA ErrType ==
    ASSUME NEW k \in Cases, NEW e \in SUBSET WordBits
    PROVE  /\ Err(k, e) \in SUBSET AllBits
           /\ Cardinality(Err(k, e)) = Cardinality(e)
<1>1. Err(k, e) \in SUBSET AllBits
  BY ChipBitType DEF Err
<1> DEFINE f == [j \in e |-> ChipBit(k, j)]
<1>2. f \in Bijection(e, Err(k, e))
  BY ChipBitType DEF Bijection, Injection, Surjection, IsInjective, Err
<1>3. IsFiniteSet(e)
  BY BitsFinite
<1> HIDE DEF f
<1>4. ExistsBijection(e, Err(k, e))
  BY Zenon, <1>2 DEF ExistsBijection
<1> QED BY Zenon, <1>1, <1>3, <1>4, FS_Bijection

LEMMA ChipBitsInWord == ChipBits \subseteq WordBits
BY DEF ChipBits, WordBits

\* One bit of an error after the other.
LEMMA ErrXor ==
    ASSUME NEW k \in Cases, NEW e \in SUBSET ChipBits, NEW j \in e
    PROVE  /\ Err(k, e) = Xor(Err(k, e \ {j}), {ChipBit(k, j)})
           /\ e = Xor(e \ {j}, {j})
           /\ Syndrome(Err(k, e)) = Xor(Syndrome(Err(k, e \ {j})), Column[ChipBit(k, j)])
           /\ Column[ChipBit(k, j)] \in SUBSET WordBits
<1>1. e = Xor(e \ {j}, {j})
  BY DEF Xor
<1>2. \A i \in e : i \in WordBits /\ j \in WordBits
  BY ChipBitsInWord
<1>3. Err(k, e) = Xor(Err(k, e \ {j}), {ChipBit(k, j)})
  <2>1. \A i \in e : ChipBit(k, i) = ChipBit(k, j) <=> i = j
    BY <1>2, ChipBitType
  <2>2. Err(k, e) = Err(k, e \ {j}) \union {ChipBit(k, j)}
    BY DEF Err
  <2>3. ChipBit(k, j) \notin Err(k, e \ {j})
    BY <2>1 DEF Err
  <2> QED BY <2>2, <2>3 DEF Xor
<1>4. ChipBit(k, j) \in AllBits /\ Err(k, e \ {j}) \in SUBSET AllBits
  <2>1. e \ {j} \in SUBSET WordBits
    BY ChipBitsInWord
  <2> QED BY <1>2, <2>1, ChipBitType, ErrType
<1>5. {ChipBit(k, j)} \in SUBSET AllBits
  BY <1>4
<1>6. Syndrome(Err(k, e)) = Xor(Syndrome(Err(k, e \ {j})), Column[ChipBit(k, j)])
  BY <1>3, <1>4, <1>5, SyndromeXor, SyndromeOne
<1> QED BY <1>1, <1>3, <1>4, <1>6, ColumnType

LEMMA ErrNone == \A k : Err(k, {}) = {}
BY DEF Err

\* chip_repair()'s products.
Upper(k, s) == Product(Rotl(s, Rotation(k)), AlphaIm[k % 9], 64, 127)

LEMMA ChipErrorXor ==
    ASSUME NEW k \in Cases, NEW s \in SUBSET WordBits, NEW t \in SUBSET WordBits
    PROVE  /\ ChipError(Xor(s, t), k) = Xor(ChipError(s, k), ChipError(t, k))
           /\ ChipError(s, k) \in SUBSET WordBits
<1>1. Rotation(k) \in Turns16
  BY CaseType
<1>2. Rotl(s, Rotation(k)) \in SUBSET WordBits /\ Rotl(t, Rotation(k)) \in SUBSET WordBits
      /\ Rotl(Xor(s, t), Rotation(k)) = Xor(Rotl(s, Rotation(k)), Rotl(t, Rotation(k)))
  BY <1>1, RotlType, RotlXor
<1>3. CASE k % 9 = 0
  BY <1>2, <1>3 DEF ChipError
<1>4. CASE k % 9 # 0
  <2>1. Upper(k, Xor(s, t)) = Xor(Upper(k, s), Upper(k, t))
    BY <1>2, ProductXor DEF Upper
  <2>2. \A u : Upper(k, u) \in SUBSET (64 .. 127)
    BY DEF Upper, Product
  <2>3. \A u : ChipError(u, k) = {j - 64 : j \in Upper(k, u)}
    BY <1>4 DEF ChipError, Upper
  <2>4. ASSUME NEW A \in SUBSET (64 .. 127), NEW B \in SUBSET (64 .. 127)
        PROVE  {j - 64 : j \in Xor(A, B)} = Xor({j - 64 : j \in A}, {j - 64 : j \in B})
    <3>1. \A S \in SUBSET (64 .. 127) : \A i : i \in {j - 64 : j \in S} <=> i \in 0 .. 63 /\ i + 64 \in S
      OBVIOUS
    <3>2. Xor(A, B) \in SUBSET (64 .. 127)
      BY XorSubset
    <3>3. \A i : i \in {j - 64 : j \in Xor(A, B)} <=> i \in Xor({j - 64 : j \in A}, {j - 64 : j \in B})
      BY <3>1, <3>2 DEF Xor
    <3> QED BY <3>3
  <2>5. ChipError(s, k) \in SUBSET WordBits
    BY <2>2, <2>3 DEF WordBits
  <2>6. ChipError(Xor(s, t), k) = {j - 64 : j \in Xor(Upper(k, s), Upper(k, t))}
    BY <2>1, <2>3
  <2>7. {j - 64 : j \in Xor(Upper(k, s), Upper(k, t))}
          = Xor({j - 64 : j \in Upper(k, s)}, {j - 64 : j \in Upper(k, t)})
    BY <2>2, <2>4
  <2> QED BY <2>3, <2>5, <2>6, <2>7
<1> QED BY <1>3, <1>4

LEMMA ChipErrorNone == \A k \in Cases : ChipError({}, k) = {}
BY RotlNone, ProductNone DEF ChipError

\* What ChipFits() tests, for an error and its rotated syndrome.
IsMultiple(k, e, s) == k % 9 # 0 => Product(e, AlphaMask[k % 9], 0, 63) = Rotl(s, Rotation(k))

LEMMA FitsIf ==
    \A s, k : ChipFits(s, k) <=> ChipError(s, k) \in SUBSET ChipBits /\ IsMultiple(k, ChipError(s, k), s)
BY DEF ChipFits, IsMultiple, ChipBits

\* Every error of a chip is found ...
LEMMA ErrorFound ==
    ASSUME NEW k \in Cases, NEW e \in SUBSET ChipBits
    PROVE  ChipError(Syndrome(Err(k, e)), k) = e /\ ChipFits(Syndrome(Err(k, e)), k)
<1> DEFINE S(x) == Syndrome(Err(k, x))
           T == {x \in SUBSET ChipBits : ChipError(S(x), k) = x /\ IsMultiple(k, x, S(x))}
<1>1. ASSUME NEW X \in SUBSET ChipBits, \A Y \in SUBSET X : Y # X => Y \in T
      PROVE  X \in T
  <2>1. CASE X = {}
    <3>1. S(X) = {}
      BY <2>1, ErrNone, SyndromeNone
    <3>2. ChipError(S(X), k) = X
      BY <2>1, <3>1, ChipErrorNone
    <3>3. IsMultiple(k, X, S(X))
      BY <2>1, <3>1, ProductNone, RotlNone DEF IsMultiple
    <3> QED BY <3>2, <3>3
  <2>2. CASE X # {}
    <3>1. PICK j \in X : TRUE
      BY <2>2
    <3> DEFINE Y == X \ {j}
               c == Column[ChipBit(k, j)]
    <3>2. X = Xor(Y, {j}) /\ S(X) = Xor(S(Y), c) /\ c \in SUBSET WordBits
      BY ErrXor
    <3>3. S(Y) \in SUBSET WordBits
      BY SyndromeType
    <3>4. Y \in T
      <4>1. Y \in SUBSET X /\ Y # X
        OBVIOUS
      <4> HIDE DEF T, Y
      <4> QED BY <1>1, <4>1
    <3>5. ChipError(c, k) = {j} /\ IsMultiple(k, {j}, c)
      <4>1. j \in 0 .. 15
        BY DEF ChipBits
      <4>2. ChipError(c, k) = {j} /\ ChipFits(c, k)
        BY <4>1, ChipAssumption, Zenon
      <4> QED BY <4>2, FitsIf
    <3>6. ChipError(S(X), k) = X
      <4>1. ChipError(S(X), k) = Xor(ChipError(S(Y), k), ChipError(c, k))
        <5> HIDE DEF S, c
        <5> QED BY <3>2, <3>3, ChipErrorXor
      <4> QED BY <3>2, <3>4, <3>5, <4>1
    <3>7. IsMultiple(k, X, S(X))
      <4> SUFFICES ASSUME k % 9 # 0
                   PROVE  Product(X, AlphaMask[k % 9], 0, 63) = Rotl(S(X), Rotation(k))
        BY DEF IsMultiple
      <4>1. Product(Y, AlphaMask[k % 9], 0, 63) = Rotl(S(Y), Rotation(k))
            /\ Product({j}, AlphaMask[k % 9], 0, 63) = Rotl(c, Rotation(k))
        BY <3>4, <3>5 DEF IsMultiple
      <4>2. Y \in SUBSET WordBits /\ {j} \in SUBSET WordBits
        BY ChipBitsInWord
      <4>3. Product(Xor(Y, {j}), AlphaMask[k % 9], 0, 63)
              = Xor(Product(Y, AlphaMask[k % 9], 0, 63), Product({j}, AlphaMask[k % 9], 0, 63))
        <5> HIDE DEF Y
        <5> QED BY <4>2, ProductXor
      <4>4. Rotl(Xor(S(Y), c), Rotation(k)) = Xor(Rotl(S(Y), Rotation(k)), Rotl(c, Rotation(k)))
        <5> HIDE DEF S, c
        <5> QED BY <3>2, <3>3, CaseType, RotlXor
      <4> QED BY <3>2, <4>1, <4>3, <4>4
    <3> QED BY <3>6, <3>7
  <2> QED BY <2>1, <2>2
<1>2. T \in SUBSET SUBSET ChipBits
  OBVIOUS
<1>3. IsFiniteSet(ChipBits)
  BY BitsFinite, ChipBitsInWord
<1>4. e \in T
  <2> HIDE DEF T
  <2>1. T = SUBSET ChipBits
    BY <1>1, <1>2, <1>3, FiniteSubsets
  <2> QED BY <2>1
<1> QED BY <1>4, FitsIf

\* ... and what is found has the syndrome.
LEMMA FoundError ==
    ASSUME NEW k \in Cases, NEW s \in SUBSET WordBits, ChipFits(s, k)
    PROVE  /\ ChipError(s, k) \in SUBSET ChipBits
           /\ s = Syndrome(Err(k, ChipError(s, k)))
           /\ ChipFlips(s, k) = Err(k, ChipError(s, k))
<1> DEFINE e == ChipError(s, k)
           t == Syndrome(Err(k, e))
<1>1. e \in SUBSET ChipBits /\ IsMultiple(k, e, s)
  BY FitsIf
<1>2. ChipError(t, k) = e /\ IsMultiple(k, e, t)
  <2> HIDE DEF e
  <2> QED BY <1>1, ErrorFound, FitsIf
<1>3. t \in SUBSET WordBits
  BY SyndromeType
<1>4. Rotl(s, Rotation(k)) = Rotl(t, Rotation(k))
  <2>1. CASE k % 9 = 0
    BY <1>2, <2>1 DEF ChipError
  <2>2. CASE k % 9 # 0
    BY <1>1, <1>2, <2>2 DEF IsMultiple
  <2> QED BY <2>1, <2>2
<1>5. s = t
  <2> HIDE DEF t
  <2> QED BY <1>3, <1>4, CaseType, RotlSame
<1>6. ChipFlips(s, k) = Err(k, e)
  <2>1. CASE k % 9 = 0
    <3>1. PICK r \in Turns16 : r = Rotation(k)
      BY CaseType
    <3>2. e = Rotl(s, r)
      BY <2>1, <3>1 DEF ChipError
    <3>3. Err(k, e) = {512 + ((j - r) % 64) : j \in Rotl(s, r)}
      BY <2>1, <3>1, <3>2 DEF Err, ChipBit
    <3>4. {512 + ((j - r) % 64) : j \in Rotl(s, r)} = {512 + ((((b + r) % 64) - r) % 64) : b \in s}
      BY DEF Rotl
    <3>5. \A b \in s : 512 + ((((b + r) % 64) - r) % 64) = b + 512
      BY DEF WordBits, Turns16
    <3>6. ChipFlips(s, k) = {b + 512 : b \in s}
      BY <2>1 DEF ChipFlips, InParity, Shifted
    <3>7. {512 + ((((b + r) % 64) - r) % 64) : b \in s} = {b + 512 : b \in s}
      BY <3>5
    <3> QED BY <3>3, <3>4, <3>6, <3>7
  <2>2. CASE k % 9 # 0
    BY <2>2 DEF ChipFlips, Err, ChipBit
  <2> QED BY <2>1, <2>2
<1> QED BY <1>1, <1>5, <1>6

-----------------------------------------------------------------------------
(* No two chips have errors with the same syndrome.                        *)

\* A test that is passed by no column but one is passed by the errors with
\* that column.
LEMMA Tested ==
    ASSUME NEW k \in Cases, NEW M, NEW i,
           \A j \in ChipBits : Odd(M \intersect Column[ChipBit(k, j)]) <=> j = i,
           NEW e \in SUBSET ChipBits
    PROVE  Odd(M \intersect Syndrome(Err(k, e))) <=> i \in e
<1> DEFINE S(x) == Syndrome(Err(k, x))
           T == {x \in SUBSET ChipBits : Odd(M \intersect S(x)) <=> i \in x}
<1>1. ASSUME NEW X \in SUBSET ChipBits, \A Y \in SUBSET X : Y # X => Y \in T
      PROVE  X \in T
  <2>1. CASE X = {}
    <3>1. S(X) = {}
      BY <2>1, ErrNone, SyndromeNone
    <3>2. M \intersect S(X) = {}
      BY <3>1
    <3>3. ~ Odd(M \intersect S(X))
      BY <3>2, OddEmpty, Zenon
    <3> QED BY <2>1, <3>3
  <2>2. CASE X # {}
    <3>1. PICK j \in X : TRUE
      BY <2>2
    <3> DEFINE Y == X \ {j}
               c == Column[ChipBit(k, j)]
    <3>2. S(X) = Xor(S(Y), c) /\ c \in SUBSET WordBits
      BY ErrXor
    <3>3. S(Y) \in SUBSET WordBits
      BY SyndromeType
    <3>4. IsFiniteSet(S(Y)) /\ IsFiniteSet(c)
      <4> HIDE DEF S, c
      <4> QED BY <3>2, <3>3, BitsFinite
    <3>5. Y \in T
      <4>1. Y \in SUBSET X /\ Y # X
        OBVIOUS
      <4> HIDE DEF T, Y
      <4> QED BY <1>1, <4>1
    <3>6. Odd(S(X) \intersect M) <=> ~ (Odd(S(Y) \intersect M) <=> Odd(c \intersect M))
      <4> HIDE DEF S, c
      <4> QED BY <3>2, <3>4, MaskOdd
    <3>7. Odd(M \intersect c) <=> j = i
      OBVIOUS
    <3>8. \A A : A \intersect M = M \intersect A
      OBVIOUS
    <3>9. (Odd(M \intersect S(Y)) <=> i \in Y) /\ (i \in X <=> ~ (i \in Y <=> j = i))
      BY <3>5
    <3> HIDE DEF S, c, Y
    <3> QED BY <3>6, <3>7, <3>8, <3>9
  <2> QED BY <2>1, <2>2
<1>2. T \in SUBSET SUBSET ChipBits
  OBVIOUS
<1>3. IsFiniteSet(ChipBits)
  BY BitsFinite, ChipBitsInWord
<1>4. e \in T
  <2> HIDE DEF T
  <2>1. T = SUBSET ChipBits
    BY <1>1, <1>2, <1>3, FiniteSubsets
  <2> QED BY <2>1
<1> QED BY <1>4

LEMMA TurnedType ==
    ASSUME NEW c \in Cases, NEW k \in Cases
    PROVE  /\ Turned(k, c) \in Cases
           /\ Turned(c, c) \in 0 .. 8
           /\ Turned(k, c) = Turned(c, c) => k = c
<1>1. k - 9 * (k \div 9) = k % 9 /\ k \div 9 \in 0 .. 3 /\ k % 9 \in 0 .. 8
  BY DEF Cases
<1>2. c - 9 * (c \div 9) = c % 9 /\ c \div 9 \in 0 .. 3 /\ c % 9 \in 0 .. 8
  BY DEF Cases
<1>3. PICK a \in 0 .. 3, b \in 0 .. 3, x \in 0 .. 8, y \in 0 .. 8 :
         a = k \div 9 /\ b = c \div 9 /\ x = k % 9 /\ y = c % 9
  BY <1>1, <1>2
<1>4. (a - b) % 4 \in 0 .. 3 /\ ((a - b) % 4 = 0 => a = b)
  OBVIOUS
<1>5. Turned(k, c) = x + 9 * ((a - b) % 4)
  BY <1>3 DEF Turned
<1>6. Turned(c, c) = y
  <2>1. Turned(c, c) = y + 9 * ((b - b) % 4)
    BY <1>3 DEF Turned
  <2> QED BY <2>1
<1> QED BY <1>1, <1>2, <1>3, <1>4, <1>5, <1>6 DEF Cases

\* The syndrome of an error, seen from another rotation.
LEMMA TurnedError ==
    ASSUME NEW c \in Cases, NEW k \in Cases, NEW e \in SUBSET ChipBits
    PROVE  Syndrome(Err(Turned(k, c), e)) = Rotl(Syndrome(Err(k, e)), Rotation(c))
<1> DEFINE S(x) == Syndrome(Err(k, x))
           U(x) == Syndrome(Err(Turned(k, c), x))
           T == {x \in SUBSET ChipBits : U(x) = Rotl(S(x), Rotation(c))}
<1>1. ASSUME NEW X \in SUBSET ChipBits, \A Y \in SUBSET X : Y # X => Y \in T
      PROVE  X \in T
  <2>1. CASE X = {}
    <3>1. S(X) = {} /\ U(X) = {}
      BY <2>1, ErrNone, SyndromeNone
    <3> QED BY <3>1, RotlNone
  <2>2. CASE X # {}
    <3>1. PICK j \in X : TRUE
      BY <2>2
    <3> DEFINE Y == X \ {j}
               d == Column[ChipBit(k, j)]
               t == Column[ChipBit(Turned(k, c), j)]
    <3>2. S(X) = Xor(S(Y), d) /\ d \in SUBSET WordBits
      BY ErrXor
    <3>3. U(X) = Xor(U(Y), t)
      <4>1. PICK w \in Cases : w = Turned(k, c)
        BY TurnedType
      <4>2. Syndrome(Err(w, X)) = Xor(Syndrome(Err(w, Y)), Column[ChipBit(w, j)])
        BY ErrXor
      <4> QED BY <4>1, <4>2
    <3>4. S(Y) \in SUBSET WordBits
      BY SyndromeType
    <3>5. U(Y) = Rotl(S(Y), Rotation(c))
      <4>1. Y \in SUBSET X /\ Y # X
        OBVIOUS
      <4>2. Y \in T
        <5> HIDE DEF T, Y
        <5> QED BY <1>1, <4>1
      <4> QED BY <4>2
    <3>6. t = Rotl(d, Rotation(c))
      <4>1. j \in 0 .. 15
        BY DEF ChipBits
      <4> QED BY <4>1, TurnAssumption, Zenon
    <3>7. Rotl(Xor(S(Y), d), Rotation(c)) = Xor(Rotl(S(Y), Rotation(c)), Rotl(d, Rotation(c)))
      <4> HIDE DEF S, d
      <4> QED BY <3>2, <3>4, CaseType, RotlXor
    <3>8. U(X) = Rotl(S(X), Rotation(c))
      BY <3>2, <3>3, <3>5, <3>6, <3>7
    <3> QED BY <3>8
  <2> QED BY <2>1, <2>2
<1>2. T \in SUBSET SUBSET ChipBits
  OBVIOUS
<1>3. IsFiniteSet(ChipBits)
  BY BitsFinite, ChipBitsInWord
<1>4. e \in T
  <2> HIDE DEF T
  <2>1. T = SUBSET ChipBits
    BY <1>1, <1>2, <1>3, FiniteSubsets
  <2> QED BY <2>1
<1> QED BY <1>4

\* Two chips have no syndrome in common.
LEMMA NoCommonSyndrome ==
    ASSUME NEW c \in Cases, NEW e \in SUBSET ChipBits, e # {},
           NEW k \in Cases, NEW f \in SUBSET ChipBits,
           Syndrome(Err(c, e)) = Syndrome(Err(k, f))
    PROVE  c = k
<1> SUFFICES ASSUME c # k PROVE FALSE
  OBVIOUS
<1>1. PICK a, b : a = Turned(c, c) /\ b = Turned(k, c) /\ a \in 0 .. 8 /\ b \in Cases /\ a # b
  BY TurnedType
<1>2. a \in Cases
  BY <1>1 DEF Cases
<1>3. Syndrome(Err(a, e)) = Syndrome(Err(b, f))
  BY <1>1, TurnedError
<1>4. PICK tests \in {WithChip(Without[b], a).tests} :
         \A i \in 0 .. 15 : \A j \in 0 .. 15 :
            /\ Odd(tests[i + 1] \intersect Column[ChipBit(a, j)]) <=> i = j
            /\ ~ Odd(tests[i + 1] \intersect Column[ChipBit(b, j)])
  <2>1. a \in 0 .. 8 /\ b \in Cases /\ a # b
    BY <1>1
  <2> QED BY ONLY <2>1, ApartAssumption
<1>5. PICK i \in e : TRUE
  OBVIOUS
<1>6. PICK M : M = tests[i + 1]
  OBVIOUS
<1>7. \A j \in ChipBits : /\ Odd(M \intersect Column[ChipBit(a, j)]) <=> j = i
                          /\ ~ Odd(M \intersect Column[ChipBit(b, j)])
  BY <1>4, <1>5, <1>6 DEF ChipBits
<1>8. Odd(M \intersect Syndrome(Err(a, e))) <=> i \in e
  BY <1>2, <1>7, Tested
<1>9. ~ Odd(M \intersect Syndrome(Err(b, f)))
  <2>1. PICK d : d = -1
    OBVIOUS
  <2>2. \A j \in ChipBits : j # d
    BY <2>1 DEF ChipBits
  <2>3. d \notin f
    BY <2>2
  <2>4. ASSUME NEW j \in ChipBits PROVE Odd(M \intersect Column[ChipBit(b, j)]) <=> j = d
    <3>1. ~ Odd(M \intersect Column[ChipBit(b, j)])
      BY <1>7
    <3>2. j # d
      BY <2>2
    <3> QED BY ONLY <3>1, <3>2
  <2>5. b \in Cases /\ f \in SUBSET ChipBits
    BY <1>1
  <2>6. \A j \in ChipBits : Odd(M \intersect Column[ChipBit(b, j)]) <=> j = d
    BY <2>4
  <2>7. Odd(M \intersect Syndrome(Err(b, f))) <=> d \in f
    BY ONLY <2>5, <2>6, Tested, Zenon
  <2> QED BY <2>3, <2>7
<1> QED BY <1>3, <1>5, <1>8, <1>9

\* The failure of a chip is an error in one of the cases.
LEMMA ChipDamage ==
    ASSUME NEW A \in SUBSET AllBits, OneChip(A)
    PROVE  \E c \in Cases : \E e \in SUBSET ChipBits : e # {} /\ A = Err(c, e)
<1> DEFINE G == {p \div 16 : p \in A}
<1>1. IsFiniteSet(G)
  <2>1. G \in SUBSET AllBits
    BY DEF AllBits
  <2> QED BY <2>1, BitsFinite
<1>2. Cardinality(G) = 1
  BY DEF OneChip
<1>3. PICK g : G = {g}
  <2> HIDE DEF G
  <2> QED BY Zenon, <1>1, <1>2, FS_Singleton
<1>4. PICK p \in A : p \div 16 = g
  BY <1>3
<1>5. PICK c \in Cases : \A j \in 0 .. 15 : ChipBit(c, j) = 16 * (p \div 16) + j
  <2>1. p \in AllBits
    OBVIOUS
  <2> QED BY <2>1, ChipAssumption, Zenon
<1>6. \A q \in A : q \in Int /\ q \div 16 = g /\ q - 16 * (q \div 16) = q % 16 /\ q % 16 \in 0 .. 15
  <2>1. \A q \in A : q \div 16 = g
    BY <1>3
  <2> QED BY <2>1 DEF AllBits
<1> DEFINE e == {q % 16 : q \in A}
<1>7. e \in SUBSET ChipBits /\ e # {}
  <2>1. p % 16 \in e /\ \A q \in A : q % 16 \in ChipBits
    BY <1>6 DEF ChipBits
  <2> QED BY <2>1
<1>8. \A q \in A : ChipBit(c, q % 16) = q
  BY <1>4, <1>5, <1>6
<1>9. A = Err(c, e)
  BY <1>8 DEF Err
<1> QED BY <1>7, <1>9

\* What chip_repair() makes of it.
LEMMA ChipFound ==
    ASSUME NEW A \in SUBSET AllBits, OneChip(A)
    PROVE  LET s == Syndrome(A)
           IN  /\ s # {}
               /\ {k \in Cases : ChipFits(s, k)} # {}
               /\ \A k \in Cases : ChipFits(s, k) => ChipFlips(s, k) = A
<1>1. PICK c \in Cases, e \in SUBSET ChipBits : e # {} /\ A = Err(c, e)
  BY ChipDamage
<1> DEFINE s == Syndrome(A)
<1>2. ChipError(s, c) = e /\ ChipFits(s, c)
  BY <1>1, ErrorFound
<1>3. s # {}
  BY <1>1, <1>2, ChipErrorNone
<1>4. ASSUME NEW k \in Cases, ChipFits(s, k) PROVE ChipFlips(s, k) = A
  <2>1. s \in SUBSET WordBits
    BY SyndromeType
  <2>2. /\ ChipError(s, k) \in SUBSET ChipBits
        /\ s = Syndrome(Err(k, ChipError(s, k)))
        /\ ChipFlips(s, k) = Err(k, ChipError(s, k))
    <3> HIDE DEF s
    <3> QED BY <1>4, <2>1, FoundError
  <2>3. c = k
    <3>1. Syndrome(Err(c, e)) = Syndrome(Err(k, ChipError(s, k)))
      BY <1>1, <2>2
    <3> HIDE DEF s
    <3> QED BY <1>1, <2>2, <3>1, NoCommonSyndrome
  <2> QED BY <1>1, <1>2, <2>2, <2>3
<1> QED BY <1>2, <1>3, <1>4

-----------------------------------------------------------------------------
(* The ends of the recursion.                                              *)

\* No two bits have the same syndrome.
LEMMA ColumnDistinct == \A p, q \in AllBits : Column[p] = Column[q] => p = q
<1> DEFINE T == {Column[p] : p \in AllBits}
           f == [p \in AllBits |-> Column[p]]
<1>1. IsFiniteSet(AllBits)
  BY BitsFinite
<1>2. Cardinality(AllBits) = 576
  <2>1. 0 \in Int /\ 575 \in Int
    OBVIOUS
  <2>2. Cardinality(0 .. 575) = IF 0 > 575 THEN 0 ELSE 575 - 0 + 1
    BY Zenon, <2>1, FS_Interval
  <2> QED BY <2>2 DEF AllBits
<1>3. Cardinality(T) = 576
  BY Zenon, TablesAssumption
<1>4. f \in Surjection(AllBits, T)
  BY DEF Surjection
<1>5. f \in Injection(AllBits, T)
  <2> HIDE DEF f, T
  <2> QED BY <1>1, <1>2, <1>3, <1>4, FS_SurjSameCardinalityImpliesInj
<1> QED BY <1>5 DEF Injection, IsInjective

\* map_one() finds nothing, or the bit of the data with this syndrome.
LEMMA MapOneType ==
    ASSUME NEW s, MapOne(s) # {}
    PROVE  \E p \in 0 .. 511 : MapOne(s) = {p} /\ Column[p] = s
<1>1. \A p \in MapOne(s) : p \in 0 .. 511 /\ p \in AllBits /\ Column[p] = s
  <2>1. \A p \in MapOne(s) : p \in 0 .. 511 /\ Pattern[p] = s
    BY DEF MapOne, Kept
  <2> QED BY <2>1, TabledColumn DEF AllBits
<1>2. PICK p \in MapOne(s) : TRUE
  OBVIOUS
<1>3. MapOne(s) = {p}
  BY <1>1, <1>2, ColumnDistinct
<1> QED BY <1>1, <1>2, <1>3

\* What a call with this budget may answer for these data.
Answers(r, bits, budget) ==
    /\ r.ok => \E X \in SUBSET AllBits : /\ r.bits = Xor(bits, X)
                                         /\ Cardinality(X) <= budget
                                         /\ Syndrome(r.bits) = {}
    /\ ~ r.ok => r.bits = bits

LEMMA FailedAnswers == ASSUME NEW bits, NEW d PROVE Answers(Failed(bits), bits, d)
BY DEF Answers, Failed

LEMMA DoneAnswers ==
    ASSUME NEW bits \in SUBSET AllBits, NEW X \in SUBSET AllBits,
           Syndrome(X) = Syndrome(bits), NEW d, Cardinality(X) <= d
    PROVE  Answers(Done(Xor(bits, X)), bits, d)
<1>1. Syndrome(Xor(bits, X)) = {}
  BY Flipping
<1> QED BY <1>1 DEF Answers, Done

LEMMA OneBit == \A p : Cardinality({p}) = 1
BY Zenon, FS_Singleton

LEMMA RepairOneAnswers ==
    ASSUME NEW bits \in SUBSET AllBits, NEW s, s = Syndrome(bits)
    PROVE  Answers(RepairOne(bits, s), bits, 1)
<1>1. s \in SUBSET WordBits
  BY SyndromeType
<1>2. CASE Cardinality(s) = 1
  <2>1. InParity(s) \in SUBSET AllBits /\ Syndrome(InParity(s)) = s /\ Cardinality(InParity(s)) = 1
    BY <1>1, <1>2, ParityBits
  <2>2. Answers(Done(Xor(bits, InParity(s))), bits, 1)
    BY <2>1, DoneAnswers
  <2> QED BY <1>2, <2>2 DEF RepairOne
<1>3. CASE Cardinality(s) # 1 /\ MapOne(s) = {}
  BY <1>3, FailedAnswers DEF RepairOne
<1>4. CASE Cardinality(s) # 1 /\ MapOne(s) # {}
  <2>1. PICK p \in 0 .. 511 : MapOne(s) = {p} /\ Column[p] = s
    BY <1>4, MapOneType
  <2>2. MapOne(s) \in SUBSET AllBits /\ Syndrome(MapOne(s)) = s /\ Cardinality(MapOne(s)) = 1
    <3>1. p \in AllBits /\ {p} \in SUBSET AllBits
      BY DEF AllBits
    <3>2. Syndrome({p}) = s /\ Cardinality({p}) = 1
      BY <2>1, <3>1, SyndromeOne, OneBit
    <3> QED BY <2>1, <3>1, <3>2
  <2>3. Answers(Done(Xor(bits, MapOne(s))), bits, 1)
    BY <2>2, DoneAnswers
  <2> QED BY <1>4, <2>3 DEF RepairOne
<1> QED BY <1>2, <1>3, <1>4

LEMMA FlipFlip == \A A, p : Flip(Flip(A, p), p) = A
BY DEF Flip, Xor

LEMMA FlipType ==
    \A A \in SUBSET AllBits, p \in AllBits : Flip(A, p) \in SUBSET AllBits
BY XorSubset DEF Flip

\* What is counted in the sum of two sets.
LEMMA XorCount ==
    ASSUME NEW A \in SUBSET AllBits, NEW B \in SUBSET AllBits
    PROVE  /\ Cardinality(Xor(A, B)) <= Cardinality(A) + Cardinality(B)
           /\ Cardinality(Xor(A, B)) \in Nat /\ Cardinality(A) \in Nat /\ Cardinality(B) \in Nat
<1>1. IsFiniteSet(A) /\ IsFiniteSet(B)
  BY BitsFinite
<1>2. PICK a \in Nat, b \in Nat, x \in Nat, c \in Nat :
         /\ a = Cardinality(A) /\ b = Cardinality(B)
         /\ x = Cardinality(Xor(A, B)) /\ c = Cardinality(A \intersect B)
         /\ a + b = x + 2 * c
  BY <1>1, XorCardinality
<1>3. x <= a + b
  BY <1>2
<1> QED BY <1>2, <1>3

\* alpha_repair_two(): the bit that was tried and the one that was left, or
\* neither of them.
LEMMA UndoAnswers ==
    ASSUME NEW bits \in SUBSET AllBits, NEW p \in 0 .. 511, NEW rest,
           rest = Xor(Syndrome(bits), Pattern[p])
    PROVE  Answers(Undo(RepairOne(Flip(bits, p), rest), p), bits, 2)
<1>1. p \in AllBits /\ {p} \in SUBSET AllBits /\ Flip(bits, p) \in SUBSET AllBits
  <2>1. p \in AllBits
    BY DEF AllBits
  <2> QED BY <2>1, FlipType
<1>2. rest = Syndrome(Flip(bits, p))
  BY <1>1, SyndromeXor, SyndromeOne, TabledColumn DEF Flip
<1>3. PICK r : r = RepairOne(Flip(bits, p), rest)
  OBVIOUS
<1>4. Answers(r, Flip(bits, p), 1)
  BY <1>1, <1>2, <1>3, RepairOneAnswers
<1>5. CASE r.ok
  <2>1. PICK X \in SUBSET AllBits : /\ r.bits = Xor(Flip(bits, p), X) /\ Cardinality(X) <= 1
                                    /\ Syndrome(r.bits) = {}
    BY <1>4, <1>5 DEF Answers
  <2>2. r.bits = Xor(bits, Xor({p}, X))
    BY <2>1 DEF Flip, Xor
  <2>3. Xor({p}, X) \in SUBSET AllBits /\ Cardinality(Xor({p}, X)) <= 2
    <3>1. Xor({p}, X) \in SUBSET AllBits
      BY <1>1, XorSubset
    <3>2. /\ Cardinality(Xor({p}, X)) <= Cardinality({p}) + Cardinality(X)
          /\ Cardinality(Xor({p}, X)) \in Nat /\ Cardinality(X) \in Nat
      BY <1>1, XorCount
    <3>3. Cardinality({p}) = 1
      BY OneBit
    <3> QED BY <2>1, <3>1, <3>2, <3>3
  <2>4. Answers(r, bits, 2)
    BY <1>5, <2>1, <2>2, <2>3 DEF Answers
  <2> QED BY <1>3, <1>5, <2>4 DEF Undo
<1>6. CASE ~ r.ok
  <2>1. r.bits = Flip(bits, p)
    BY <1>4, <1>6 DEF Answers
  <2>2. Undo(r, p) = Failed(bits)
    BY <1>6, <2>1, FlipFlip DEF Undo
  <2> QED BY <1>3, <2>2, FailedAnswers
<1> QED BY <1>5, <1>6

LEMMA SharingType == \A s, counts : Sharing(s, counts) \in SUBSET (0 .. 511)
BY DEF Sharing

LEMMA MinIn ==
    ASSUME NEW S \in SUBSET Nat, S # {}
    PROVE  Min(S) \in S
<1>1. \E x \in S : \A y \in S : x <= y
  BY LeastNumber
<1> QED BY <1>1 DEF Min

-----------------------------------------------------------------------------
(* The invariant of alpha_repair().                                        *)

\* The sets of bits a call may have to try, and the calls.
BitSet == SUBSET (0 .. 511)
Frame == [budget : 1 .. 6, threshold : 0 .. 7, least : 0 .. 7,
          phase : {"while", "for"}, todo : BitSet, bit : -1 .. 511]

\* h[k] are the data that the call k began with: each call but the innermost
\* has one bit flipped since.
Trail(h) ==
    /\ h \in [1 .. Len(search) -> SUBSET AllBits]
    /\ h[1] = damage /\ h[Len(search)] = wrong
    /\ \A k \in 1 .. Len(search) - 1 : h[k + 1] = Flip(h[k], search[k].bit)
    /\ \A k \in 1 .. Len(search) : Cardinality(Xor(damage, h[k])) <= k - 1

\* The budget shrinks with each call.
Calls ==
    /\ attempt \in DOMAIN Attempts
    /\ \A k \in 1 .. Len(search) :
         /\ search[k].budget = Attempts[attempt].budget - (k - 1)
         /\ search[k].phase = "for" => search[k].budget > 2
    /\ \A k \in 1 .. Len(search) - 1 : search[k].bit \in 0 .. 511
    /\ search[Len(search)].bit = NoBit
    /\ \E h : Trail(h)

AlphaInv ==
    /\ AlphaTypeOK
    /\ ~ Repairing => search = << >>
    /\ search # << >> => Calls
    /\ Between \/ repaired = -1 => wrong = damage
    /\ ~ Repairing /\ repaired # -1 =>
         Syndrome(wrong) = {} /\ Cardinality(Xor(damage, wrong)) <= repaired
    /\ OneChip(damage) =>
         attempt = -1 /\ search = << >>
         /\ (~ Repairing => wrong = {} /\ repaired = Cardinality(damage))

LEMMA AlphaTypes ==
    AlphaTypeOK <=> /\ damage \in SUBSET AllBits /\ wrong \in SUBSET AllBits
                    /\ attempt \in -1 .. 12
                    /\ repaired \in -2 .. 16
                    /\ search \in Seq(Frame)
<1>1. Len(Attempts) = 11
  BY DEF Attempts
<1> QED BY <1>1 DEF AlphaTypeOK, Frame, BitSet

LEMMA FrameBit ==
    ASSUME NEW f \in Frame, NEW b \in -1 .. 511
    PROVE  /\ [f EXCEPT !.bit = b] \in Frame
           /\ [f EXCEPT !.bit = b].budget = f.budget
           /\ [f EXCEPT !.bit = b].phase = f.phase
           /\ [f EXCEPT !.bit = b].bit = b
BY DEF Frame

\* The fields of a call, and calls with some of them replaced.
LEMMA FrameFields ==
    ASSUME NEW f \in Frame
    PROVE  /\ f.budget \in 1 .. 6 /\ f.threshold \in 0 .. 7 /\ f.least \in 0 .. 7
           /\ f.phase \in {"while", "for"} /\ f.todo \in BitSet
           /\ f.bit \in -1 .. 511
BY DEF Frame

LEMMA FrameFor ==
    ASSUME NEW f \in Frame, NEW T \in BitSet, NEW g, g = [f EXCEPT !.phase = "for", !.todo = T]
    PROVE  g \in Frame /\ g.budget = f.budget /\ g.bit = f.bit /\ g.phase = "for"
<1>1. g = [budget |-> f.budget, threshold |-> f.threshold, least |-> f.least,
           phase |-> "for", todo |-> T, bit |-> f.bit]
  BY DEF Frame
<1>2. g \in Frame
  <2>1. /\ f.budget \in 1 .. 6 /\ f.threshold \in 0 .. 7 /\ f.least \in 0 .. 7
        /\ f.phase \in {"while", "for"} /\ f.todo \in BitSet
        /\ f.bit \in -1 .. 511
    BY FrameFields
  <2> QED BY <1>1, <2>1 DEF Frame
<1> QED BY <1>1, <1>2

LEMMA FrameLower ==
    ASSUME NEW f \in Frame, NEW t \in 0 .. 7, NEW g, g = [f EXCEPT !.phase = "while", !.threshold = t]
    PROVE  g \in Frame /\ g.budget = f.budget /\ g.bit = f.bit /\ g.phase = "while"
<1>1. g = [budget |-> f.budget, threshold |-> t, least |-> f.least,
           phase |-> "while", todo |-> f.todo, bit |-> f.bit]
  BY DEF Frame
<1>2. g \in Frame
  <2>1. /\ f.budget \in 1 .. 6 /\ f.threshold \in 0 .. 7 /\ f.least \in 0 .. 7
        /\ f.phase \in {"while", "for"} /\ f.todo \in BitSet
        /\ f.bit \in -1 .. 511
    BY FrameFields
  <2> QED BY <1>1, <2>1 DEF Frame
<1> QED BY <1>1, <1>2

LEMMA FrameTry ==
    ASSUME NEW f \in Frame, NEW T \in BitSet, NEW b \in 0 .. 511,
           NEW g, g = [budget |-> f.budget, threshold |-> f.threshold, least |-> f.least,
                       phase |-> f.phase, todo |-> T, bit |-> b]
    PROVE  g \in Frame /\ g.budget = f.budget /\ g.bit = b /\ g.phase = f.phase
<1>1. /\ f.budget \in 1 .. 6 /\ f.threshold \in 0 .. 7 /\ f.least \in 0 .. 7
      /\ f.phase \in {"while", "for"} /\ b \in -1 .. 511
  BY FrameFields
<1>2. g \in Frame
  BY <1>1 DEF Frame
<1> QED BY <1>2

\* Replacing fields of one call is replacing the call.
LEMMA CallReplaced ==
    ASSUME NEW d \in Nat, NEW s \in [1 .. d -> Frame], NEW i \in 1 .. d, NEW T, NEW b
    PROVE  /\ [s EXCEPT ![i].phase = "for", ![i].todo = T]
                = [s EXCEPT ![i] = [s[i] EXCEPT !.phase = "for", !.todo = T]]
           /\ [s EXCEPT ![i].phase = "while", ![i].threshold = IF @ = 0 THEN 0 ELSE @ - 1]
                = [s EXCEPT ![i] = [s[i] EXCEPT !.phase = "while",
                                                !.threshold = IF @ = 0 THEN 0 ELSE @ - 1]]
OBVIOUS

LEMMA TryReplaced ==
    ASSUME NEW d \in Nat, NEW s \in [1 .. d -> Frame], NEW i \in 1 .. d, NEW b
    PROVE  [s EXCEPT ![i].todo = @ \ {b}, ![i].bit = b]
             = [s EXCEPT ![i] = [budget |-> s[i].budget, threshold |-> s[i].threshold,
                                 least |-> s[i].least, phase |-> s[i].phase,
                                 todo |-> s[i].todo \ {b}, bit |-> b]]
<1>1. ASSUME NEW f \in Frame
      PROVE  [f EXCEPT !.todo = f.todo \ {b}, !.bit = b]
               = [budget |-> f.budget, threshold |-> f.threshold, least |-> f.least,
                  phase |-> f.phase, todo |-> f.todo \ {b}, bit |-> b]
  <2>1. PICK h : h = [f EXCEPT !.todo = f.todo \ {b}, !.bit = b]
    OBVIOUS
  <2>2. h = [budget |-> f.budget, threshold |-> f.threshold, least |-> f.least,
             phase |-> f.phase, todo |-> f.todo \ {b}, bit |-> b]
    BY <1>1, <2>1 DEF Frame
  <2> QED BY Zenon, <2>1, <2>2
<1>2. [s EXCEPT ![i].todo = @ \ {b}, ![i].bit = b]
        = [s EXCEPT ![i] = [s[i] EXCEPT !.todo = s[i].todo \ {b}, !.bit = b]]
  OBVIOUS
<1>3. s[i] \in Frame
  OBVIOUS
<1> QED BY Zenon, <1>1, <1>2, <1>3

LEMMA NextTypes ==
    ASSUME damage' \in SUBSET AllBits, wrong' \in SUBSET AllBits,
           attempt' \in -1 .. 12, repaired' \in -2 .. 16, search' \in Seq(Frame)
    PROVE  AlphaTypeOK'
<1>1. Len(Attempts) = 11
  BY DEF Attempts
<1> QED BY <1>1 DEF AlphaTypeOK, Frame, BitSet

LEMMA AttemptTypes ==
    /\ DOMAIN Attempts = 1 .. 11 /\ Len(Attempts) = 11
    /\ \A d \in 1 .. 11 : Attempts[d].budget \in 1 .. 6 /\ Attempts[d].least \in 0 .. 7
BY DEF Attempts

LEMMA AlphaStart == AlphaInit => AlphaInv
<1> SUFFICES ASSUME AlphaInit PROVE AlphaInv
  OBVIOUS
<1>1. PICK bits \in AlphaInputs : AlphaCall(bits)
  BY DEF AlphaInit
<1>2. bits \in SUBSET AllBits
  BY AlphaAssumption
<1>3. << >> \in Seq(Frame)
  BY EmptySeq
<1> QED BY <1>1, <1>2, <1>3, AlphaTypes DEF AlphaCall, AlphaInv, Repairing, Between

\* The data are repaired by all calls, or by none.
LEMMA Succeeded ==
    ASSUME AlphaInv, Repairing, search # << >>,
           NEW X \in SUBSET AllBits, Cardinality(X) <= search[Len(search)].budget,
           Syndrome(Xor(wrong, X)) = {},
           Return(Xor(wrong, X), Attempts[attempt].budget)
    PROVE  AlphaInv'
<1>1. /\ damage \in SUBSET AllBits /\ wrong \in SUBSET AllBits
      /\ attempt \in -1 .. 12 /\ search \in Seq(Frame) /\ Calls /\ ~ OneChip(damage)
  BY AlphaTypes DEF AlphaInv
<1>2. wrong' = Xor(wrong, X) /\ repaired' = Attempts[attempt].budget
      /\ search' = << >> /\ damage' = damage /\ attempt' = attempt
  BY DEF Return
<1>3. PICK d : d = Len(search) /\ d \in Nat /\ d > 0
  BY <1>1, EmptySeq, LenProperties
<1>4. PICK h : Trail(h)
  BY <1>1 DEF Calls
<1>5. PICK b \in 1 .. 6 : b = Attempts[attempt].budget
  BY <1>1, AttemptTypes DEF Calls
<1>6. Cardinality(X) <= b - (d - 1)
  BY <1>1, <1>3, <1>5 DEF Calls
<1>7. Cardinality(Xor(damage, wrong)) <= d - 1
  BY <1>3, <1>4 DEF Trail
<1>8. Xor(damage, Xor(wrong, X)) = Xor(Xor(damage, wrong), X)
  BY DEF Xor
<1>9. Cardinality(Xor(damage, Xor(wrong, X))) <= b
  <2>1. Xor(damage, wrong) \in SUBSET AllBits
    BY <1>1, XorSubset
  <2>2. /\ Cardinality(Xor(Xor(damage, wrong), X)) <= Cardinality(Xor(damage, wrong)) + Cardinality(X)
        /\ Cardinality(Xor(Xor(damage, wrong), X)) \in Nat
        /\ Cardinality(Xor(damage, wrong)) \in Nat /\ Cardinality(X) \in Nat
    BY <2>1, XorCount
  <2> QED BY <1>3, <1>6, <1>7, <1>8, <2>2
<1>10. Xor(wrong, X) \in SUBSET AllBits
  BY <1>1, XorSubset
<1>11. << >> \in Seq(Frame)
  BY EmptySeq
<1>12. AlphaTypeOK'
  <2>1. /\ damage' \in SUBSET AllBits /\ wrong' \in SUBSET AllBits
        /\ attempt' \in -1 .. 12
        /\ repaired' \in -2 .. 16
        /\ search' \in Seq(Frame)
    BY <1>1, <1>2, <1>5, <1>10, <1>11
  <2> QED BY <2>1, NextTypes
<1>13. repaired' # -2 /\ repaired' # -1
  BY <1>2, <1>5
<1>14. Syndrome(wrong') = {} /\ Cardinality(Xor(damage', wrong')) <= repaired'
  BY <1>2, <1>5, <1>9
<1>15. ~ OneChip(damage')
  BY <1>1, <1>2
<1> QED BY <1>2, <1>12, <1>13, <1>14, <1>15 DEF AlphaInv, Repairing, Between

\* A change of the innermost call that flips no bit.
LEMMA Retouched ==
    ASSUME AlphaInv, Repairing, search # << >>,
           NEW f \in Frame, search' = [search EXCEPT ![Len(search)] = f],
           f.budget = search[Len(search)].budget, f.bit = search[Len(search)].bit,
           f.phase = "for" => f.budget > 2,
           UNCHANGED <<damage, wrong, attempt, repaired>>
    PROVE  AlphaInv'
<1>1. /\ damage \in SUBSET AllBits /\ wrong \in SUBSET AllBits
      /\ attempt \in -1 .. 12 /\ repaired \in -2 .. 16
      /\ search \in Seq(Frame) /\ Calls /\ ~ OneChip(damage)
  BY AlphaTypes DEF AlphaInv
<1>2. PICK d : d = Len(search) /\ d \in Nat /\ d > 0
  BY <1>1, EmptySeq, LenProperties
<1>3. /\ search' \in Seq(Frame) /\ Len(search') = d
      /\ \A k \in 1 .. d : search'[k] = IF k = d THEN f ELSE search[k]
  BY <1>1, <1>2, ExceptSeq
<1>4. search' # << >>
  BY <1>2, <1>3
<1>5. PICK h : Trail(h)
  BY <1>1 DEF Calls
<1>6. Trail(h)'
  <2>1. \A k \in 1 .. d - 1 : search'[k] = search[k]
    BY <1>2, <1>3
  <2> QED BY <1>2, <1>3, <1>5, <2>1 DEF Trail
<1>7. Calls'
  <2>1. attempt' \in DOMAIN Attempts
    BY <1>1 DEF Calls
  <2>2. \A k \in 1 .. Len(search') :
           /\ search'[k].budget = Attempts[attempt'].budget - (k - 1)
           /\ search'[k].phase = "for" => search'[k].budget > 2
    BY <1>1, <1>2, <1>3 DEF Calls
  <2>3. \A k \in 1 .. Len(search') - 1 : search'[k].bit \in 0 .. 511
    <3>1. \A k \in 1 .. d - 1 : search[k].bit \in 0 .. 511 /\ k \in 1 .. d /\ k # d
      BY <1>1, <1>2 DEF Calls
    <3> QED BY <1>3, <3>1
  <2>4. search'[Len(search')].bit = NoBit
    BY <1>1, <1>2, <1>3 DEF Calls
  <2>5. \E g : Trail(g)'
    BY <1>6
  <2> QED BY <2>1, <2>2, <2>3, <2>4, <2>5 DEF Calls
<1>8. AlphaTypeOK'
  BY <1>1, <1>3, NextTypes
<1> QED BY <1>1, <1>4, <1>7, <1>8 DEF AlphaInv, Repairing, Between

\* A call that fails leaves the data as its caller had them.
LEMMA CallFailed ==
    ASSUME AlphaInv, Repairing, search # << >>, CallFails(wrong)
    PROVE  AlphaInv'
<1>1. /\ damage \in SUBSET AllBits /\ wrong \in SUBSET AllBits
      /\ attempt \in 1 .. 11 /\ repaired \in -2 .. 16
      /\ search \in Seq(Frame) /\ Calls /\ ~ OneChip(damage)
  BY AlphaTypes, AttemptTypes DEF AlphaInv, Calls
<1>2. PICK d : d = Len(search) /\ d \in Nat /\ d > 0
  BY <1>1, EmptySeq, LenProperties
<1>3. PICK h : Trail(h)
  BY <1>1 DEF Calls
<1>4. damage' = damage /\ repaired' = repaired
  BY DEF CallFails
<1>5. CASE d = 1
  <2>1. wrong' = wrong /\ search' = << >> /\ attempt' = attempt + 1
    BY <1>2, <1>5 DEF CallFails
  <2>2. wrong = damage
    BY <1>2, <1>3, <1>5 DEF Trail
  <2>3. << >> \in Seq(Frame)
    BY EmptySeq
  <2>4. AlphaTypeOK'
    BY <1>1, <1>4, <2>1, <2>3, NextTypes
  <2> QED BY <1>1, <1>4, <2>1, <2>2, <2>4 DEF AlphaInv, Repairing, Between
<1>6. CASE d > 1
  <2> DEFINE m == d - 1
             short == SubSeq(search, 1, m)
             f == [search[m] EXCEPT !.bit = NoBit]
  <2>1. /\ wrong' = Flip(wrong, search[m].bit) /\ attempt' = attempt
        /\ search' = [short EXCEPT ![m].bit = NoBit]
    BY <1>2, <1>6 DEF CallFails
  <2>2. m \in 1 .. d /\ m \in Nat /\ d \in 1 .. d
    BY <1>2, <1>6
  <2>3. \A k \in 1 .. d : search[k] \in Frame
    BY <1>1, <1>2, ElementOfSeq
  <2>4. f \in Frame /\ f.budget = search[m].budget /\ f.phase = search[m].phase
        /\ f.bit = NoBit
    <3>1. search[m] \in Frame /\ NoBit \in -1 .. 511
      BY <2>2, <2>3 DEF NoBit
    <3> HIDE DEF m
    <3> QED BY <3>1, FrameBit
  <2>5. short \in Seq(Frame) /\ Len(short) = m /\ \A k \in 1 .. m : short[k] = search[k]
    BY <1>1, <1>2, <2>2, SubSeqProperties
  <2>6. search' = [short EXCEPT ![m] = f]
    BY <1>6, <2>1, <2>2, <2>5
  <2>7. /\ search' \in Seq(Frame) /\ Len(search') = m
        /\ \A k \in 1 .. m : search'[k] = IF k = m THEN f ELSE search[k]
    <3>1. m \in 1 .. Len(short)
      BY <1>6, <2>2, <2>5
    <3> HIDE DEF m, short, f
    <3> QED BY <2>4, <2>5, <2>6, <3>1, ExceptSeq
  <2> HIDE DEF short, f
  <2>8. wrong' = h[m]
    <3>1. h[d] = Flip(h[m], search[m].bit) /\ h[d] = wrong
      BY <1>2, <1>3, <1>6 DEF Trail
    <3> QED BY <2>1, <3>1, FlipFlip
  <2> DEFINE g == [k \in 1 .. m |-> h[k]]
  <2>9. Trail(g)'
    <3>1. \A k \in 1 .. m - 1 : search'[k] = search[k]
      BY <2>2, <2>7
    <3>2. g \in [1 .. m -> SUBSET AllBits] /\ \A k \in 1 .. m : g[k] = h[k]
      BY <1>2, <1>3 DEF Trail
    <3>3. g[1] = damage' /\ g[m] = wrong'
      <4>1. 1 \in 1 .. m /\ m \in 1 .. m
        BY <1>2, <1>6
      <4>2. h[1] = damage
        BY <1>3 DEF Trail
      <4> HIDE DEF m, g
      <4> QED BY <1>4, <2>8, <3>2, <4>1, <4>2
    <3>4. \A k \in 1 .. m - 1 : g[k + 1] = Flip(g[k], search'[k].bit)
      BY <1>2, <1>3, <3>1, <3>2 DEF Trail
    <3>5. \A k \in 1 .. m : Cardinality(Xor(damage', g[k])) <= k - 1
      BY <1>2, <1>3, <1>4, <3>2 DEF Trail
    <3> HIDE DEF g
    <3> QED BY <2>7, <3>2, <3>3, <3>4, <3>5 DEF Trail
  <2>10. Calls'
    <3>1. attempt' \in DOMAIN Attempts
      BY <1>1, <2>1 DEF Calls
    <3>2. \A k \in 1 .. Len(search') :
             /\ search'[k].budget = Attempts[attempt'].budget - (k - 1)
             /\ search'[k].phase = "for" => search'[k].budget > 2
      <4>1. \A k \in 1 .. m : search'[k].budget = search[k].budget /\ search'[k].phase = search[k].phase
        BY <2>4, <2>7
      <4>2. \A k \in 1 .. m : k \in 1 .. Len(search)
        BY <1>2, <2>2
      <4> HIDE DEF m
      <4> QED BY <1>1, <2>1, <2>7, <4>1, <4>2 DEF Calls
    <3>3. \A k \in 1 .. Len(search') - 1 : search'[k].bit \in 0 .. 511
      <4>1. \A k \in 1 .. m - 1 : k \in 1 .. Len(search) - 1 /\ k \in 1 .. m /\ k # m
        BY <1>2, <2>2
      <4>2. \A k \in 1 .. m - 1 : search'[k] = search[k]
        BY <2>7, <4>1
      <4>3. \A k \in 1 .. m - 1 : search[k].bit \in 0 .. 511
        BY <1>1, <4>1 DEF Calls
      <4> HIDE DEF m
      <4> QED BY <2>7, <4>2, <4>3
    <3>4. search'[Len(search')].bit = NoBit
      BY <1>6, <2>2, <2>4, <2>7
    <3>5. \E i : Trail(i)'
      <4> HIDE DEF g
      <4> QED BY <2>9
    <3> QED BY <3>1, <3>2, <3>3, <3>4, <3>5 DEF Calls
  <2>11. wrong' \in SUBSET AllBits
    <3>1. h[m] \in SUBSET AllBits
      BY <1>2, <1>3, <2>2 DEF Trail
    <3> QED BY <2>8, <3>1
  <2>12. AlphaTypeOK'
    <3>1. attempt' \in -1 .. 12 /\ damage' \in SUBSET AllBits /\ repaired' \in -2 .. 16
      BY <1>1, <1>4, <2>1
    <3> QED BY <2>7, <2>11, <3>1, NextTypes
  <2>13. search' # << >>
    <3>1. m > 0 /\ Len(search') = m
      BY <1>2, <1>6, <2>7
    <3> HIDE DEF m
    <3> QED BY <3>1
  <2> QED BY <1>1, <1>4, <2>10, <2>12, <2>13 DEF AlphaInv, Repairing, Between
<1> QED BY <1>2, <1>5, <1>6

LEMMA Returned ==
    ASSUME AlphaInv, Repairing, search # << >>,
           NEW r, Answers(r, wrong, search[Len(search)].budget), CallReturns(r)
    PROVE  AlphaInv'
<1>1. CASE r.ok
  <2>1. Return(r.bits, Attempts[attempt].budget)
    BY <1>1 DEF CallReturns
  <2>2. PICK X \in SUBSET AllBits : /\ r.bits = Xor(wrong, X)
                                    /\ Cardinality(X) <= search[Len(search)].budget
                                    /\ Syndrome(r.bits) = {}
    BY <1>1 DEF Answers
  <2> QED BY <2>1, <2>2, Succeeded
<1>2. CASE ~ r.ok
  <2>1. CallFails(wrong)
    BY <1>2 DEF CallReturns, Answers
  <2> QED BY <2>1, CallFailed
<1> QED BY <1>1, <1>2

LEMMA OneBitStep ==
    ASSUME AlphaInv, Repairing, search # << >>,
           NEW f, f = search[Len(search)], RepairOneBit(f)
    PROVE  AlphaInv'
<1>1. wrong \in SUBSET AllBits
  BY AlphaTypes DEF AlphaInv
<1>2. PICK r : r = RepairOne(wrong, Syndrome(wrong)) /\ CallReturns(r)
  BY DEF RepairOneBit
<1>3. Answers(r, wrong, 1) /\ search[Len(search)].budget = 1
  BY <1>1, <1>2, RepairOneAnswers DEF RepairOneBit
<1> QED BY <1>2, <1>3, Returned

LEMMA TwoBitsStep ==
    ASSUME AlphaInv, Repairing, search # << >>,
           NEW f, f = search[Len(search)], RepairTwoBits(f)
    PROVE  AlphaInv'
<1>1. wrong \in SUBSET AllBits
  BY AlphaTypes DEF AlphaInv
<1>2. search[Len(search)].budget = 2
  BY DEF RepairTwoBits
<1> DEFINE s == Syndrome(wrong)
           likely == Sharing(s, 5 .. 7)
           p == Min(likely)
<1>3. \/ Cardinality(s) = 2 /\ CallReturns(Done(Xor(wrong, InParity(s))))
      \/ CallReturns(Failed(wrong))
      \/ likely # {} /\ CallReturns(Undo(RepairOne(Flip(wrong, p), Xor(s, Pattern[p])), p))
  BY DEF RepairTwoBits
<1>4. CASE Cardinality(s) = 2 /\ CallReturns(Done(Xor(wrong, InParity(s))))
  <2>1. InParity(s) \in SUBSET AllBits /\ Syndrome(InParity(s)) = s /\ Cardinality(InParity(s)) = 2
    BY <1>4, SyndromeType, ParityBits
  <2>2. Answers(Done(Xor(wrong, InParity(s))), wrong, 2)
    BY <1>1, <2>1, DoneAnswers
  <2> HIDE DEF s
  <2> QED BY <1>2, <1>4, <2>2, Returned
<1>5. CASE CallReturns(Failed(wrong))
  BY <1>5, FailedAnswers, Returned
<1>6. CASE likely # {} /\ CallReturns(Undo(RepairOne(Flip(wrong, p), Xor(s, Pattern[p])), p))
  <2>1. p \in 0 .. 511
    <3>1. likely \in SUBSET (0 .. 511)
      BY SharingType
    <3>2. likely # {}
      BY <1>6
    <3> HIDE DEF likely
    <3>3. likely \in SUBSET Nat
      BY <3>1
    <3>4. Min(likely) \in likely
      BY <3>2, <3>3, MinIn
    <3> QED BY <3>1, <3>4
  <2> HIDE DEF p
  <2>2. Answers(Undo(RepairOne(Flip(wrong, p), Xor(s, Pattern[p])), p), wrong, 2)
    BY <1>1, <2>1, UndoAnswers
  <2> HIDE DEF s
  <2> QED BY <1>2, <1>6, <2>2, Returned
<1> QED BY <1>3, <1>4, <1>5, <1>6

\* What the fields of the innermost call are.
LEMMA Innermost ==
    ASSUME AlphaInv, search # << >>
    PROVE  /\ search \in Seq(Frame) /\ Len(search) \in Nat \ {0}
           /\ search[Len(search)] \in Frame
           /\ Calls
<1>1. search \in Seq(Frame) /\ Calls
  BY AlphaTypes DEF AlphaInv
<1>2. Len(search) \in Nat \ {0}
  BY <1>1, EmptySeq, LenProperties
<1>3. Len(search) \in 1 .. Len(search)
  BY <1>2
<1> QED BY <1>1, <1>2, <1>3, ElementOfSeq

LEMMA RoundStep ==
    ASSUME AlphaInv, Repairing, search # << >>,
           NEW f, f = search[Len(search)], Round(f)
    PROVE  AlphaInv'
<1> DEFINE s == Syndrome(wrong)
           d == Len(search)
           T == Sharing(s, {f.threshold})
<1>1. \/ CallFails(wrong)
      \/ Cardinality(s) <= f.budget /\ Return(Xor(wrong, InParity(s)), Attempts[attempt].budget)
      \/ /\ search' = [search EXCEPT ![d].phase = "for", ![d].todo = T]
         /\ UNCHANGED <<damage, wrong, attempt, repaired>>
  BY DEF Round
<1>2. CASE CallFails(wrong)
  BY <1>2, CallFailed
<1>3. CASE Cardinality(s) <= f.budget /\ Return(Xor(wrong, InParity(s)), Attempts[attempt].budget)
  <2>1. wrong \in SUBSET AllBits
    BY AlphaTypes DEF AlphaInv
  <2>2. /\ InParity(s) \in SUBSET AllBits /\ Syndrome(InParity(s)) = s
        /\ Cardinality(InParity(s)) = Cardinality(s)
    BY SyndromeType, ParityBits
  <2>3. Syndrome(Xor(wrong, InParity(s))) = {}
    BY <2>1, <2>2, Flipping
  <2> HIDE DEF s
  <2> QED BY <1>3, <2>2, <2>3, Succeeded
<1>4. CASE /\ search' = [search EXCEPT ![d].phase = "for", ![d].todo = T]
           /\ UNCHANGED <<damage, wrong, attempt, repaired>>
  <2>0. PICK g : g = [f EXCEPT !.phase = "for", !.todo = T]
    OBVIOUS
  <2>1. f \in Frame /\ search \in Seq(Frame) /\ d \in 1 .. d /\ d \in Nat
    BY Innermost
  <2>2. g \in Frame /\ g.budget = f.budget /\ g.bit = f.bit /\ g.phase = "for"
    <3>1. T \in BitSet
      BY SharingType DEF BitSet
    <3> HIDE DEF T
    <3>2. f \in Frame /\ g = [f EXCEPT !.phase = "for", !.todo = T]
      BY <2>0, <2>1
    <3> QED BY ONLY <3>1, <3>2, FrameFor
  <2>3. search' = [search EXCEPT ![d] = g]
    <3>1. search \in [1 .. d -> Frame]
      BY <2>1, LenProperties
    <3> HIDE DEF T
    <3>2. [search EXCEPT ![d].phase = "for", ![d].todo = T]
            = [search EXCEPT ![d] = [search[d] EXCEPT !.phase = "for", !.todo = T]]
      BY <2>1, <3>1, CallReplaced
    <3> QED BY <1>4, <2>0, <3>2
  <2>4. f.budget > 2
    BY DEF Round
  <2> QED BY <1>4, <2>2, <2>3, <2>4, Retouched
<1> QED BY <1>1, <1>2, <1>3, <1>4

LEMMA LowerStep ==
    ASSUME AlphaInv, Repairing, search # << >>,
           NEW f, f = search[Len(search)], LowerThreshold(f)
    PROVE  AlphaInv'
<1> DEFINE d == Len(search)
           t == IF f.threshold = 0 THEN 0 ELSE f.threshold - 1
           g == [f EXCEPT !.phase = "while", !.threshold = t]
<1>1. f \in Frame /\ search \in Seq(Frame) /\ d \in 1 .. d /\ d \in Nat
  BY Innermost
<1>2. g \in Frame /\ g.budget = f.budget /\ g.bit = f.bit /\ g.phase = "while"
  <2>1. t \in 0 .. 7
    BY <1>1 DEF Frame
  <2> HIDE DEF t
  <2> QED BY <1>1, <2>1, FrameLower
<1>3. search' = [search EXCEPT ![d] = g]
  <2>1. search \in [1 .. d -> Frame]
    BY <1>1, LenProperties
  <2>2. search' = [search EXCEPT ![d].phase = "while",
                                 ![d].threshold = IF @ = 0 THEN 0 ELSE @ - 1]
    BY DEF LowerThreshold
  <2>3. [search EXCEPT ![d].phase = "while", ![d].threshold = IF @ = 0 THEN 0 ELSE @ - 1]
          = [search EXCEPT ![d] = [search[d] EXCEPT !.phase = "while",
                                                    !.threshold = IF @ = 0 THEN 0 ELSE @ - 1]]
    BY <1>1, <2>1, CallReplaced
  <2> QED BY <2>2, <2>3
<1>4. UNCHANGED <<damage, wrong, attempt, repaired>>
  BY DEF LowerThreshold
<1> HIDE DEF g
<1> QED BY <1>2, <1>3, <1>4, Retouched

\* A bit is flipped and the rest left to a call with a smaller budget.
LEMMA TryStep ==
    ASSUME AlphaInv, Repairing, search # << >>,
           NEW f, f = search[Len(search)], TryBit(f)
    PROVE  AlphaInv'
<1>1. /\ damage \in SUBSET AllBits /\ wrong \in SUBSET AllBits
      /\ attempt \in -1 .. 12 /\ repaired \in -2 .. 16 /\ ~ OneChip(damage)
  BY AlphaTypes DEF AlphaInv
<1>2. PICK d : d = Len(search) /\ d \in Nat /\ d > 0
  BY Innermost
<1>3. search \in Seq(Frame) /\ f \in Frame /\ Calls /\ d \in 1 .. d
  BY <1>2, Innermost
<1>4. f.phase = "for" /\ f.budget > 2
  BY <1>2, <1>3 DEF TryBit, Calls
<1>5. PICK p \in f.todo :
         /\ wrong' = Flip(wrong, p)
         /\ search' =
              Append([search EXCEPT ![d].todo = @ \ {p}, ![d].bit = p],
                     Calling(f.budget - 1, IF f.threshold < 5 THEN f.threshold + 2 ELSE 7,
                          f.least + 1))
  <2>1. f.todo \in SUBSET Nat
    <3>1. f.todo \in BitSet
      BY <1>3, FrameFields
    <3>2. 0 .. 511 \subseteq Nat
      OBVIOUS
    <3> QED BY <3>1, <3>2 DEF BitSet
  <2>2. f.todo # {}
    BY DEF TryBit
  <2>3. Min(f.todo) \in f.todo
    BY <2>1, <2>2, MinIn
  <2> QED BY <1>2, <2>3 DEF TryBit
<1>6. UNCHANGED <<damage, attempt, repaired>>
  BY DEF TryBit
<1>7. p \in 0 .. 511 /\ p \in AllBits
  <2>1. p \in 0 .. 511
    BY <1>3, FrameFields DEF BitSet
  <2> QED BY <2>1 DEF AllBits
<1>20. PICK T, g : /\ T = f.todo \ {p}
                   /\ g = [budget |-> f.budget, threshold |-> f.threshold, least |-> f.least,
                           phase |-> f.phase, todo |-> T, bit |-> p]
  OBVIOUS
<1> DEFINE c == Calling(f.budget - 1, IF f.threshold < 5 THEN f.threshold + 2 ELSE 7, f.least + 1)
           outer == [search EXCEPT ![d] = g]
<1>8. g \in Frame /\ g.budget = f.budget /\ g.bit = p /\ g.phase = f.phase
  <2>1. f \in Frame /\ p \in 0 .. 511
    BY <1>3, <1>7
  <2>2. T \in BitSet
    BY <1>20, <2>1, FrameFields DEF BitSet
  <2> QED BY ONLY <1>20, <2>1, <2>2, FrameTry
<1>9. c \in Frame /\ c.budget = f.budget - 1 /\ c.bit = NoBit /\ c.phase = "while"
  <2>1. /\ f.budget - 1 \in 2 .. 5 /\ f.least + 1 \in 1 .. 8
        /\ (IF f.threshold < 5 THEN f.threshold + 2 ELSE 7) \in 0 .. 7
    BY <1>3, <1>4 DEF Frame
  <2>2. 7 - (f.budget - 1) \div 2 \in 0 .. 7
    BY <2>1
  <2>3. Min({f.least + 1, 7 - (f.budget - 1) \div 2}) \in 0 .. 7
    <3>1. PICK x, y : x = f.least + 1 /\ y = 7 - (f.budget - 1) \div 2
      OBVIOUS
    <3>2. x \in 1 .. 8 /\ y \in 0 .. 7
      BY <2>1, <2>2, <3>1
    <3>3. \E z \in {x, y} : \A w \in {x, y} : z <= w
      BY <3>2
    <3>4. Min({x, y}) \in {x, y} /\ Min({x, y}) <= y
      BY <3>3 DEF Min
    <3> QED BY <3>1, <3>2, <3>4
  <2>4. {} \in BitSet /\ -1 \in -1 .. 511
    BY DEF BitSet
  <2> QED BY <2>1, <2>3, <2>4 DEF Calling, Frame, NoBit
<1>10. [search EXCEPT ![d].todo = @ \ {p}, ![d].bit = p] = outer
  <2>1. search \in [1 .. d -> Frame]
    BY <1>2, <1>3, LenProperties
  <2>2. d \in Nat /\ d \in 1 .. d /\ f = search[d]
    BY <1>2, <1>3
  <2>3. [search EXCEPT ![d].todo = @ \ {p}, ![d].bit = p] = [search EXCEPT ![d] = g]
    <3>1. [search EXCEPT ![d].todo = @ \ {p}, ![d].bit = p]
            = [search EXCEPT ![d] = [budget |-> search[d].budget, threshold |-> search[d].threshold,
                                     least |-> search[d].least, phase |-> search[d].phase,
                                     todo |-> search[d].todo \ {p}, bit |-> p]]
      BY ONLY Zenon, <2>1, <2>2, TryReplaced
    <3>2. g = [budget |-> search[d].budget, threshold |-> search[d].threshold,
               least |-> search[d].least, phase |-> search[d].phase,
               todo |-> search[d].todo \ {p}, bit |-> p]
      BY ONLY Zenon, <1>20, <2>2
    <3> QED BY Zenon, <3>1, <3>2
  <2> QED BY Zenon, <2>3
<1>11. /\ outer \in Seq(Frame) /\ Len(outer) = d
       /\ \A k \in 1 .. d : outer[k] = IF k = d THEN g ELSE search[k]
  BY <1>2, <1>3, <1>8, ExceptSeq
<1>12. search' = Append(outer, c)
  <2> HIDE DEF c, outer
  <2> QED BY <1>5, <1>10 DEF c
<1> HIDE DEF c, outer
<1>13. /\ search' \in Seq(Frame) /\ Len(search') = d + 1 /\ search' # << >>
       /\ \A k \in 1 .. d : search'[k] = outer[k]
       /\ search'[d + 1] = c
  BY <1>9, <1>11, <1>12, AppendProperties
<1>14. /\ \A k \in 1 .. d - 1 : search'[k] = search[k]
       /\ search'[d] = g
  BY <1>2, <1>11, <1>13
<1>15. PICK h : Trail(h)
  BY <1>3 DEF Calls
<1>16. wrong' \in SUBSET AllBits
  BY <1>1, <1>5, <1>7, FlipType
<1>21. PICK i : i = [k \in 1 .. d + 1 |-> IF k = d + 1 THEN wrong' ELSE h[k]]
  OBVIOUS
<1>17. Trail(i)'
  <2>1. /\ i \in [1 .. d + 1 -> SUBSET AllBits]
        /\ i[d + 1] = wrong' /\ \A k \in 1 .. d : i[k] = h[k]
    BY <1>2, <1>15, <1>16, <1>21 DEF Trail
  <2>2. i[1] = damage'
    BY <1>2, <1>6, <1>15, <2>1 DEF Trail
  <2>3. ASSUME NEW k \in 1 .. d PROVE i[k + 1] = Flip(i[k], search'[k].bit)
    <3>1. CASE k = d
      <4>1. i[k] = wrong
        BY <1>2, <1>15, <2>1, <3>1 DEF Trail
      <4> QED BY <1>5, <1>8, <1>14, <2>1, <3>1, <4>1
    <3>2. CASE k # d
      <4>1. k \in 1 .. d - 1 /\ k + 1 \in 1 .. d
        BY <1>2, <3>2
      <4>2. h[k + 1] = Flip(h[k], search[k].bit)
        BY <1>2, <1>15, <4>1 DEF Trail
      <4> QED BY <1>14, <2>1, <4>1, <4>2
    <3> QED BY <3>1, <3>2
  <2>4. ASSUME NEW k \in 1 .. d + 1 PROVE Cardinality(Xor(damage', i[k])) <= k - 1
    <3>1. CASE k = d + 1
      <4>1. Xor(damage, wrong) \in SUBSET AllBits /\ {p} \in SUBSET AllBits
        BY <1>1, <1>7, XorSubset
      <4>2. Xor(damage, Flip(wrong, p)) = Xor(Xor(damage, wrong), {p})
        BY DEF Flip, Xor
      <4>3. /\ Cardinality(Xor(Xor(damage, wrong), {p})) <= Cardinality(Xor(damage, wrong)) + Cardinality({p})
            /\ Cardinality(Xor(Xor(damage, wrong), {p})) \in Nat
            /\ Cardinality(Xor(damage, wrong)) \in Nat
        BY <4>1, XorCount
      <4>4. Cardinality(Xor(damage, wrong)) <= d - 1
        BY <1>2, <1>15 DEF Trail
      <4>5. Cardinality({p}) = 1
        BY OneBit
      <4>6. Cardinality(Xor(damage, Flip(wrong, p))) <= d
        BY <1>2, <4>2, <4>3, <4>4, <4>5
      <4> QED BY <1>2, <1>5, <1>6, <2>1, <3>1, <4>6
    <3>2. CASE k # d + 1
      <4>1. k \in 1 .. d
        BY <1>2, <3>2
      <4>2. Cardinality(Xor(damage, h[k])) <= k - 1
        BY <1>2, <1>15, <4>1 DEF Trail
      <4> QED BY <1>6, <2>1, <4>1, <4>2
    <3> QED BY <3>1, <3>2
  <2>5. (d + 1) - 1 = d /\ d + 1 \in Nat
    BY <1>2
  <2>6. i \in [1 .. Len(search') -> SUBSET AllBits] /\ i[Len(search')] = wrong'
    BY <1>13, <2>1
  <2>7. \A k \in 1 .. Len(search') - 1 : i[k + 1] = Flip(i[k], search'[k].bit)
    BY <1>13, <2>3, <2>5
  <2>8. \A k \in 1 .. Len(search') : Cardinality(Xor(damage', i[k])) <= k - 1
    BY <1>13, <2>4
  <2>9. Len(search') \in Nat
    BY <1>13, <2>5
  <2> QED BY ONLY <2>2, <2>6, <2>7, <2>8 DEF Trail
<1>18. Calls'
  <2>1. attempt' \in DOMAIN Attempts
    BY <1>3, <1>6 DEF Calls
  <2>2. ASSUME NEW k \in 1 .. d + 1
        PROVE  /\ search'[k].budget = Attempts[attempt'].budget - (k - 1)
               /\ search'[k].phase = "for" => search'[k].budget > 2
    <3>1. f.budget = Attempts[attempt].budget - (d - 1)
      BY <1>2, <1>3 DEF Calls
    <3>2. PICK b \in Int : b = Attempts[attempt].budget
      BY <1>3, AttemptTypes DEF Calls
    <3>3. CASE k = d + 1
      BY <1>2, <1>6, <1>9, <1>13, <3>1, <3>2, <3>3
    <3>4. CASE k = d
      BY <1>4, <1>6, <1>8, <1>14, <3>1, <3>4
    <3>5. CASE k # d /\ k # d + 1
      <4>1. k \in 1 .. d - 1 /\ k \in 1 .. Len(search)
        BY <1>2, <3>5
      <4> QED BY <1>3, <1>6, <1>14, <4>1 DEF Calls
    <3> QED BY <3>3, <3>4, <3>5
  <2>3. ASSUME NEW k \in 1 .. d PROVE search'[k].bit \in 0 .. 511
    <3>1. CASE k = d
      BY <1>7, <1>8, <1>14, <3>1
    <3>2. CASE k # d
      <4>1. k \in 1 .. d - 1
        BY <1>2, <3>2
      <4> QED BY <1>2, <1>3, <1>14, <4>1 DEF Calls
    <3> QED BY <3>1, <3>2
  <2>4. search'[d + 1].bit = NoBit
    BY <1>9, <1>13
  <2>5. \E j : Trail(j)'
    BY <1>17
  <2>6. (d + 1) - 1 = d
    BY <1>2
  <2> QED BY <1>13, <2>1, <2>2, <2>3, <2>4, <2>5, <2>6 DEF Calls
<1>19. AlphaTypeOK'
  BY <1>1, <1>6, <1>13, <1>16, NextTypes
<1> QED BY <1>1, <1>6, <1>13, <1>18, <1>19 DEF AlphaInv, Repairing, Between

-----------------------------------------------------------------------------
(* The other steps of alpha_repair().                                      *)

LEMMA NoFlips == \A A : Xor(A, A) = {} /\ Cardinality({}) = 0
<1>1. Cardinality({}) = 0
  BY Zenon, FS_EmptySet
<1> QED BY <1>1 DEF Xor

\* Before, between and after the searches the data are as they were.
LEMMA BetweenData ==
    ASSUME AlphaInv, Between
    PROVE  /\ damage \in SUBSET AllBits /\ wrong = damage
           /\ attempt \in -1 .. 12 /\ repaired = -2 /\ search = << >>
           /\ OneChip(damage) => attempt = -1
           /\ << >> \in Seq(Frame)
<1>1. << >> \in Seq(Frame)
  BY EmptySeq
<1> QED BY <1>1, AlphaTypes DEF AlphaInv, Between, Repairing

\* What chip_repair() flips.
LEMMA ChipFlipped ==
    ASSUME damage \in SUBSET AllBits, NEW k \in Cases, ChipFits(Syndrome(damage), k)
    PROVE  LET X == ChipFlips(Syndrome(damage), k)
           IN  /\ X \in SUBSET AllBits /\ Syndrome(X) = Syndrome(damage)
               /\ Cardinality(X) \in 0 .. 16
<1>1. PICK e : /\ e = ChipError(Syndrome(damage), k) /\ e \in SUBSET ChipBits
               /\ Syndrome(damage) = Syndrome(Err(k, e))
               /\ ChipFlips(Syndrome(damage), k) = Err(k, e)
  BY SyndromeType, FoundError
<1>2. e \in SUBSET WordBits
  BY <1>1, ChipBitsInWord
<1>3. Err(k, e) \in SUBSET AllBits /\ Cardinality(Err(k, e)) = Cardinality(e)
  BY <1>2, ErrType
<1>4. Cardinality(e) \in 0 .. 16
  <2>1. 0 \in Int /\ 15 \in Int
    OBVIOUS
  <2>2. IsFiniteSet(0 .. 15) /\ Cardinality(0 .. 15) = IF 0 > 15 THEN 0 ELSE 15 - 0 + 1
    BY Zenon, <2>1, FS_Interval
  <2>3. Cardinality(e) <= Cardinality(0 .. 15) /\ IsFiniteSet(e)
    BY <1>1, <2>2, FS_Subset DEF ChipBits
  <2>4. Cardinality(e) \in Nat
    BY <2>3, FS_CardinalityType
  <2> QED BY <2>2, <2>3, <2>4
<1> QED BY <1>1, <1>3, <1>4

LEMMA ChipStep ==
    ASSUME AlphaInv, ChipRepair
    PROVE  AlphaInv'
<1> DEFINE s == Syndrome(damage)
           fitting == {k \in Cases : ChipFits(s, k)}
           X == ChipFlips(s, Min(fitting))
<1>1. /\ damage \in SUBSET AllBits /\ wrong = damage
      /\ attempt = -1 /\ repaired = -2 /\ search = << >>
      /\ << >> \in Seq(Frame)
  BY BetweenData DEF ChipRepair
<1>2. \/ s = {} /\ Return(wrong, 0)
      \/ s # {} /\ fitting # {} /\ Return(Xor(wrong, X), Cardinality(X))
      \/ /\ s # {} /\ fitting = {} /\ attempt' = 0
         /\ UNCHANGED <<damage, wrong, search, repaired>>
  BY <1>1 DEF ChipRepair
<1>3. OneChip(damage) => s # {} /\ fitting # {} /\ \A k \in Cases : ChipFits(s, k) => ChipFlips(s, k) = damage
  BY <1>1, ChipFound
<1>4. Syndrome({}) = {} /\ Xor(damage, damage) = {} /\ Cardinality({}) = 0
  BY NoFlips, SyndromeNone
<1>5. CASE s = {} /\ Return(wrong, 0)
  <2>1. damage' = damage /\ wrong' = damage /\ repaired' = 0 /\ search' = << >> /\ attempt' = -1
    BY <1>1, <1>5 DEF Return
  <2>2. AlphaTypeOK'
    BY <1>1, <2>1, NextTypes
  <2>3. ~ OneChip(damage)
    BY <1>3, <1>5
  <2>4. Syndrome(wrong') = {} /\ Cardinality(Xor(damage', wrong')) <= repaired'
    <3>1. Syndrome(wrong') = {}
      BY <1>5, <2>1
    <3>2. Xor(damage', wrong') = {}
      BY <1>4, <2>1
    <3>3. Cardinality(Xor(damage', wrong')) = repaired' /\ repaired' \in Int
      <4>1. Cardinality(Xor(damage', wrong')) = 0
        BY Zenon, <1>4, <3>2
      <4> QED BY <2>1, <4>1
    <3> HIDE DEF s, fitting, X
    <3> QED BY ONLY <3>1, <3>3
  <2> QED BY <2>1, <2>2, <2>3, <2>4 DEF AlphaInv, Repairing, Between
<1>6. CASE s # {} /\ fitting # {} /\ Return(Xor(wrong, X), Cardinality(X))
  <2>1. Min(fitting) \in Cases /\ ChipFits(s, Min(fitting))
    <3>1. fitting \in SUBSET Nat
      BY DEF Cases
    <3>2. Min(fitting) \in fitting
      BY <1>6, <3>1, MinIn
    <3> QED BY <3>2
  <2>2. X \in SUBSET AllBits /\ Syndrome(X) = Syndrome(damage) /\ Cardinality(X) \in 0 .. 16
    BY <1>1, <2>1, ChipFlipped
  <2> HIDE DEF s, X, fitting
  <2>3. /\ damage' = damage /\ wrong' = Xor(damage, X) /\ repaired' = Cardinality(X)
        /\ search' = << >> /\ attempt' = -1
    BY <1>1, <1>6 DEF Return
  <2>4. Xor(damage, X) \in SUBSET AllBits /\ Syndrome(Xor(damage, X)) = {}
    BY <1>1, <2>2, Flipping
  <2>5. AlphaTypeOK'
    BY <1>1, <2>2, <2>3, <2>4, NextTypes
  <2>6. Xor(damage, Xor(damage, X)) = X
    BY DEF Xor
  <2>7. OneChip(damage) => X = damage
    BY <1>3, <2>1 DEF s, X, fitting
  <2>8. ASSUME OneChip(damage') PROVE wrong' = {} /\ repaired' = Cardinality(damage')
    <3>1. X = damage
      BY <2>3, <2>7, <2>8
    <3> HIDE DEF X
    <3> QED BY <1>4, <2>3, <3>1
  <2>9. Syndrome(wrong') = {} /\ Cardinality(Xor(damage', wrong')) <= repaired'
    BY <2>2, <2>3, <2>4, <2>6 DEF s
  <2>10. repaired' \in 0 .. 16
    BY <2>2, <2>3
  <2> QED BY <2>3, <2>5, <2>8, <2>9, <2>10 DEF AlphaInv, Repairing, Between
<1>7. CASE /\ s # {} /\ fitting = {} /\ attempt' = 0
           /\ UNCHANGED <<damage, wrong, search, repaired>>
  <2>1. AlphaTypeOK'
    BY <1>1, <1>7, NextTypes
  <2>2. ~ OneChip(damage)
    BY <1>3, <1>7
  <2> QED BY <1>1, <1>7, <2>1, <2>2 DEF AlphaInv, Repairing, Between
<1> QED BY <1>2, <1>5, <1>6, <1>7

LEMMA ParityStep ==
    ASSUME AlphaInv, ParityRepair
    PROVE  AlphaInv'
<1> DEFINE s == Syndrome(damage)
<1>1. /\ damage \in SUBSET AllBits /\ wrong = damage /\ ~ OneChip(damage)
      /\ attempt = 0 /\ repaired = -2 /\ search = << >>
      /\ << >> \in Seq(Frame)
  BY BetweenData DEF ParityRepair
<1>2. \/ Cardinality(s) <= 4 /\ Return(Xor(wrong, InParity(s)), Cardinality(s))
      \/ attempt' = 1 /\ UNCHANGED <<damage, wrong, search, repaired>>
  BY <1>1 DEF ParityRepair
<1>3. CASE Cardinality(s) <= 4 /\ Return(Xor(wrong, InParity(s)), Cardinality(s))
  <2>1. PICK X : X = InParity(s)
    OBVIOUS
  <2>2. s \in SUBSET WordBits
    BY SyndromeType
  <2>3. X \in SUBSET AllBits /\ Syndrome(X) = s /\ Cardinality(X) = Cardinality(s)
    BY <2>1, <2>2, ParityBits
  <2>4. /\ damage' = damage /\ wrong' = Xor(damage, X) /\ repaired' = Cardinality(s)
        /\ search' = << >> /\ attempt' = 0
    BY <1>1, <1>3, <2>1 DEF Return
  <2>5. Xor(damage, X) \in SUBSET AllBits /\ Syndrome(Xor(damage, X)) = {}
    BY <1>1, <2>3, Flipping
  <2>6. Cardinality(s) \in 0 .. 4
    <3>1. Cardinality(s) \in Nat
      BY <2>2, BitsFinite, FS_CardinalityType
    <3> QED BY <1>3, <3>1
  <2> HIDE DEF s
  <2>7. AlphaTypeOK'
    BY <1>1, <2>4, <2>5, <2>6, NextTypes
  <2>8. Xor(damage, Xor(damage, X)) = X
    BY DEF Xor
  <2>9. Syndrome(wrong') = {} /\ Cardinality(Xor(damage', wrong')) <= repaired'
    BY <2>3, <2>4, <2>5, <2>6, <2>8
  <2> QED BY <1>1, <2>4, <2>6, <2>7, <2>9 DEF AlphaInv, Repairing, Between
<1>4. CASE attempt' = 1 /\ UNCHANGED <<damage, wrong, search, repaired>>
  <2>1. AlphaTypeOK'
    BY <1>1, <1>4, NextTypes
  <2> QED BY <1>1, <1>4, <2>1 DEF AlphaInv, Repairing, Between
<1> QED BY <1>2, <1>3, <1>4

\* The first call of a search.
LEMMA AttemptStep ==
    ASSUME AlphaInv, Attempt
    PROVE  AlphaInv'
<1>1. /\ damage \in SUBSET AllBits /\ wrong = damage /\ ~ OneChip(damage)
      /\ attempt \in 1 .. 11 /\ repaired = -2 /\ search = << >>
  BY BetweenData, AttemptTypes DEF Attempt
<1> DEFINE a == Attempts[attempt]
<1>2. \/ /\ search' = <<Calling(a.budget, 7, a.least)>>
         /\ UNCHANGED <<damage, wrong, attempt, repaired>>
      \/ /\ attempt' = attempt + 1
         /\ UNCHANGED <<damage, wrong, search, repaired>>
  BY DEF Attempt
<1>3. CASE /\ search' = <<Calling(a.budget, 7, a.least)>>
           /\ UNCHANGED <<damage, wrong, attempt, repaired>>
  <2>1. PICK c : c = Calling(a.budget, 7, a.least)
    OBVIOUS
  <2>2. a.budget \in 1 .. 6 /\ a.least \in 0 .. 7
    BY <1>1, AttemptTypes
  <2>3. c \in Frame /\ c.budget = a.budget /\ c.bit = NoBit /\ c.phase = "while"
    <3>1. PICK x, y : x = a.least /\ y = 7 - a.budget \div 2
      OBVIOUS
    <3>2. x \in 0 .. 7 /\ y \in 0 .. 7
      BY <2>2, <3>1
    <3>3. \E z \in {x, y} : \A w \in {x, y} : z <= w
      BY <3>2
    <3>4. Min({x, y}) \in {x, y}
      BY <3>3 DEF Min
    <3>5. Min({x, y}) \in 0 .. 7
      BY <3>2, <3>4
    <3>6. {} \in BitSet /\ -1 \in -1 .. 511 /\ 7 \in 0 .. 7
      BY DEF BitSet
    <3> HIDE DEF a
    <3> QED BY <2>1, <2>2, <3>1, <3>5, <3>6 DEF Calling, Frame, NoBit
  <2>4. search' = <<c>> /\ Len(search') = 1 /\ search'[1] = c /\ search' \in Seq(Frame) /\ search' # << >>
    BY <1>3, <2>1, <2>3
  <2>5. PICK h : h = [k \in 1 .. 1 |-> damage]
    OBVIOUS
  <2>6. Trail(h)'
    <3>1. h \in [1 .. 1 -> SUBSET AllBits] /\ h[1] = damage
      BY <1>1, <2>5
    <3>2. \A k \in 1 .. 1 : k = 1
      OBVIOUS
    <3>3. \A k \in 1 .. 1 : Cardinality(Xor(damage', h[k])) <= k - 1
      BY <1>3, <3>1, <3>2, NoFlips
    <3>4. \A k \in 1 .. 1 - 1 : FALSE
      OBVIOUS
    <3> QED BY <1>1, <1>3, <2>4, <3>1, <3>3, <3>4 DEF Trail
  <2>7. Calls'
    <3>1. attempt' \in DOMAIN Attempts
      BY <1>1, <1>3, AttemptTypes
    <3>2. \A k \in 1 .. 1 : k = 1
      OBVIOUS
    <3>3. \A k \in 1 .. Len(search') :
             /\ search'[k].budget = Attempts[attempt'].budget - (k - 1)
             /\ search'[k].phase = "for" => search'[k].budget > 2
      BY <1>3, <2>2, <2>3, <2>4, <3>2
    <3>4. \A k \in 1 .. Len(search') - 1 : FALSE
      BY <2>4
    <3>5. search'[Len(search')].bit = NoBit
      BY <2>3, <2>4
    <3>6. \E i : Trail(i)'
      BY <2>6
    <3> QED BY <3>1, <3>3, <3>4, <3>5, <3>6 DEF Calls
  <2>8. AlphaTypeOK'
    BY <1>1, <1>3, <2>4, NextTypes
  <2> QED BY <1>1, <1>3, <2>4, <2>7, <2>8 DEF AlphaInv, Repairing, Between
<1>4. CASE /\ attempt' = attempt + 1
           /\ UNCHANGED <<damage, wrong, search, repaired>>
  <2>1. << >> \in Seq(Frame)
    BY EmptySeq
  <2>2. AlphaTypeOK'
    BY <1>1, <1>4, <2>1, NextTypes
  <2> QED BY <1>1, <1>4, <2>2 DEF AlphaInv, Repairing, Between
<1> QED BY <1>2, <1>3, <1>4

LEMMA FailStep ==
    ASSUME AlphaInv, RepairFailed
    PROVE  AlphaInv'
<1>1. /\ damage \in SUBSET AllBits /\ wrong = damage /\ ~ OneChip(damage)
      /\ attempt \in -1 .. 12 /\ repaired = -2 /\ search = << >>
      /\ << >> \in Seq(Frame)
  BY BetweenData, AttemptTypes DEF RepairFailed
<1>2. damage' = damage /\ wrong' = damage /\ repaired' = -1 /\ search' = << >> /\ attempt' = attempt
  BY <1>1 DEF RepairFailed, Return
<1>3. AlphaTypeOK'
  BY <1>1, <1>2, NextTypes
<1> QED BY <1>1, <1>2, <1>3 DEF AlphaInv, Repairing, Between

LEMMA SearchStep ==
    ASSUME AlphaInv, Search
    PROVE  AlphaInv'
<1>1. Repairing /\ search # << >>
  BY DEF Search
<1>2. PICK f : /\ f = search[Len(search)]
               /\ \/ RepairOneBit(f) \/ RepairTwoBits(f)
                  \/ Round(f) \/ TryBit(f) \/ LowerThreshold(f)
  BY DEF Search
<1>3. CASE RepairOneBit(f)
  BY <1>1, <1>2, <1>3, OneBitStep
<1>4. CASE RepairTwoBits(f)
  BY <1>1, <1>2, <1>4, TwoBitsStep
<1>5. CASE Round(f)
  BY <1>1, <1>2, <1>5, RoundStep
<1>6. CASE TryBit(f)
  BY <1>1, <1>2, <1>6, TryStep
<1>7. CASE LowerThreshold(f)
  BY <1>1, <1>2, <1>7, LowerStep
<1> QED BY <1>2, <1>3, <1>4, <1>5, <1>6, <1>7

LEMMA AlphaIdle ==
    ASSUME AlphaInv, UNCHANGED alpha_vars
    PROVE  AlphaInv'
<1>1. UNCHANGED <<damage, wrong, attempt, search, repaired>>
  BY DEF alpha_vars
<1> QED BY <1>1 DEF AlphaInv, AlphaTypeOK, Calls, Trail, Repairing, Between

\* The invariant, and what follows from it for alpha_repair().
LEMMA AlphaInductive == AlphaSpec => []AlphaInv
<1>1. ASSUME AlphaInv, [AlphaNext]_alpha_vars PROVE AlphaInv'
  <2>1. CASE ChipRepair
    BY <1>1, <2>1, ChipStep
  <2>2. CASE ParityRepair
    BY <1>1, <2>2, ParityStep
  <2>3. CASE Attempt
    BY <1>1, <2>3, AttemptStep
  <2>4. CASE Search
    BY <1>1, <2>4, SearchStep
  <2>5. CASE RepairFailed
    BY <1>1, <2>5, FailStep
  <2>6. CASE UNCHANGED alpha_vars
    BY <1>1, <2>6, AlphaIdle
  <2> QED BY <1>1, <2>1, <2>2, <2>3, <2>4, <2>5, <2>6 DEF AlphaNext
<1> QED BY <1>1, AlphaStart, PTL DEF AlphaSpec

\* No call of alpha_repair_recursive() runs out of its budget, or tries a bit
\* that is not in the data.
THEOREM AlphaTyped == AlphaSpec => []AlphaTypeOK
<1>1. AlphaInv => AlphaTypeOK
  BY DEF AlphaInv
<1> QED BY <1>1, AlphaInductive, PTL

\* Failed attempts take back every bit they flipped, whatever was damaged.
THEOREM AlphaUndoes == AlphaSpec => []AlphaUndone
<1>1. AlphaInv => AlphaUndone
  BY DEF AlphaInv, AlphaUndone
<1> QED BY <1>1, AlphaInductive, PTL

\* Data that alpha_repair() reports as repaired have an empty syndrome, and it
\* changed no more bits than it says, whatever was damaged.
THEOREM AlphaSound == AlphaSpec => []AlphaConsistent
<1>1. AlphaInv => AlphaConsistent
  BY DEF AlphaInv, AlphaConsistent, AlphaEnded
<1> QED BY <1>1, AlphaInductive, PTL

\* All the errors of one chip, 65535 of them in each of 36 chips, are repaired
\* and counted.
THEOREM ChipsRepaired == AlphaSpec => []ChipRepaired
<1>1. AlphaInv => ChipRepaired
  BY DEF AlphaInv, ChipRepaired, AlphaEnded
<1> QED BY <1>1, AlphaInductive, PTL
===============================================================================
