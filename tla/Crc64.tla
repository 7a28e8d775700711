--------------------------------- MODULE Crc64 ---------------------------------
(***************************************************************************)
(* crc64.c: the CRC of a message with carry-less multiplications, narrow   *)
(* (crc64_clmul) and wide (crc64_pclmul).                                  *)
(*                                                                         *)
(* The CRC is the message, its first eight bytes combined with the initial *)
(* crc, times x^64 modulo the polynomial.  Everything the code does to the *)
(* message is linear, so a register is represented by what it stands for:  *)
(* a sum of terms <<i, e>>, byte i of the message times x^(8e).  The bytes *)
(* of the initial crc are the terms with i = -8 .. -1.  The exponents of a *)
(* register count from its last byte.  How far a multiplication moves a    *)
(* register is not taken from the comments but computed from its           *)
(* constants.                                                              *)
(***************************************************************************)
EXTENDS BitSets

CONSTANTS MessageLengths,  \* the lengths of the messages, with
          Alignments       \* the position of the first byte in its 64 bytes

ASSUME MessageAssumption ==
    MessageLengths \subseteq Nat /\ Alignments \subseteq 0 .. 63

VARIABLES
    len, align,      \* the message: its length and position in memory
    routine,         \* "clmul" or "pclmul"
    data, n,         \* where the rest of the message begins, and its length
    acc,             \* the registers a, b, c, ...
    crc,             \* the result, a sum of terms
    stage            \* the next part of the routine

crc_vars == <<len, align, routine, data, n, acc, crc, stage>>

Registers == 1 .. 8

-----------------------------------------------------------------------------
(* Polynomials modulo x^64 + P, by their exponents.                        *)

P == Word(\h42f0, \he1eb, \ha9ea, \h3693)

\* A polynomial of degree 127 at most, modulo x^64 + P.
Mod(A) ==
    LET m[k \in 64 .. 128] ==
          IF k = 128 THEN A
          ELSE LET rest == m[k + 1] IN
               IF k \in rest THEN Xor(rest \ {k}, Shifted(P, k - 64)) ELSE rest
    IN  m[64]

\* x^128, x^256, x^512, x^1024 and x^2048.
Square(A) == Mod({2 * e : e \in A})
X128 == Square(P)
X256 == Square(X128)
X512 == Square(X256)
X1024 == Square(X512)
X2048 == Square(X1024)
Powers == <<X128, X256, X512, X1024, X2048>>

\* In a reflected word the highest power is bit 0.
Reflected(A) == {63 - b : b \in A}

-----------------------------------------------------------------------------
(* The constants.                                                          *)

\* The low half of a register is multiplied by lo, the high half by hi.
Mu8 == [hi |-> Word(\hd7d8, \h6b2a, \hf73d, \he740),
        lo |-> Word(\h8757, \hd71d, \h4fcc, \h1000)]
Mu4 == [hi |-> Word(\h081f, \h6054, \ha784, \h2df4),
        lo |-> Word(\h6ae3, \hefbb, \h9dd4, \h41f3)]
Mu2 == [hi |-> Word(\h3be6, \h53a3, \h0fe1, \haf51),
        lo |-> Word(\h6009, \h5b00, \h8a9e, \hfa44)]
Mu1 == [hi |-> Word(\hdabe, \h95af, \hc787, \h5f40),
        lo |-> Word(\he05d, \hd497, \hca39, \h3ae4)]
MuBarrett == [hi |-> Word(\h92d8, \haf2b, \haf0e, \h1e85),
              lo |-> Word(\h9c3e, \h466c, \h1729, \h63d5)]

\* Those of crc64_pclmul().
WideMu4 == [hi |-> Word(\hf31f, \hd927, \h1e22, \h8b79),
            lo |-> Word(\h8260, \hadf2, \h381a, \hd81c)]
WideMu2 == [hi |-> Word(\hd7d8, \h6b2a, \hf73d, \he740),
            lo |-> Word(\h8757, \hd71d, \h4fcc, \h1000)]
WideMu1 == [hi |-> Word(\h081f, \h6054, \ha784, \h2df4),
            lo |-> Word(\h6ae3, \hefbb, \h9dd4, \h41f3)]

\* How far a pair of constants moves a register: the low half is 64 bits
\* further from the end than the high half, and a reflected product is one bit
\* short.
Moves(mu) ==
    {2^(k + 3) : k \in {j \in DOMAIN Powers :
        /\ Reflected(mu.lo) = Mod(Shifted(Powers[j], 63))
        /\ Mod(Shifted(Reflected(mu.hi), 1)) = Powers[j]}}

By8 == Moves(Mu8)
By4 == Moves(Mu4)
By2 == Moves(Mu2)
By1 == Moves(Mu1)
WideBy4 == Moves(WideMu4)
WideBy2 == Moves(WideMu2)
WideBy1 == Moves(WideMu1)

\* Each pair moves a register over what its loop consumes.
ASSUME FoldAssumption ==
    /\ By8 = {128} /\ By4 = {64} /\ By2 = {32} /\ By1 = {16}
    /\ WideBy4 = {256} /\ WideBy2 = {128} /\ WideBy1 = {64}

\* The Barrett reduction of a register, given by its bits.
Barrett(a) ==
    LET b == Product({j \in a : j < 64}, MuBarrett.lo, 0, 127)
        low == {j \in b : j < 64}
        c == Xor(Product(low, MuBarrett.hi, 64, 127), Shifted(low, 64))
    IN  {j - 64 : j \in {k \in Xor(c, a) : k >= 64}}

\* It is right for each bit, and therefore for all sums of them.
ASSUME BarrettAssumption ==
    \A j \in 0 .. 127 : Barrett({j}) = Reflected(Mod({127 - j}))

-----------------------------------------------------------------------------
(* Sums of terms.                                                          *)

\* A register after a multiplication: fold1().
Fold(sum, moves) == {<<t[1], t[2] + d>> : t \in sum, d \in moves}

\* Loading width bytes of the message ...
Load(from, width) == {<<i, from + width - 1 - i>> : i \in from .. from + width - 1}

\* ... and of its beginning, where it is combined with the initial crc.
\* Before the first byte there are zeros.
LoadFirst(from, width) ==
    {t \in Load(from, width) : t[1] >= 0}
    \union {<<t[1] - 8, t[2]>> : t \in {u \in Load(from, width) : u[1] \in 0 .. 7}}

\* count registers take one more load each.
FoldLoad(count, moves, width) ==
    /\ acc' = [k \in Registers |->
                 IF k <= count
                 THEN Xor(Fold(acc[k], moves), Load(data + (k - 1) * width, width))
                 ELSE {}]
    /\ n' = n - count * width
    /\ data' = data + count * width

\* The registers after the first count are folded into those.
FoldPairs(count, moves) ==
    /\ acc' = [k \in Registers |->
                 IF k <= count THEN Xor(Fold(acc[k], moves), acc[k + count]) ELSE {}]
    /\ UNCHANGED <<data, n>>

\* FirstLoads that combines the initial crc only with the first register.
FirstRegisterOnly(count, width, skip) ==
    /\ acc' = [k \in Registers |->
                 IF k = 1 THEN LoadFirst(-skip, width)
                 ELSE IF k <= count THEN Load((k - 1) * width - skip, width)
                 ELSE {}]
    /\ n' = n + skip - count * width
    /\ data' = count * width - skip

\* The first count registers, skip bytes before the message's first.
FirstLoads(count, width, skip) ==
    /\ acc' = [k \in Registers |->
                 IF k = 1 \/ (k = 2 /\ skip > 0)
                 THEN LoadFirst((k - 1) * width - skip, width)
                 ELSE IF k <= count THEN Load((k - 1) * width - skip, width)
                 ELSE {}]
    /\ n' = n + skip - count * width
    /\ data' = count * width - skip

\* The distance to the next multiple of width.
Skip(width) == (width - (align % width)) % width

-----------------------------------------------------------------------------
(* Plausible bugs.  Each is a variant of the definition it names, that the *)
(* project's runs must tell from the real one; none is part of the         *)
(* specification.                                                          *)

\* More1 that leaves up to 32 bytes to the tail.
LongTail ==
    /\ routine = "clmul" /\ stage = "more1" /\ stage' = "tail"
    /\ \/ n > 32 /\ FoldLoad(1, By1, 16)
       \/ n <= 32 /\ UNCHANGED <<data, n, acc>>
    /\ UNCHANGED <<len, align, routine, crc>>

-----------------------------------------------------------------------------
(* crc64_clmul()                                                           *)

Enter(r, from, to) ==
    /\ routine = r /\ stage = from /\ stage' = to
    /\ UNCHANGED <<len, align, routine>>

\* Lines 47-69: eight registers, the first two aligned by hand.
Start8 ==
    /\ n >= 128
    /\ Enter("clmul", "start", "loop8")
    /\ FirstLoads(8, 16, Skip(16))
    /\ UNCHANGED crc

\* Lines 127-142: four registers or two.
Start4 ==
    /\ n \in 64 .. 127
    /\ Enter("clmul", "start", "chain4")
    /\ acc' = [k \in Registers |-> IF k = 1 THEN LoadFirst(0, 16)
                                   ELSE IF k <= 4 THEN Load((k - 1) * 16, 16) ELSE {}]
    /\ n' = n - 64 /\ data' = data + 64
    /\ UNCHANGED crc

Start2 ==
    /\ n \in 32 .. 63
    /\ Enter("clmul", "start", "chain2")
    /\ acc' = [k \in Registers |-> IF k = 1 THEN LoadFirst(0, 16)
                                   ELSE IF k = 2 THEN Load(16, 16) ELSE {}]
    /\ n' = n - 32 /\ data' = data + 32
    /\ UNCHANGED crc

\* Lines 70-81.
Loop8 ==
    /\ n >= 128
    /\ Enter("clmul", "loop8", "loop8")
    /\ FoldLoad(8, By8, 16)
    /\ UNCHANGED crc

\* Lines 86-89.
Reduce8 ==
    /\ n < 128
    /\ Enter("clmul", "loop8", "more4")
    /\ FoldPairs(4, By4)
    /\ UNCHANGED crc

\* Lines 90-97: what is left for four registers.
More4 ==
    /\ Enter("clmul", "more4", "chain4")
    /\ \/ n >= 64 /\ FoldLoad(4, By4, 16)
       \/ n < 64 /\ UNCHANGED <<data, n, acc>>
    /\ UNCHANGED crc

\* Lines 98-101.
Chain4 ==
    /\ Enter("clmul", "chain4", "more2")
    /\ FoldPairs(2, By2)
    /\ UNCHANGED crc

More2 ==
    /\ Enter("clmul", "more2", "chain2")
    /\ \/ n >= 32 /\ FoldLoad(2, By2, 16)
       \/ n < 32 /\ UNCHANGED <<data, n, acc>>
    /\ UNCHANGED crc

\* Lines 108-110.
Chain2 ==
    /\ Enter("clmul", "chain2", "more1")
    /\ FoldPairs(1, By1)
    /\ UNCHANGED crc

\* Lines 111-115.
More1 ==
    /\ Enter("clmul", "more1", "tail")
    /\ \/ n > 24 /\ FoldLoad(1, By1, 16)
       \/ n <= 24 /\ UNCHANGED <<data, n, acc>>
    /\ UNCHANGED crc

\* What byte p of the buffer of 48 bytes is multiplied by (lines 151-155).
Weight(p) ==
    IF p < 16 THEN {15 - p + d : d \in By2}
    ELSE IF p < 32 THEN {31 - p + d : d \in By1}
    ELSE {47 - p}

\* The rest of the message, from position start of the buffer ...
Rest(start) ==
    UNION {{<<data + i, w>> : w \in Weight(start + i)} : i \in 0 .. n - 1}
\* ... what register a is multiplied by in the 16 bytes before it, and the
\* initial crc if there was no register.
Before(start) ==
    {s \in 0 .. 47 : \A k \in 0 .. 15 : Weight(start - 16 + k) = {15 - k + s}}
InitialCrc(start) ==
    UNION {{<<i - 8, w>> : w \in Weight(start + i)} : i \in 0 .. 7}

\* Lines 124-126: register a and then the rest of the message, so that eight
\* zeros remain behind it.
LastPart ==
    /\ Enter("clmul", "tail", "done")
    /\ LET start == 48 - 8 - n IN crc' = Fold(acc[1], Before(start)) \union Rest(start)
    /\ UNCHANGED <<data, n, acc>>

\* Lines 143-148: a message of less than 32 bytes.
Short ==
    /\ n < 32
    /\ Enter("clmul", "start", "done")
    /\ LET start == 48 - 8 - n IN crc' = InitialCrc(start) \union Rest(start)
    /\ UNCHANGED <<data, n, acc>>

-----------------------------------------------------------------------------
(* crc64_pclmul()                                                          *)

\* Lines 198-221.
WideStart4 ==
    /\ n >= 256
    /\ Enter("pclmul", "start", "loop4")
    /\ FirstLoads(4, 64, Skip(64))
    /\ UNCHANGED crc

\* Lines 259-265.
WideStart2 ==
    /\ n \in 129 .. 255
    /\ Enter("pclmul", "start", "chain2")
    /\ acc' = [k \in Registers |-> IF k = 1 THEN LoadFirst(0, 64)
                                   ELSE IF k = 2 THEN Load(64, 64) ELSE {}]
    /\ n' = n - 128 /\ data' = data + 128
    /\ UNCHANGED crc

\* Lines 222-229.
WideLoop4 ==
    /\ n >= 256
    /\ Enter("pclmul", "loop4", "loop4")
    /\ FoldLoad(4, WideBy4, 64)
    /\ UNCHANGED crc

\* Lines 230-232.
WideReduce4 ==
    /\ n < 256
    /\ Enter("pclmul", "loop4", "more2")
    /\ FoldPairs(2, WideBy2)
    /\ UNCHANGED crc

\* Lines 233-238.
WideMore2 ==
    /\ Enter("pclmul", "more2", "chain2")
    /\ \/ n >= 128 /\ FoldLoad(2, WideBy2, 64)
       \/ n < 128 /\ UNCHANGED <<data, n, acc>>
    /\ UNCHANGED crc

\* Lines 239-241.
WideChain2 ==
    /\ Enter("pclmul", "chain2", "more1")
    /\ FoldPairs(1, WideBy1)
    /\ UNCHANGED crc

\* Lines 242-246.
WideMore1 ==
    /\ Enter("pclmul", "more1", "tail")
    /\ \/ n >= 64 /\ FoldLoad(1, WideBy1, 64)
       \/ n < 64 /\ UNCHANGED <<data, n, acc>>
    /\ UNCHANGED crc

\* Lines 254-258.  The call of crc64_clmul() for the buffer of 128 bytes, with
\* an initial crc that combines to nothing, multiplies byte p as it does byte
\* p of any message (EachByteOnce).
WideTail ==
    /\ Enter("pclmul", "tail", "done")
    /\ LET start == 128 - n IN
          crc' = Fold(acc[1], {127 - (start - 1) + 8})
                 \union {<<data + i, 127 - (start + i) + 8>> : i \in 0 .. n - 1}
    /\ UNCHANGED <<data, n, acc>>

\* Line 267.
WideShort ==
    /\ n <= 128
    /\ routine = "pclmul" /\ stage = "start"
    /\ routine' = "clmul"
    /\ UNCHANGED <<len, align, data, n, acc, crc, stage>>

-----------------------------------------------------------------------------
\* A call for a message of length l at position a of its 64 bytes.
CrcCall(r, l, a) ==
    /\ routine = r /\ len = l /\ align = a
    /\ data = 0 /\ n = l
    /\ acc = [k \in Registers |-> {}] /\ crc = {}
    /\ stage = "start"

CrcInit == \E r \in {"clmul", "pclmul"}, l \in MessageLengths, a \in Alignments :
              CrcCall(r, l, a)

CrcNext ==
    \/ Start8 \/ Start4 \/ Start2 \/ Short
    \/ Loop8 \/ Reduce8 \/ More4 \/ Chain4 \/ More2 \/ Chain2 \/ More1 \/ LastPart
    \/ WideStart4 \/ WideStart2 \/ WideShort
    \/ WideLoop4 \/ WideReduce4 \/ WideMore2 \/ WideChain2 \/ WideMore1 \/ WideTail

CrcSpec == CrcInit /\ [][CrcNext]_crc_vars

-----------------------------------------------------------------------------
(* What makes it correct.                                                  *)

\* Types of the state of crc64.c's two routines.
CrcTypeOK ==
    /\ len \in Nat /\ align \in 0 .. 63
    /\ routine \in {"clmul", "pclmul"}
    /\ data \in Nat /\ n \in Nat
    /\ acc \in [Registers -> SUBSET (Int \X Int)]
    /\ crc \in SUBSET (Int \X Int)
    /\ stage \in {"start", "loop8", "loop4", "more4", "chain4", "more2", "chain2",
                  "more1", "tail", "done"}

\* What data and n say is always the rest of the message, also after the
\* hand-made alignment that sets data back before its beginning; and when the
\* loops and thresholds are through, the rest fits behind register a into the
\* buffer of 48 bytes, with the eight zeros, or the one of 128 bytes.
TailFits ==
    /\ data + n = len
    /\ stage = "tail" =>
         IF routine = "clmul" THEN 48 - 8 - n - 16 >= 0 ELSE 128 - n - 64 >= 0

\* Whatever the length and the alignment, the CRC is the one of the message:
\* every byte of the message, and of the initial crc at its beginning, enters
\* it exactly once and with the right power of x; no byte outside the message
\* does.
EachByteOnce ==
    stage = "done" =>
        crc = {<<i, len - 1 - i + 8>> : i \in 0 .. len - 1}
              \union {<<j - 8, len - 1 - j + 8>> : j \in 0 .. 7}

CrcEnded == stage = "done"
=============================================================================
