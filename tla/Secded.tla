--------------------------------- MODULE Secded ---------------------------------
(***************************************************************************)
(* ldpc.c, secded: eight check bits for each word of 64 bits, that repair  *)
(* a flipped bit and detect two.                                           *)
(*                                                                         *)
(* Encoding is linear: what the decoder does depends only on which bits    *)
(* differ from the words that were encoded.  A word is represented by the  *)
(* set of these bits, 0 .. 63 for its data, 64 .. 71 for its check bits.   *)
(***************************************************************************)
EXTENDS BitSets, Sequences

CONSTANTS Words,        \* the number of words: 8 in the code
          SecdedInputs  \* the flipped bits of each word

DataBits == 0 .. 63
CheckBits == 64 .. 71

ASSUME SecdedAssumption ==
    /\ Words \in Nat \ {0}
    /\ SecdedInputs \subseteq [0 .. Words - 1 -> SUBSET (DataBits \union CheckBits)]

VARIABLES
    corrupted,  \* the flipped bits before the repair
    flipped,    \* word -> the bits that are flipped
    word,       \* the next word
    ret,        \* sum of the results
    failed      \* err: some word could not be repaired

secded_vars == <<corrupted, flipped, word, ret, failed>>

-----------------------------------------------------------------------------
(* secded_encode()                                                         *)

\* The bits of a mask in their order: _pdep_u64() puts bit b to place b.
Places(mask) ==
    [b \in 0 .. Cardinality(mask) - 1 |->
        CHOOSE p \in mask : Cardinality({q \in mask : q < p}) = b]

LowPlaces == Places(Word(\hffff, \hfffe, \hfffe, \hfee8))
HighPlaces == Places(Word(0, 0, 0, \hfe))

\* The masks of the first six check bits.
CheckMask == [j \in 0 .. 5 |->
    CASE j = 0 -> Word(\haaaa, \haaaa, \haaaa, \haaaa)
      [] j = 1 -> Word(\hcccc, \hcccc, \hcccc, \hcccc)
      [] j = 2 -> Word(\hf0f0, \hf0f0, \hf0f0, \hf0f0)
      [] j = 3 -> Word(\hff00, \hff00, \hff00, \hff00)
      [] j = 4 -> Word(\hffff, 0, \hffff, 0)
      [] j = 5 -> Word(\hffff, \hffff, 0, 0)]

\* The check bits of data, numbered 0 .. 7.
Encode(data) ==
    LET lo == {LowPlaces[b] : b \in data \intersect DOMAIN LowPlaces}
        hi == {HighPlaces[b - 57] : b \in data \intersect (57 .. 63)}
        both == Xor(hi, lo)
        first == {j \in 0 .. 5 : Odd(both \intersect CheckMask[j])}
                 \union {j \in {6} : Odd(hi)}
    IN  first \union {j \in {7} : Odd(Xor(first, both))}

-----------------------------------------------------------------------------
(* secded_decode()                                                         *)

\* Line 470.
SyndromeOf(bits) ==
    Xor(Encode(bits \intersect DataBits), {b - 64 : b \in bits \intersect CheckBits})

\* The bit that a syndrome names.
BitTable == <<
    71, 64, 65,  0,  66,  1,  2,  3,  67,  4,  5,  6,   7,  8,  9, 10,
    68, 11, 12, 13,  14, 15, 16, 17,  18, 19, 20, 21,  22, 23, 24, 25,
    69, 26, 27, 28,  29, 30, 31, 32,  33, 34, 35, 36,  37, 38, 39, 40,
    41, 42, 43, 44,  45, 46, 47, 48,  49, 50, 51, 52,  53, 54, 55, 56,
    70, 57, 58, 59,  60, 61, 62, 63 >>

\* syndrome & 0x7f, a number.
Named(syndrome) ==
    (IF 0 \in syndrome THEN 1 ELSE 0) + (IF 1 \in syndrome THEN 2 ELSE 0)
    + (IF 2 \in syndrome THEN 4 ELSE 0) + (IF 3 \in syndrome THEN 8 ELSE 0)
    + (IF 4 \in syndrome THEN 16 ELSE 0) + (IF 5 \in syndrome THEN 32 ELSE 0)
    + (IF 6 \in syndrome THEN 64 ELSE 0)

\* The masks of secded_encode() have room for 57 bits and for 7, each bit with
\* a place of its own.
ASSUME PlacesAssumption ==
    /\ LowPlaces \in [0 .. 56 -> DataBits] /\ HighPlaces \in [0 .. 6 -> DataBits]
    /\ \A b, c \in 0 .. 56 : LowPlaces[b] = LowPlaces[c] => b = c
    /\ \A b, c \in 0 .. 6 : HighPlaces[b] = HighPlaces[c] => b = c

\* The syndrome of each single bit has an odd number of ones, and bit_table
\* names that bit again.
ASSUME TableAssumption ==
    /\ Len(BitTable) = 72
    /\ \A i \in 1 .. 72 : BitTable[i] \in DataBits \union CheckBits
    /\ \A b \in DataBits \union CheckBits :
         /\ Odd(SyndromeOf({b}))
         /\ Named(SyndromeOf({b})) < 72
         /\ BitTable[Named(SyndromeOf({b})) + 1] = b

\* Verdict that repairs without looking at the parity of the syndrome.
NoParity(syndrome) ==
    IF syndrome = {} THEN 0 ELSE IF Named(syndrome) >= Len(BitTable) THEN 3 ELSE 1

\* Verdict that looks at the first seven bits only.
SevenBits(syndrome) ==
    IF Named(syndrome) = 0 THEN 0
    ELSE IF ~Odd(syndrome) THEN 2
    ELSE IF Named(syndrome) >= Len(BitTable) THEN 3
    ELSE 1

\* How the decoder answers a syndrome.
Verdict(syndrome) ==
    IF syndrome = {} THEN 0
    ELSE IF ~Odd(syndrome) THEN 2
    ELSE IF Named(syndrome) >= Len(BitTable) THEN 3
    ELSE 1

\* Lines 505-512, the loop of secded_repair().
Decode ==
    /\ word < Words
    /\ \E syndrome \in {SyndromeOf(flipped[word])} :
       \E r \in {Verdict(syndrome)} :
         /\ flipped' = [flipped EXCEPT ![word] =
                          IF r = 1 THEN Xor(@, {BitTable[Named(syndrome) + 1]}) ELSE @]
         /\ failed' = (failed \/ r > 1)
         /\ ret' = ret + r
    /\ word' = word + 1
    /\ UNCHANGED corrupted

\* What secded_repair() returns.
SecdedResult == IF failed THEN -1 ELSE ret

SecdedCall(input) ==
    /\ corrupted = input /\ flipped = input
    /\ word = 0 /\ ret = 0 /\ failed = FALSE

SecdedInit == \E input \in SecdedInputs : SecdedCall(input)

SecdedNext == Decode

SecdedSpec == SecdedInit /\ [][SecdedNext]_secded_vars

-----------------------------------------------------------------------------
(* What makes it correct.                                                  *)

SecdedEnded == word = Words

\* Types of secded_repair()'s state.
SecdedTypeOK ==
    /\ {corrupted, flipped} \subseteq [0 .. Words - 1 -> SUBSET (DataBits \union CheckBits)]
    /\ word \in 0 .. Words
    /\ ret \in 0 .. 3 * Words
    /\ failed \in BOOLEAN

\* A flipped bit is repaired wherever it is, and two flipped bits of a word
\* are reported and left alone, whatever the other words contain; the result
\* counts what was repaired.
Repaired ==
    SecdedEnded =>
        LET single == {w \in DOMAIN corrupted : Cardinality(corrupted[w]) = 1}
            double == {w \in DOMAIN corrupted : Cardinality(corrupted[w]) = 2}
            clean == {w \in DOMAIN corrupted : corrupted[w] = {}}
        IN  /\ \A w \in single \union clean : flipped[w] = {}
            /\ \A w \in double : flipped[w] = corrupted[w]
            /\ double # {} => SecdedResult = -1
            /\ single \union clean = DOMAIN corrupted => SecdedResult = Cardinality(single)

\* Three flipped bits may be taken for one, but they never pass for none: a
\* word that is still wrong is never part of a result of zero.  A syndrome
\* beyond the table is reported.
NeverSilent ==
    SecdedEnded /\ (\A w \in DOMAIN corrupted : Cardinality(corrupted[w]) <= 3)
                /\ (\E w \in DOMAIN corrupted : flipped[w] # {})
        => SecdedResult # 0
=============================================================================
