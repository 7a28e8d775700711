------------------------------- MODULE AlphaCode -------------------------------
(***************************************************************************)
(* ldpc.c, alpha: 64 check bits for eight words of 64 bits, that repair    *)
(* some flipped bits anywhere and any number of them within a chip, a      *)
(* group of 16 bits.                                                       *)
(*                                                                         *)
(* Encoding is linear: what the decoder does depends only on which bits    *)
(* differ from the data that was encoded.  Bit b of data[i] is 64 * i + b; *)
(* data[8] holds the check bits.  A step of a search is one round of its    *)
(* loop, one bit that is tried, or one call at the end of the recursion.    *)
(***************************************************************************)
EXTENDS BitSets, Sequences, FiniteSetsExt

CONSTANT AlphaInputs  \* sets of flipped bits

AllBits == 0 .. 575

ASSUME AlphaAssumption == AlphaInputs \subseteq SUBSET AllBits

VARIABLES
    damage,    \* the flipped bits before the repair
    wrong,     \* data: the bits that are flipped
    attempt,   \* the next attempt
    search,    \* the calls of alpha_repair_recursive(), the innermost last
    repaired   \* what alpha_repair() returns

alpha_vars == <<damage, wrong, attempt, search, repaired>>

-----------------------------------------------------------------------------
(* The code.                                                               *)

AlphaMask == <<
    Word(\h0000, \h0000, \h0089, \h0017), Word(\h0000, \h0002, \h8200, \h0063),
    Word(\h0000, \h0420, \h0002, \h0183), Word(\h0000, \h0880, \h0800, \h4803),
    Word(\h0000, \h2002, \h0108, \h0a01), Word(\h0000, \h4008, \h8400, \h8101),
    Word(\h0000, \h4100, \h4204, \h0801), Word(\h0000, \h4820, \h0080, \h0409) >>

AlphaIm == <<
    Word(\h0000, \h0226, \h2eea, \h51f0), Word(\h0000, \h0000, \haa22, \h821b),
    Word(\h0000, \h0000, \h0042, \h1084), Word(\h0000, \h0000, \h0022, \h2202),
    Word(\h0000, \h0000, \h0008, \h0080), Word(\h0000, \h0000, \h0004, \h0088),
    Word(\h0000, \h0000, \h0004, \h1045), Word(\h0000, \h0000, \h0004, \h9040) >>

AlphaBit == <<
    { 1,  2,  4, 16, 19, 23}, { 1,  5,  6, 25, 31, 33},
    { 1,  7,  8, 17, 37, 42}, { 1, 11, 14, 27, 39, 43},
    { 9, 11, 19, 24, 33, 45}, { 8, 15, 26, 31, 35, 46},
    {11, 18, 25, 30, 40, 46}, { 3, 10, 23, 37, 43, 46} >>

\* The syndrome of one bit of the data ...
Pattern == [p \in 0 .. 511 |-> Rotl(AlphaMask[p \div 64 + 1], p % 64)]

\* ... as alpha_syndrome() computes it from the other table.
Column == [p \in AllBits |->
             IF p < 512 THEN Rotl({0} \union AlphaBit[p \div 64 + 1], p % 64)
             ELSE {p - 512}]

\* alpha_syndrome() and the exclusive or with data[8].
Syndrome(bits) == {k \in 0 .. 63 : Odd({p \in bits : k \in Column[p]})}

\* The two tables describe one code, and no two bits have the same syndrome.
ASSUME TablesAssumption ==
    /\ \A p \in 0 .. 511 : Column[p] = Pattern[p]
    /\ Cardinality({Column[p] : p \in AllBits}) = 576

\* Flipping the check bits in a syndrome.
InParity(s) == Shifted(s, 512)

-----------------------------------------------------------------------------
(* map_one()                                                               *)

Multiplier == Word(0, 0, \h1ded, \hf3c9)

\* The ten highest bits of the product modulo 2^64, as a set: carry[k] is what
\* the columns below k carry into it.
Hash(s) ==
    LET column(k) == Cardinality({a \in Multiplier : k - a \in s})
        carry[k \in 0 .. 63] ==
            IF k = 0 THEN 0 ELSE (carry[k - 1] + column(k - 1)) \div 2
    IN  {k \in 54 .. 63 : (carry[k] + column(k)) % 2 = 1}

HashOf == [p \in 0 .. 511 |-> Hash(Pattern[p])]

\* A slot holds the last two bits that were entered into it.
Kept == {p \in 0 .. 511 :
           Cardinality({q \in p + 1 .. 511 : HashOf[q] = HashOf[p]}) < 2}

\* Line 205: a slot that holds two bits is never entered again, so that all
\* the bits are kept.
ASSUME MapAssumption == Kept = 0 .. 511

\* MapOne that trusts the hash.
MapHash(s) == {p \in Kept : HashOf[p] = Hash(s)}

\* The bit of the data with this syndrome, if it is found.
MapOne(s) == {p \in Kept : Pattern[p] = s /\ HashOf[p] = Hash(s)}

-----------------------------------------------------------------------------
(* The end of the recursion.  Each returns whether it repaired the data    *)
(* and, in both cases, what the data has become.                           *)

Failed(bits) == [ok |-> FALSE, bits |-> bits]
Done(bits) == [ok |-> TRUE, bits |-> bits]
Flip(bits, p) == Xor(bits, {p})
RepairOne(bits, s) ==
    IF Cardinality(s) = 1 THEN Done(Xor(bits, InParity(s)))
    ELSE IF MapOne(s) = {} THEN Failed(bits)
    ELSE Done(Xor(bits, MapOne(s)))

\* The bits of the data whose syndromes share so many bits with this one.
Sharing(s, counts) == {p \in 0 .. 511 : Cardinality(Pattern[p] \intersect s) \in counts}

\* Undo that leaves the bit flipped.
NotUndone(result, p) == result

\* A failed repair is undone.
Undo(result, p) == IF result.ok THEN result ELSE Failed(Flip(result.bits, p))

-----------------------------------------------------------------------------
(* chip_repair(): rotated so that the chip's bits are the lowest, the      *)
(* syndrome must be the error itself or a multiple of a mask.              *)

\* 36 cases: for each of four rotations, the check bits and the eight words.
Cases == 0 .. 35
Rotation(k) == 16 * (k \div 9)

ChipError(s, k) ==
    IF k % 9 = 0 THEN Rotl(s, Rotation(k))
    ELSE {j - 64 : j \in Product(Rotl(s, Rotation(k)), AlphaIm[k % 9], 64, 127)}

\* ChipFits without the test of the remainder.
AnyRemainder(s, k) == ChipError(s, k) \subseteq 0 .. 15

ChipFits(s, k) ==
    \E error \in {ChipError(s, k)} :
        /\ error \subseteq 0 .. 15
        /\ k % 9 # 0 => Product(error, AlphaMask[k % 9], 0, 63) = Rotl(s, Rotation(k))

\* data[i] ^= rotr64(error, rot)
ChipFlips(s, k) ==
    IF k % 9 = 0 THEN InParity(s)
    ELSE {64 * ((k % 9) - 1) + ((b - Rotation(k)) % 64) : b \in ChipError(s, k)}

-----------------------------------------------------------------------------
(* alpha_repair()                                                          *)

\* A call, with the least threshold it clips.  todo is what remains of one pass
\* over the bits, bit the one that is flipped while a callee runs.
NoBit == -1
Calling(budget, threshold, least) ==
    [budget |-> budget, threshold |-> threshold, least |-> Min({least, 7 - budget \div 2}),
     phase |-> "while", todo |-> {}, bit |-> NoBit]

\* The attempts for an even and for an odd number of errors: the weights of
\* the syndrome they are made for, the budget, and the least threshold.
Attempts == <<
    [weights |-> {2 * i : i \in 0 .. 7} \ {4}, budget |-> 2, least |-> 5],
    [weights |-> {2 * i : i \in 0 .. 14}, budget |-> 4, least |-> 3],
    [weights |-> {2 * i : i \in 0 .. 14}, budget |-> 4, least |-> 2],
    [weights |-> {2 * i : i \in 0 .. 21}, budget |-> 6, least |-> 4],
    [weights |-> {2 * i : i \in 0 .. 21}, budget |-> 6, least |-> 3],
    [weights |-> {2 * i : i \in 0 .. 21}, budget |-> 6, least |-> 2],
    [weights |-> {7}, budget |-> 1, least |-> 7],
    [weights |-> {2 * i + 1 : i \in 0 .. 10}, budget |-> 3, least |-> 3],
    [weights |-> {2 * i + 1 : i \in 0 .. 17}, budget |-> 5, least |-> 5],
    [weights |-> {2 * i + 1 : i \in 0 .. 17}, budget |-> 5, least |-> 3],
    [weights |-> {2 * i + 1 : i \in 0 .. 17}, budget |-> 5, least |-> 2] >>

Repairing == repaired = -2

\* Before, between and after the searches.
Between == Repairing /\ search = << >>

Return(bits, result) ==
    /\ wrong' = bits
    /\ repaired' = result
    /\ search' = << >>
    /\ UNCHANGED <<damage, attempt>>

ChipRepair ==
    /\ Between /\ attempt = -1
    /\ \E s \in {Syndrome(wrong)} : \E fitting \in {{k \in Cases : ChipFits(s, k)}} :
         \/ s = {} /\ Return(wrong, 0)
         \/ /\ s # {} /\ fitting # {}
            /\ \E flips \in {ChipFlips(s, Min(fitting))} :
                  Return(Xor(wrong, flips), Cardinality(flips))
         \/ /\ s # {} /\ fitting = {}
            /\ attempt' = 0
            /\ UNCHANGED <<damage, wrong, search, repaired>>

ParityRepair ==
    /\ Between /\ attempt = 0
    /\ \E s \in {Syndrome(wrong)} :
         \/ Cardinality(s) <= 4 /\ Return(Xor(wrong, InParity(s)), Cardinality(s))
         \/ /\ Cardinality(s) > 4
            /\ attempt' = 1
            /\ UNCHANGED <<damage, wrong, search, repaired>>

\* The weight is the one from before the first attempt.
Attempt ==
    /\ Between /\ attempt \in DOMAIN Attempts
    /\ \E a \in {Attempts[attempt]} :
         \/ /\ Cardinality(Syndrome(damage)) \in a.weights
            /\ search' = <<Calling(a.budget, 7, a.least)>>
            /\ UNCHANGED <<damage, wrong, attempt, repaired>>
         \/ /\ Cardinality(Syndrome(damage)) \notin a.weights
            /\ attempt' = attempt + 1
            /\ UNCHANGED <<damage, wrong, search, repaired>>

RepairFailed ==
    /\ Between /\ attempt > Len(Attempts)
    /\ Return(wrong, -1)

-----------------------------------------------------------------------------
(* alpha_repair_recursive()                                                *)

\* A call that returns failure: its caller undoes the bit it had flipped, the
\* outermost call makes room for the next attempt.
CallFails(bits) ==
    /\ \/ Len(search) = 1
          /\ wrong' = bits /\ search' = << >> /\ attempt' = attempt + 1
       \/ Len(search) > 1
          /\ wrong' = Flip(bits, search[Len(search) - 1].bit)
          /\ search' = [SubSeq(search, 1, Len(search) - 1)
                          EXCEPT ![Len(search) - 1].bit = NoBit]
          /\ UNCHANGED attempt
    /\ UNCHANGED <<damage, repaired>>

\* If one call succeeds, so do all its callers.
CallReturns(r) ==
    \/ r.ok /\ Return(r.bits, Attempts[attempt].budget)
    \/ ~r.ok /\ CallFails(r.bits)

\* The ends of the recursion.
RepairOneBit(f) ==
    /\ f.budget = 1
    /\ \E s \in {Syndrome(wrong)} : \E r \in {RepairOne(wrong, s)} : CallReturns(r)

\* The first bit with a share of five is the only one that is tried.
RepairTwoBits(f) ==
    /\ f.budget = 2
    /\ \E s \in {Syndrome(wrong)} : \E likely \in {Sharing(s, 5 .. 7)} :
         \/ Cardinality(s) = 2 /\ CallReturns(Done(Xor(wrong, InParity(s))))
         \/ /\ Cardinality(s) # 2
            /\ Cardinality(s) \notin {6, 8, 10, 12, 14} \/ likely = {}
            /\ CallReturns(Failed(wrong))
         \/ /\ Cardinality(s) \in {6, 8, 10, 12, 14} /\ likely # {}
            /\ \E p \in {Min(likely)} : \E rest \in {Xor(s, Pattern[p])} :
               \E r \in {RepairOne(Flip(wrong, p), rest)} : CallReturns(Undo(r, p))

\* The head of the while loop.
Round(f) ==
    /\ f.budget > 2 /\ f.phase = "while"
    /\ \E s \in {Syndrome(wrong)} :
         \/ f.threshold < f.least /\ CallFails(wrong)
         \/ f.threshold >= f.least /\ Cardinality(s) > 7 * f.budget /\ CallFails(wrong)
         \/ /\ f.threshold >= f.least /\ Cardinality(s) <= 7 * f.budget
            /\ Cardinality(s) <= f.budget
            /\ Return(Xor(wrong, InParity(s)), Attempts[attempt].budget)
         \/ /\ f.threshold >= f.least /\ Cardinality(s) <= 7 * f.budget
            /\ Cardinality(s) > f.budget
            /\ search' = [search EXCEPT ![Len(search)].phase = "for",
                                        ![Len(search)].todo = Sharing(s, {f.threshold})]
            /\ UNCHANGED <<damage, wrong, attempt, repaired>>

\* A bit that reaches the threshold is flipped and the rest left to a call
\* with a smaller budget.
TryBit(f) ==
    /\ f.phase = "for" /\ f.todo # {}
    /\ \E p \in {Min(f.todo)} :
         /\ wrong' = Flip(wrong, p)
         /\ search' =
              Append([search EXCEPT ![Len(search)].todo = @ \ {p}, ![Len(search)].bit = p],
                     Calling(f.budget - 1, IF f.threshold < 5 THEN f.threshold + 2 ELSE 7,
                          f.least + 1))
    /\ UNCHANGED <<damage, attempt, repaired>>

\* All of them were tried.
LowerThreshold(f) ==
    /\ f.phase = "for" /\ f.todo = {}
    /\ search' = [search EXCEPT ![Len(search)].phase = "while",
                                ![Len(search)].threshold = IF @ = 0 THEN 0 ELSE @ - 1]
    /\ UNCHANGED <<damage, wrong, attempt, repaired>>

Search ==
    /\ Repairing /\ search # << >>
    /\ \E f \in {search[Len(search)]} :
         \/ RepairOneBit(f) \/ RepairTwoBits(f)
         \/ Round(f) \/ TryBit(f) \/ LowerThreshold(f)

-----------------------------------------------------------------------------

AlphaCall(bits) ==
    /\ damage = bits /\ wrong = bits
    /\ attempt = -1 /\ search = << >> /\ repaired = -2

AlphaInit == \E bits \in AlphaInputs : AlphaCall(bits)

AlphaNext == ChipRepair \/ ParityRepair \/ Attempt \/ Search \/ RepairFailed

AlphaSpec == AlphaInit /\ [][AlphaNext]_alpha_vars

-----------------------------------------------------------------------------
(* What makes it correct.                                                  *)

AlphaEnded == ~Repairing

\* Types of alpha_repair()'s state.
AlphaTypeOK ==
    /\ {damage, wrong} \subseteq SUBSET AllBits
    /\ attempt \in -1 .. Len(Attempts) + 1
    /\ repaired \in -2 .. 16
    /\ search \in Seq([budget : 1 .. 6, threshold : 0 .. 7, least : 0 .. 7,
                       phase : {"while", "for"}, todo : SUBSET (0 .. 511),
                       bit : -1 .. 511])

\* Bits of one group of 16, as they fail with a chip.
OneChip(bits) == Cardinality({p \div 16 : p \in bits}) = 1

\* Any number of flipped bits in one chip are repaired, and counted: no other
\* chip and none of the words before it can be taken for the one that failed.
ChipRepaired ==
    AlphaEnded /\ OneChip(damage) => wrong = {} /\ repaired = Cardinality(damage)

\* Up to three flipped bits anywhere are repaired by whichever of the attempts
\* comes to it first, and counted.
AlphaRepairs ==
    AlphaEnded /\ Cardinality(damage) <= 3 => wrong = {} /\ repaired = Cardinality(damage)

\* Failed attempts take back every bit they flipped on the way, at all levels
\* of the recursion: the next one begins with the data as they were, and so
\* does the caller who is told that they could not be repaired.
AlphaUndone == Between \/ repaired = -1 => wrong = damage

\* Whatever the damage, data that are reported as repaired are data that
\* alpha_gen() could have made, and no more bits are changed than reported,
\* through all levels of the search: if the repair is the right one, at least
\* the flipped bits are counted (line 545).
AlphaConsistent ==
    AlphaEnded /\ repaired # -1 =>
        Syndrome(wrong) = {} /\ Cardinality(Xor(damage, wrong)) <= repaired
=============================================================================
