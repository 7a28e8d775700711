------------------------------ MODULE MCPrograms ------------------------------
(* Inputs for each of the programs.                                        *)
EXTENDS Programs, ChipsApart, MCHistogram, TLC

-----------------------------------------------------------------------------
(* engel_coding.c: five symbols.  The counts are zero, the ones too few for *)
(* a boundary, one that is alone in its rank and two that share a rank:     *)
(* every mixture of lengths up to MaxBits = 4 and an absent symbol occurs.  *)

MCCounts == {0, 1, 9, 40, 41}

\* The two large counts are of one rank, or its insertion sort has no work.
ASSUME RankAssumption == Rank(40) = Rank(41) /\ Rank(9) < Rank(40)

-----------------------------------------------------------------------------
(* crc64.c: around each of the thresholds, with several rounds of each loop *)

MCLengths ==
    {0, 1, 7, 8, 23, 24, 25, 31, 32, 47, 56, 57, 63, 64, 88, 89, 95, 96, 121,
     127, 128, 129, 191, 192, 255, 256, 257, 320, 383, 385, 600}
MCAlignments == {0, 1, 15, 63}

-----------------------------------------------------------------------------
(* ldpc.c, secded: each single flipped bit, pairs with one bit of each kind *)
(* and triples, beside a word that is intact, repaired or not.              *)

MCFlips ==
    {{}} \union {{a} : a \in 0 .. 71}
    \union {{a, b} : a \in 0 .. 71, b \in {0, 57, 64, 70, 71}}
MCSecdedInputs ==
    {<<e, f>> : e \in {{}, {3, 66}}, f \in MCFlips}
    \union {<<{70}, {a, b, (a * b) % 72}>> : a \in 0 .. 71, b \in {4, 63}}
MCPairs == {[w \in 0 .. 1 |-> p[w + 1]] : p \in MCSecdedInputs}

-----------------------------------------------------------------------------
(* ldpc.c, alpha: whole chips and parts of them, single bits, pairs and     *)
(* triples; four bits; five check bits, that are only found by the largest  *)
(* search; six bits, found by the last attempt, or taken for four others;   *)
(* and eleven bits that three attempts search in vain.                      *)

MCAlphaInputs ==
    {{a} : a \in {0, 200, 511, 512, 575}}
    \union {16 * c .. 16 * c + 15 : c \in 0 .. 35}
    \union {{16 * c, 16 * c + 9, 16 * c + 10} : c \in 0 .. 35}
    \union {{0, q} : q \in {20, 64, 100, 300, 512}}
    \union {{0, 7 * q, 575 - q} : q \in 5 .. 14}
    \union {{512, 575}, {10, 111, 212, 313}, {512, 530, 550, 570, 575}}
    \union {{14, 147, 258, 378, 409, 511}, {516, 525, 535, 540, 559, 561}}
    \union {{81, 139, 215, 277, 340, 356, 361, 396, 427, 465, 489}}
=============================================================================
