------------------------------ MODULE ChipsApart ------------------------------
(***************************************************************************)
(* Errors of one chip and what chip_repair() of ldpc.c makes of them: what *)
(* the columns of the code must be for it to find the chip that failed.    *)
(* These are closed formulas, a few for each pair of chips; that they are  *)
(* enough for all the errors is proved.                                    *)
(***************************************************************************)
EXTENDS AlphaCode

\* Where bit j of the error is in the data, in one of the cases.
ChipBit(k, j) ==
    (IF k % 9 = 0 THEN 512 ELSE 64 * ((k % 9) - 1)) + ((j - Rotation(k)) % 64)

\* The cases are the chips, and an error of one bit is found.
ASSUME ChipAssumption ==
    /\ \A p \in AllBits : \E k \in Cases : \A j \in 0 .. 15 :
         ChipBit(k, j) = 16 * (p \div 16) + j
    /\ \A k \in Cases : \A j \in 0 .. 15 :
         ChipError(Column[ChipBit(k, j)], k) = {j} /\ ChipFits(Column[ChipBit(k, j)], k)

\* Case k seen from the rotation of case c.
Turned(k, c) == (k % 9) + 9 * (((k \div 9) - (c \div 9)) % 4)

\* The code is the same in every rotation.
ASSUME TurnAssumption ==
    \A c, k \in Cases : \A j \in 0 .. 15 :
        Column[ChipBit(Turned(k, c), j)] = Rotl(Column[ChipBit(k, j)], Rotation(c))

-----------------------------------------------------------------------------
(* Elimination.  A test is a set of check bits of which a column may have   *)
(* an odd or an even number.  free are tests that are even for all columns  *)
(* so far, tests[n] is odd for the n-th of them only.                       *)

Cleared(f, column, pivot) == IF Odd(f \intersect column) THEN Xor(f, pivot) ELSE f

With(state, column) ==
    CHOOSE next \in
        {[free |-> {Cleared(f, column, pivot) : f \in state.free \ {pivot}},
          tests |-> Append([n \in DOMAIN state.tests |-> Cleared(state.tests[n], column, pivot)],
                           pivot)] :
            pivot \in {CHOOSE f \in state.free : Odd(f \intersect column)}} : TRUE

\* The columns of a case, one after the other.
WithChip(state, k) ==
    LET after[n \in 0 .. 16] ==
          IF n = 0 THEN [state EXCEPT !.tests = << >>]
          ELSE With(after[n - 1], Column[ChipBit(k, n - 1)])
    IN  after[16]

Without == [k \in Cases |-> WithChip([free |-> {{b} : b \in 0 .. 63}, tests |-> << >>], k)]

\* No error of one chip has the syndrome of an error of another: each column of
\* one passes a test that all the other columns of the two do not pass.
ASSUME ApartAssumption ==
    \A c \in 0 .. 8, k \in Cases : c # k =>
        \E tests \in {WithChip(Without[k], c).tests} :
            \A i \in 0 .. 15 : \A j \in 0 .. 15 :
                /\ Odd(tests[i + 1] \intersect Column[ChipBit(c, j)]) <=> i = j
                /\ ~Odd(tests[i + 1] \intersect Column[ChipBit(k, j)])
=============================================================================
