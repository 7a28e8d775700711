-------------------------------- MODULE BitSets --------------------------------
(***************************************************************************)
(* Machine words as the sets of their one bits.  The exclusive or is the   *)
(* symmetric difference; read as polynomials over two elements, words are  *)
(* multiplied without carries.                                             *)
(***************************************************************************)
EXTENDS Integers, FiniteSets

Xor(A, B) == (A \ B) \union (B \ A)

Odd(A) == Cardinality(A) % 2 = 1

Shifted(A, k) == {b + k : b \in A}

\* Bits from .. to of the product of A and B.
Product(A, B, from, to) ==
    {k \in from .. to : Odd({a \in A : k - a \in B})}

\* Rotation to the left within 64 bits.
Rotl(A, k) == {(b + k) % 64 : b \in A}

\* A constant of 64 bits from its four groups of four hexadecimal digits.
Bits(v) == {b \in 0 .. 15 : (v \div 2^b) % 2 = 1}
Word(w3, w2, w1, w0) ==
    Bits(w0) \union Shifted(Bits(w1), 16) \union Shifted(Bits(w2), 32)
             \union Shifted(Bits(w3), 48)
=============================================================================
