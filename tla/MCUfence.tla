------------------------------ MODULE MCUfence ------------------------------
(* Three regions, two of which compete for one slot of the hash table. *)
EXTENDS Ufence, TLC

MCHash == [r \in Regions |-> IF r = 3 THEN 1 ELSE 0]

\* No definition tells the threads apart.
Symmetry == Permutations(Threads)
=============================================================================
