------------------------------ MODULE MCSubQueue ------------------------------
(***************************************************************************)
(* Instances of SubQueue for TLC.  One of the values is the one calloc()   *)
(* leaves in a fresh ring, so that equal values can meet in an entry.      *)
(***************************************************************************)
EXTENDS SubQueue, TLC

Symmetry == Permutations(Producers) \union Permutations(Consumers)
=============================================================================
