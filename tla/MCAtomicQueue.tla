---------------------------- MODULE MCAtomicQueue ----------------------------
(***************************************************************************)
(* Instances of AtomicQueue for TLC.                                       *)
(***************************************************************************)
EXTENDS AtomicQueue
=============================================================================
