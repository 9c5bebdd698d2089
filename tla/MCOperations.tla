---------------------------- MODULE MCOperations ----------------------------
(* Small instances of Operations for TLC. *)
EXTENDS Operations, TLC

CallSymmetry == Permutations(Calls)
=============================================================================
