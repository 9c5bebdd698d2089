----------------------------- MODULE MCArchives -----------------------------
(* Small instances of Archives for TLC. *)
EXTENDS Archives, TLC

Symmetry == Permutations(Files)
=============================================================================
