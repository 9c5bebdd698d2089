------------------------------ MODULE MCAiBudget ------------------------------
(* Small instances of AiBudget for TLC. *)
EXTENDS AiBudget, TLC

Symmetry == Permutations(Chats)
=============================================================================
