------------------------------ MODULE MCAccounts ------------------------------
(* Small instances of Accounts for TLC. *)
EXTENDS Accounts, TLC

Symmetry == Permutations(Calls)
=============================================================================
