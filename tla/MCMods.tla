-------------------------------- MODULE MCMods --------------------------------
(* Small instances of Mods for TLC. *)
EXTENDS Mods, TLC

Symmetry ==
    Permutations(Uploads) \cup Permutations(ValidJars)
        \cup Permutations(Names) \cup Permutations(Requests)
=============================================================================
