-------------------------- MODULE MCProfileArchive --------------------------
(* Small instances of ProfileArchive and Publication. *)
EXTENDS Publication, TLC

Symmetry == Permutations(Profiles) \cup Permutations(Versions) \cup Permutations(Rules)
=============================================================================
