---------------------------- MODULE MCCheckpoint ----------------------------
(* Small instances of VerifyCheckpoint. *)
EXTENDS VerifyCheckpoint, TLC

(* Chains are interchangeable, and so are the contents the schema accepts. *)
Symmetry == Permutations(Chains) \cup Permutations(Bodies \ Rejected)
=============================================================================
