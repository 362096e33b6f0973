--------------------------- MODULE MCMerkleProof ----------------------------
(* Small instances of MerkleProof. *)
EXTENDS MerkleProof
=============================================================================
