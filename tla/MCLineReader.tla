---------------------------- MODULE MCLineReader ----------------------------
(* Small instances of LineReader. *)
EXTENDS LineReader
=============================================================================
