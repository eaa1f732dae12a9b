---------------------------- MODULE MCFileAccess ----------------------------
(* An instance of FileAccess for TLC: sizes up to two blocks behind IntMax. *)
EXTENDS FileAccess
=============================================================================
