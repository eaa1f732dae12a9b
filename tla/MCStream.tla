------------------------------ MODULE MCStream ------------------------------
(* Instances of Stream for TLC. *)
EXTENDS Stream, TLC

\* Handles are interchangeable.
BufferSymmetry == Permutations(Buffers)
=============================================================================
