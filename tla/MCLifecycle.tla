---------------------------- MODULE MCLifecycle ----------------------------
(* Object addresses are interchangeable. *)
EXTENDS Lifecycle, TLC

ObjectSymmetry ==
  Permutations(Systems) \cup Permutations(Interfaces) \cup Permutations(Devices)
=============================================================================
