------------------------------ MODULE MCLocks ------------------------------
(* One interface, two objects for one camera, and one stream. *)
EXTENDS Locks, TLC

CONSTANTS i1, d1, d2, s1

TheParent == i1 :> System @@ d1 :> i1 @@ d2 :> i1 @@ s1 :> d1
=============================================================================
