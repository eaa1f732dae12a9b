-------------------------- MODULE MCPointcloudSync --------------------------
(* Small lists, with and without a tolerance. *)
EXTENDS PointcloudSync
=============================================================================
