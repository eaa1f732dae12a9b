----------------------------- MODULE MCGrabLoop -----------------------------
(* An instance of GrabLoop for TLC. *)
EXTENDS GrabLoop
=============================================================================
