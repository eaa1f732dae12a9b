---------------------------- MODULE FileTransfer ----------------------------
(***************************************************************************)
(* What loadFile() and saveFile() promise about the bytes they move: the   *)
(* destination only ever grows by the next bytes of the source, and a      *)
(* transfer that reports it is complete has moved them all.  Bytes are     *)
(* told apart by their position in the source.  A transfer may be spoilt   *)
(* while it runs, and nothing is promised of what comes after it.          *)
(***************************************************************************)
EXTENDS Naturals, Sequences

VARIABLES
  size,     \* number of bytes in the source
  dst,      \* the bytes at the destination
  outcome   \* "busy", "undefined" once spoilt, or how the last transfer ended

vars == <<size, dst, outcome>>

\* The n bytes of the source behind position from.
Bytes(from, n) == [i \in 1..n |-> from + i]

Outcomes == {"none", "complete", "unknown", "failed"}

Init == size \in Nat /\ dst = <<>> /\ outcome = "none"

Begin ==
  /\ outcome \in Outcomes /\ outcome' = "busy"
  /\ size' \in Nat /\ dst' = <<>>

Move(n) ==
  /\ outcome = "busy"
  /\ dst' = dst \o Bytes(Len(dst), n)
  /\ UNCHANGED <<size, outcome>>

\* A transfer may end early, but not as a complete one.
End(o) ==
  /\ outcome = "busy" /\ outcome' = o
  /\ o = "complete" => dst = Bytes(0, size)
  /\ UNCHANGED <<size, dst>>

\* An attempt that does not get to a transfer; a caller may have asked not to
\* be told.
Refuse ==
  /\ outcome \in Outcomes /\ outcome' \in {"failed", "unknown"}
  /\ size' \in Nat /\ dst' = <<>>

Spoil ==
  /\ outcome = "busy" /\ outcome' = "undefined"
  /\ UNCHANGED <<size, dst>>

Next ==
  \/ Begin \/ Refuse \/ Spoil
  \/ \E n \in 0..(size - Len(dst)) : Move(n)
  \/ \E o \in Outcomes \ {"none"} : End(o)

Spec == Init /\ [][Next]_vars
=============================================================================
