----------------------------- MODULE BufferLoan -----------------------------
(***************************************************************************)
(* What a data stream promises about each of its buffers, whoever calls it *)
(* and whatever fails: at any time a buffer has one owner, at most one     *)
(* buffer is lent to the application, the application gets only buffers    *)
(* the device has filled, and a buffer it has had is filled again only     *)
(* after it was given back.                                                *)
(***************************************************************************)
CONSTANT Buffers

VARIABLE owner  \* of each buffer

Owners == {"nobody",       \* not announced
           "pool",         \* queued, the device may write to it
           "filled",       \* in the output queue
           "application",  \* returned by grab()
           "lost"}         \* announced, but out of circulation

Init == owner = [b \in Buffers |-> "nobody"]

\* All buffers are revoked, and those of S, if any, are announced and queued.
Restart(S) == owner' = [b \in Buffers |-> IF b \in S THEN "pool" ELSE "nobody"]

Move(b, from, to) == owner[b] = from /\ owner' = [owner EXCEPT ![b] = to]

Fill(b) == Move(b, "pool", "filled")

Lend(b) ==
  /\ \A c \in Buffers : owner[c] # "application"
  /\ Move(b, "filled", "application")

GiveBack(b) == Move(b, "application", "pool")

Lose(b) == Move(b, "application", "lost")

Next ==
  \/ \E S \in SUBSET Buffers : Restart(S)
  \/ \E b \in Buffers : Fill(b) \/ Lend(b) \/ GiveBack(b) \/ Lose(b)

Spec == Init /\ [][Next]_owner
=============================================================================
