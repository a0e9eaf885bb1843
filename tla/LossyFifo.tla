----------------------------- MODULE LossyFifo -----------------------------
(***************************************************************************)
(* What weft-appd may rely on when it queues a message for weft-compositor *)
(* (compositor_client.rs): the messages still on their way form one        *)
(* sequence.  A message enters it once, at the end, and nothing that       *)
(* happens to a connection reorders it or brings one back; messages leave  *)
(* it, handled at the front or lost anywhere.                              *)
(***************************************************************************)
EXTENDS Naturals, Sequences

VARIABLE pending   \* the messages on their way, the oldest first

Init == pending = <<>>

\* A message that is not on its way already is queued behind the others.
Put(before, after) ==
  /\ Len(after) = Len(before) + 1
  /\ \A i \in DOMAIN before : after[i] = before[i] /\ after[i] # after[Len(after)]

\* Messages are handled or lost: what remains is in the same order.
Leave(before, after) ==
  /\ Len(after) < Len(before)
  /\ \E place \in [DOMAIN after -> DOMAIN before] :
       /\ \A i, j \in DOMAIN after : i < j => place[i] < place[j]
       /\ \A i \in DOMAIN after : after[i] = before[place[i]]

Next == Put(pending, pending') \/ Leave(pending, pending')

Spec == Init /\ [][Next]_pending
=============================================================================
