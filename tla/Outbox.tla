------------------------------- MODULE Outbox -------------------------------
(***************************************************************************)
(* What the notifications promise: each item is sent to the owner once, as *)
(* far as the sender can know.  Whoever wants to send it claims it first.  *)
(* A copy that was accepted, and is known to be, is the last one; when the *)
(* answer to it was lost, or it was refused, the claim may be taken back   *)
(* and the item sent again.  A claim whose owner died stays, and its item  *)
(* is never sent again.                                                    *)
(***************************************************************************)
CONSTANT Item

VARIABLE box        \* box[i]: "due", "claimed", "unsure" or "sent"

OutboxInit == box \in [Item -> {"due"}]

Claim(i) == box[i] = "due" /\ box' = [box EXCEPT ![i] = "claimed"]

Sent(i) == box[i] = "claimed" /\ box' = [box EXCEPT ![i] = "sent"]

\* Accepted, and the sender does not know.
Lose(i) == box[i] = "claimed" /\ box' = [box EXCEPT ![i] = "unsure"]

TakeBack(i) == box[i] \in {"claimed", "unsure"} /\ box' = [box EXCEPT ![i] = "due"]

OutboxNext == \E i \in Item : Claim(i) \/ Sent(i) \/ Lose(i) \/ TakeBack(i)

OutboxSpec == OutboxInit /\ [][OutboxNext]_box

=============================================================================
