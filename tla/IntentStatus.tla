---------------------------- MODULE IntentStatus ----------------------------
(***************************************************************************)
(* The life of a payment intent's status, as the comment beside the column *)
(* tells it (packages/db/prisma/schema.prisma:148-150): a claim is paid,   *)
(* failed or in doubt, "failed -> claimed again (owner retry)", and doubt  *)
(* is never claimed.  Widened as PaymentLedger is: doubt may be settled,   *)
(* and "paid" may come late, over another status.                          *)
(*                                                                         *)
(* It says nothing of requests and money, so that every model of the       *)
(* column can be held against it, whatever else the model leaves out.      *)
(***************************************************************************)
CONSTANT Intent

VARIABLE state      \* state[i]; "open" before the first claim

LifeInit == state = [i \in Intent |-> "open"]

Turn(i, from, to) == state[i] \in from /\ state' = [state EXCEPT ![i] = to]

Claim(i) == Turn(i, {"open", "failed"}, "claimed")

Pay(i) == Turn(i, {"claimed", "failed", "unknown_outcome"}, "paid")

Fail(i) == Turn(i, {"claimed", "unknown_outcome"}, "failed")

\* One statement may give up on several claims.
Doubt(S) ==
  /\ \A i \in S : state[i] = "claimed"
  /\ state' = [i \in Intent |-> IF i \in S THEN "unknown_outcome" ELSE state[i]]

LifeNext ==
  \/ \E i \in Intent : Claim(i) \/ Pay(i) \/ Fail(i)
  \/ \E S \in SUBSET Intent : Doubt(S)

LifeSpec == LifeInit /\ [][LifeNext]_state

=============================================================================
