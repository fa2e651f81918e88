--------------------------- MODULE PaymentLedger ---------------------------
(***************************************************************************)
(* What the payment path promises of one PaymentIntent row, without        *)
(* callers, reads, writes or a reconciler: the life of the row's status,   *)
(* and how often money may be sent for it.                                 *)
(*                                                                         *)
(* The status machine is the one written beside the column                 *)
(* (packages/db/prisma/schema.prisma:148-150), widened by the two          *)
(* transitions the code adds: a reconciler may settle unknown_outcome, and *)
(* the writer of "paid" does not look at the status it overwrites.         *)
(*                                                                         *)
(* Money: a row starts with leave to send ONE payout request (round 0) and *)
(* is given leave for one more each time "failed" is recorded on it.       *)
(***************************************************************************)
EXTENDS Naturals

CONSTANT Email          \* the invoices, one PaymentIntent row each

VARIABLES
  status,               \* status[e]: the row's status, "absent" before prepare
  failures,             \* failures[e]: how often "failed" was recorded
  spent                 \* spent[e]: the rounds in which a request was sent

vars == <<status, failures, spent>>

Status == {"absent", "pending", "claimed", "paid", "failed", "unknown_outcome"}

Retryable == {"pending", "failed"}

Init ==
  /\ status = [e \in Email |-> "absent"]
  /\ failures = [e \in Email |-> 0]
  /\ spent = [e \in Email |-> {}]

Prepare(e) ==
  /\ status[e] = "absent"
  /\ status' = [status EXCEPT ![e] = "pending"]
  /\ UNCHANGED <<failures, spent>>

Claim(e) ==
  /\ status[e] \in Retryable
  /\ status' = [status EXCEPT ![e] = "claimed"]
  /\ UNCHANGED <<failures, spent>>

\* A request leaves for the provider: never twice in one round, never in a
\* round that no recorded failure has opened.
Send(e) ==
  /\ status[e] \notin {"absent", "pending"}
  /\ \E n \in 0..failures[e] :
       /\ n \notin spent[e]
       /\ spent' = [spent EXCEPT ![e] = @ \union {n}]
  /\ UNCHANGED <<status, failures>>

\* "paid" is recorded only for an invoice money was really sent for.
RecordPaid(e) ==
  /\ spent[e] # {}
  /\ status' = [status EXCEPT ![e] = "paid"]
  /\ UNCHANGED <<failures, spent>>

RecordFailed(e) ==
  /\ status[e] \in {"claimed", "unknown_outcome"}
  /\ status' = [status EXCEPT ![e] = "failed"]
  /\ failures' = [failures EXCEPT ![e] = @ + 1]
  /\ UNCHANGED spent

\* One statement may give up on several claims.
Doubt(S) ==
  /\ \A e \in S : status[e] = "claimed"
  /\ status' = [e \in Email |-> IF e \in S THEN "unknown_outcome" ELSE status[e]]
  /\ UNCHANGED <<failures, spent>>

Next ==
  \/ \E e \in Email :
       Prepare(e) \/ Claim(e) \/ Send(e) \/ RecordPaid(e) \/ RecordFailed(e)
  \/ \E S \in SUBSET Email : Doubt(S)

Spec == Init /\ [][Next]_vars

=============================================================================
