----------------------------- MODULE GrantLock -----------------------------
(***************************************************************************)
(* What the approval of payees promises, without requests, statements,     *)
(* child processes or clocks: "only one live approval can exist" at a      *)
(* time (migration 20260904142701), and a payee is only approved once its  *)
(* owner has given it authority at Perflo, after it was put up for that.   *)
(***************************************************************************)
CONSTANT Sender         \* the payees, each known by one sender address

VARIABLES
  phase,                \* phase[s]: "unknown", "free", "holding" or "approved"
  authorised            \* the payees with authority at Perflo

vars == <<phase, authorised>>

Init ==
  /\ phase = [s \in Sender |-> "unknown"]
  /\ authorised = {}

\* Put a payee up for approval, for the first time or again.
Acquire(s) ==
  /\ \A t \in Sender : phase[t] # "holding"
  /\ phase[s] \in {"unknown", "free"}
  /\ phase' = [phase EXCEPT ![s] = "holding"]
  /\ UNCHANGED authorised

\* The owner's click in the browser.  It may come late: authority given to a
\* payee that does not hold the lock any more is not recorded.
Authorise(s) ==
  /\ phase[s] # "unknown"
  /\ authorised' = authorised \union {s}
  /\ UNCHANGED phase

Approve(s) ==
  /\ phase[s] = "holding" /\ s \in authorised
  /\ phase' = [phase EXCEPT ![s] = "approved"]
  /\ UNCHANGED authorised

\* Denied or expired.
Release(s) ==
  /\ phase[s] = "holding"
  /\ phase' = [phase EXCEPT ![s] = "free"]
  /\ UNCHANGED authorised

Next == \E s \in Sender : Acquire(s) \/ Authorise(s) \/ Approve(s) \/ Release(s)

Spec == Init /\ [][Next]_vars

=============================================================================
