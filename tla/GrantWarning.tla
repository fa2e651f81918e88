---------------------------- MODULE GrantWarning ----------------------------
(***************************************************************************)
(* The warning that a payee's grant is about to expire                     *)
(* (worker/src/grant-expiry-warning.ts): a pass lists the payees that have *)
(* had none, and claims and warns one after the other.  The worker runs it *)
(* at its start and in every poll, and polls may overlap.                  *)
(***************************************************************************)
EXTENDS Naturals

CONSTANTS
  Grantee,      \* approved payees
  Warner,       \* passes that may run at once
  MaxStops      \* bound: passes that the database or a death stops

ASSUME StopAssumption == MaxStops \in Nat

VARIABLES
  expiring,     \* grants that expire within seven days
  claimed,      \* payees whose grantExpiryWarningSentAt is set
  warned,       \* how often Gmail has accepted the payee's warning
  listed,       \* what each pass has found and not gone through
  sending,      \* the payee each pass has claimed and is warning about
  unsent,       \* history: claimed payees whose warning was not accepted
  stops

warnVars == <<expiring, claimed, warned, listed, sending, unsent, stops>>

WarnInit ==
  /\ expiring = {} /\ claimed = {} /\ unsent = {} /\ stops = 0
  /\ warned = [g \in Grantee |-> 0]
  /\ listed = [w \in Warner |-> {}]
  /\ sending = [w \in Warner |-> {}]

\* Seven days are left, or none.
GrantAges(g) ==
  /\ expiring' \in {expiring \union {g}, expiring \ {g}}
  /\ UNCHANGED <<claimed, warned, listed, sending, unsent, stops>>

\* findExpiringPayees
Expiring == expiring \ claimed

FindExpiringPayees(w) ==
  /\ listed[w] = {} /\ sending[w] = {}
  /\ listed' = [listed EXCEPT ![w] = Expiring]
  /\ UNCHANGED <<expiring, claimed, warned, sending, unsent, stops>>

\* (Mutation: the list is trusted.)
ClaimAnyway(g) == TRUE

\* The guard of the claim's updateMany.
Unwarned(g) == g \notin claimed

ClaimWarning(w) ==
  /\ sending[w] = {}
  /\ \E g \in listed[w] :
       /\ listed' = [listed EXCEPT ![w] = @ \ {g}]
       /\ IF Unwarned(g)
          THEN claimed' = claimed \union {g} /\ sending' = [sending EXCEPT ![w] = {g}]
          ELSE UNCHANGED <<claimed, sending>>
  /\ UNCHANGED <<expiring, warned, unsent, stops>>

\* (Mutation: the claim is taken back, as that of an alert is.)
TakenBack(w) == claimed \ sending[w]

ClaimsAfterFailure(w) == claimed

WarnedOnceMore(w) == [g \in Grantee |-> IF g \in sending[w] THEN warned[g] + 1 ELSE warned[g]]

\* Gmail accepts the warning, or sendEmail throws, with the warning accepted
\* or not: the pass ends, the claim stays, and the rest waits for the next
\* pass.
SendWarning(w) ==
  /\ sending[w] # {}
  /\ \/ /\ warned' = WarnedOnceMore(w)
        /\ UNCHANGED <<listed, unsent, claimed>>
     \/ /\ \/ unsent' = unsent \union sending[w] /\ UNCHANGED warned
           \/ warned' = WarnedOnceMore(w) /\ UNCHANGED unsent
        /\ listed' = [listed EXCEPT ![w] = {}]
        /\ claimed' = ClaimsAfterFailure(w)
  /\ sending' = [sending EXCEPT ![w] = {}]
  /\ UNCHANGED <<expiring, stops>>

\* The database throws or the process dies.
StopWarning(w) ==
  /\ listed[w] # {} \/ sending[w] # {}
  /\ stops < MaxStops /\ stops' = stops + 1
  /\ unsent' = unsent \union sending[w]
  /\ listed' = [listed EXCEPT ![w] = {}]
  /\ sending' = [sending EXCEPT ![w] = {}]
  /\ UNCHANGED <<expiring, claimed, warned>>

WarnStep(w) == FindExpiringPayees(w) \/ ClaimWarning(w) \/ SendWarning(w)

WarnNext ==
  \/ \E g \in Grantee : GrantAges(g)
  \/ \E w \in Warner : WarnStep(w) \/ StopWarning(w)

WarnSpec == WarnInit /\ [][WarnNext]_warnVars

---------------------------------------------------------------------------
(* Properties *)

\* Types; a pass warns about a payee that it and no other has claimed, and a
\* claim whose warning was not accepted is never warned about.
WarnTypeOK ==
  /\ expiring \subseteq Grantee /\ claimed \subseteq Grantee /\ unsent \subseteq claimed
  /\ warned \in [Grantee -> Nat]
  /\ listed \in [Warner -> SUBSET Grantee]
  /\ sending \in [Warner -> SUBSET claimed]
  /\ stops \in 0..MaxStops
  /\ \A g \in unsent : warned[g] = 0
  /\ \A v, w \in Warner : v # w => sending[v] \intersect sending[w] = {}

\* "Warns once per approved payee" (grant-expiry-warning.ts): the warnings are
\* an outbox, and no copy goes out after an accepted one, known or not.
Warnings == INSTANCE Outbox WITH
  Item <- Grantee,
  box <- [g \in Grantee |-> CASE warned[g] > 1 -> "twice"
                              [] warned[g] = 1 -> "sent"
                              [] OTHER -> IF g \in claimed THEN "claimed" ELSE "due"]
WarningsOnce == Warnings!OutboxSpec

\* A grant that goes on expiring is taken up, whatever becomes of the other
\* payees' warnings.
EveryGrantClaimed == \A g \in Grantee : []<>(g \in claimed \/ g \notin expiring)

=============================================================================
